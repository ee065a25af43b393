---------------------------- MODULE RoundTripProofs ----------------------------
(***************************************************************************)
(* The reader gives back what the writer wrote, for every save that was    *)
(* read from any file.                                                     *)
(*                                                                         *)
(* Part says which fields of a save a cursor has gained so far, and Reads  *)
(* that a piece of the file was read as its part of the save: the blocks   *)
(* of a table one by one (RunRead), the change forms, the body, the front  *)
(* of the file. All of a file that was written is read, unless compression *)
(* made it shorter than the reader's least size, and nothing is missing    *)
(* then (AllReadBack, WrittenIsRead); one whose body is stored as it is    *)
(* is never that short (FileLong).                                         *)
(*                                                                         *)
(* The inductive invariant RoundTripInv consists of WellFormed, of a save  *)
(* that was read, and FileIs, of a file that was written.                  *)
(***************************************************************************)
EXTENDS RoundTrip, FormatProofs
-----------------------------------------------------------------------------
(* Reading what was written. *)

\* The fields of a block of type t, and those of all types below k.
NamesOf(s, t) ==
  IF t \in Structured
  THEN ToSet(GlobalNames(t, s["game"])) \cup IF t = WEATHER THEN {"data4"} ELSE {}
  ELSE {}
NamesTo(s, k) == UNION {NamesOf(s, t) : t \in {u \in ObjectTypes : u < k}}
GlobalsTo(s, k) == [t \in ObjectTypes |-> IF t < k THEN s["globals"][t] ELSE <<>>]
\* A save that has the parts in N of what is read back of s, and the blocks of the types
\* below k.
Part(save1, s, N, k) ==
  /\ IsSave(save1)
  /\ \A m \in Names : m # "globals" =>
       save1[m] = IF m \in N \/ m \in NamesTo(s, k) THEN New(s, m) ELSE savegame_alloc[m]
  /\ save1["globals"] = GlobalsTo(s, k)

\* The names read with one more type.
LEMMA NamesToMore ==
  ASSUME NEW s, NEW k \in ObjectTypes
  PROVE  NamesTo(s, k + 1) = NamesTo(s, k) \cup NamesOf(s, k)
<1>1. \A t \in ObjectTypes : t < k + 1 <=> t < k \/ t = k
  BY DEF ObjectTypes
<1>. DEFINE A == {u \in ObjectTypes : u < k} B == {u \in ObjectTypes : u < k + 1}
<1>2. B = A \cup {k}
  BY <1>1
<1>3. {NamesOf(s, t) : t \in B} = {NamesOf(s, t) : t \in A} \cup {NamesOf(s, k)}
  BY <1>2
<1>. HIDE DEF A, B
<1>4. UNION {NamesOf(s, t) : t \in B} = (UNION {NamesOf(s, t) : t \in A}) \cup NamesOf(s, k)
  BY <1>3
<1>5. QED BY <1>4 DEF NamesTo, A, B

\* The raw blocks read with one more type.
LEMMA GlobalsToMore ==
  ASSUME NEW s, NEW k \in ObjectTypes
  PROVE  /\ GlobalsTo(s, k + 1) = [GlobalsTo(s, k) EXCEPT ![k] = s["globals"][k]]
         /\ GlobalsTo(s, k)[k] = <<>>
         /\ s["globals"][k] = <<>> => GlobalsTo(s, k + 1) = GlobalsTo(s, k)
<1>1. \A t \in ObjectTypes : t < k + 1 <=> t < k \/ t = k
  BY DEF ObjectTypes
<1>2. ~(k < k)
  BY DEF ObjectTypes
<1>3. \A t \in ObjectTypes : GlobalsTo(s, k + 1)[t]
        = [GlobalsTo(s, k) EXCEPT ![k] = s["globals"][k]][t]
  BY <1>1, <1>2 DEF GlobalsTo
<1>4. GlobalsTo(s, k + 1) = [GlobalsTo(s, k) EXCEPT ![k] = s["globals"][k]]
  BY <1>3 DEF GlobalsTo
<1>5. GlobalsTo(s, k)[k] = <<>>
  BY <1>2 DEF GlobalsTo
<1>6. ASSUME s["globals"][k] = <<>> PROVE GlobalsTo(s, k + 1) = GlobalsTo(s, k)
  <2>1. \A t \in ObjectTypes : GlobalsTo(s, k + 1)[t] = GlobalsTo(s, k)[t]
    BY <1>1, <1>2, <1>6 DEF GlobalsTo
  <2>2. QED BY <2>1 DEF GlobalsTo
<1>7. QED BY <1>4, <1>5, <1>6

\* The names a type's block sets are among those a body may set, data4 only the
\* weather's.
LEMMA NamesOfIs ==
  ASSUME NEW s, NEW t
  PROVE  /\ NamesOf(s, t) \subseteq BodySet(s["game"]) \ {"globals"}
         /\ t # WEATHER => "data4" \notin NamesOf(s, t)
         /\ t \notin Structured => NamesOf(s, t) = {}
<1>1. "globals" \notin BlockSet(s["game"]) /\ "data4" \notin BlockSet(s["game"])
  BY DEF BlockSet, LocationSet, WeatherSet, MoreOf
<1>2. t \in Structured => ToSet(GlobalNames(t, s["game"])) \subseteq BlockSet(s["game"])
  BY GlobalSetIs
<1>3. QED BY <1>1, <1>2 DEF NamesOf, BodySet

\* The names the first types set are among those a body may set, data4 only from
\* the weather on.
LEMMA NamesToIs ==
  ASSUME NEW s, NEW k
  PROVE  /\ NamesTo(s, k) \subseteq BodySet(s["game"]) \ {"globals"}
         /\ k \in ObjectTypes /\ k <= WEATHER => "data4" \notin NamesTo(s, k)
<1>1. NamesTo(s, k) \subseteq BodySet(s["game"]) \ {"globals"}
  BY NamesOfIs DEF NamesTo
<1>2. ASSUME k \in ObjectTypes, k <= WEATHER PROVE "data4" \notin NamesTo(s, k)
  <2>1. \A t \in ObjectTypes : t < k => t # WEATHER
    BY <1>2 DEF ObjectTypes, WEATHER
  <2>2. QED BY <2>1, NamesOfIs DEF NamesTo
<1>3. QED BY <1>1, <1>2

\* The fields of a structured block, gained.
LEMMA PartGained ==
  ASSUME NEW s, Sane(s), NEW a, NEW N, NEW k \in Structured, Part(a, s, N, k), NEW b,
         Gained(b, a, s, NamesOf(s, k))
  PROVE  Part(b, s, N, k + 1)
<1>1. k \in ObjectTypes
  BY DEF Structured, ObjectTypes, MISC_STATS, PLAYER_LOCATION, GLOBAL_VARIABLES, WEATHER,
         MAGIC_FAVORITES
<1>2. NamesTo(s, k + 1) = NamesTo(s, k) \cup NamesOf(s, k)
  BY <1>1, NamesToMore
<1>3. s["globals"][k] = <<>>
  BY <1>1, ChunkIs
<1>4. GlobalsTo(s, k + 1) = GlobalsTo(s, k)
  BY <1>1, <1>3, GlobalsToMore
<1>5. "globals" \notin NamesOf(s, k)
  BY NamesOfIs
<1>6. "globals" \in Names
  BY DEF Names, OtherNames
<1>7. b["globals"] = a["globals"]
  BY <1>5, <1>6 DEF Gained
<1>8. \A m \in Names : m # "globals" =>
        b[m] = IF m \in N \/ m \in NamesTo(s, k + 1) THEN New(s, m) ELSE savegame_alloc[m]
  BY <1>2 DEF Gained, Part
<1>9. QED BY <1>4, <1>7, <1>8 DEF Part, Gained

\* A type there is no block of.
LEMMA PartAbsent ==
  ASSUME NEW s, NEW a, NEW N, NEW k \in ObjectTypes, Part(a, s, N, k), ~Present(s, k)
  PROVE  Part(a, s, N, k + 1)
<1>1. k \notin Structured /\ s["globals"][k] = <<>>
  BY DEF Present
<1>2. NamesTo(s, k + 1) = NamesTo(s, k)
  BY ZenonT(40), <1>1, NamesToMore, NamesOfIs
<1>3. GlobalsTo(s, k + 1) = GlobalsTo(s, k)
  BY <1>1, GlobalsToMore
<1>4. QED BY <1>2, <1>3 DEF Part

\* A block that is kept as it is.
LEMMA PartKept ==
  ASSUME NEW s, NEW a, NEW N, NEW k \in ObjectTypes, k \notin Structured, Part(a, s, N, k), NEW b,
         b = [a EXCEPT !["globals"] = [a["globals"] EXCEPT ![k] = s["globals"][k]]]
  PROVE  Part(b, s, N, k + 1)
<1>1. NamesTo(s, k + 1) = NamesTo(s, k)
  BY NamesToMore, NamesOfIs
<1>2. GlobalsTo(s, k + 1) = [a["globals"] EXCEPT ![k] = s["globals"][k]]
  BY GlobalsToMore DEF Part
<1>. DEFINE m == "globals" v == [a["globals"] EXCEPT ![k] = s["globals"][k]]
<1>3. m \in Names
  BY DEF Names, OtherNames
<1>4. IsSave(a) /\ b = [a EXCEPT ![m] = v]
  BY DEF Part
<1>. HIDE DEF m, v
<1>5. SetTo(b, a, m, v)
  <2>1. SetTo([a EXCEPT ![m] = v], a, m, v)
    BY <1>3, <1>4, SaveExcept
  <2>2. QED BY <1>4, <2>1
<1>6. IsSave(b) /\ b[m] = v /\ \A n \in Names : n # m => b[n] = a[n]
  BY <1>3, <1>5 DEF SetTo
<1>7. b["globals"] = GlobalsTo(s, k + 1)
  BY <1>2, <1>6 DEF m, v
<1>8. \A n \in Names : n # "globals" => b[n] = a[n]
  BY <1>6 DEF m
<1>9. QED BY <1>1, <1>6, <1>7, <1>8 DEF Part

\* The number at a place where it was stored.
LEMMA NumberIsAt ==
  ASSUME NEW c, IsCursor(c), NEW skip \in Nat, NEW w \in {1, 2, 4}, NEW n \in Nat,
         n < Numbers(w), At(c.octets, c.pos + skip, LE(n, w))
  PROVE  NumberAt(c, skip, w) = n /\ skip + w <= Left(c)
<1>. DEFINE o == LE(n, w)
<1>1. o \in Value /\ Len(o) = w
  <2>1. n \in Int
    OBVIOUS
  <2>2. QED BY <2>1, LEIs
<1>2. Number(o) = n
  BY NumberOfLE
<1>. HIDE DEF o
<1>3. Piece(c, skip, Len(o)) = o /\ skip + Len(o) <= Left(c)
  BY <1>1, PieceAt DEF o
<1>4. QED BY <1>1, <1>2, <1>3 DEF NumberAt

HeaderOfGlobal(c, s, t) ==
  LET data == global_data_octets(s, t)
      b == BlockOf(c, 8, Len(data))
  IN  /\ data \in Value /\ Len(data) \in Nat /\ 8 + Len(data) <= Left(c)
      /\ NumberAt(c, 0, 4) = glda_type_number(t) /\ NumberAt(c, 4, 4) = Len(data)
      /\ IsCursor(b) /\ b.octets = data /\ b.pos = 0 /\ b.ok = c.ok /\ b.save = c.save
      /\ Len(Whole(GlobalBlock(s, t))) = 8 + Len(data)

\* The two numbers in front of a block that was written, and the block.
LEMMA GlobalAt ==
  ASSUME NEW c, IsCursor(c), Len(c.octets) < TooMany, NEW s, Sane(s), NEW t \in ObjectTypes,
         Present(s, t), At(c.octets, c.pos, Whole(GlobalBlock(s, t)))
  PROVE  HeaderOfGlobal(c, s, t)
<1>. DEFINE data == global_data_octets(s, t) k == glda_type_number(t)
            a == LE(k, 4) n == LE(Len(data), 4) p == c.pos + 4 q == c.pos + 8
            h == a \o n
<1>1. /\ GlobalBlock(s, t).header = h /\ GlobalBlock(s, t).data = data
      /\ a \in Value /\ Len(a) = 4 /\ n \in Value /\ Len(n) = 4 /\ h \in Value /\ Len(h) = 8
  BY GlobalBlockTyped DEF GlobalHeader
<1>2. data \in Value
  BY GlobalOctetsTyped
<1>3. k \in Nat /\ k < 1008
  BY TypeNumbers
<1>4. c.octets \in Value /\ c.pos \in Nat
  BY DEF IsCursor
<1>5. Len(data) \in Nat /\ Len(c.octets) \in Nat
  BY <1>2, <1>4 DEF Value
<1>6. Whole(GlobalBlock(s, t)) = h \o data
  BY <1>1 DEF Whole
<1>. HIDE DEF data, k
<1>7. At(c.octets, c.pos, h) /\ At(c.octets, c.pos + Len(h), data)
  <2>. HIDE DEF h
  <2>1. At(c.octets, c.pos, h \o data)
    BY <1>6
  <2>2. QED BY <1>1, <1>2, <1>4, <2>1, AtConcat
<1>8. At(c.octets, c.pos, a) /\ At(c.octets, c.pos + Len(a), n)
  <2>. HIDE DEF a, n
  <2>1. At(c.octets, c.pos, a \o n)
    BY <1>7
  <2>2. QED BY <1>1, <1>4, <2>1, AtConcat
<1>9. At(c.octets, p, n) /\ At(c.octets, q, data) /\ q = c.pos + 8 /\ p = c.pos + 4
  BY <1>1, <1>7, <1>8
<1>10. 8 + Len(data) <= Left(c) /\ Len(data) < TooMany
  <2>. HIDE DEF q, p
  <2>1. q + Len(data) <= Len(c.octets)
    BY <1>9 DEF At
  <2>. DEFINE m == Len(data) l == Len(c.octets)
  <2>2. m \in Nat /\ l \in Nat /\ q + m <= l /\ l < TooMany
    BY <1>5, <2>1
  <2>. HIDE DEF m, l
  <2>3. 8 + m <= l - c.pos /\ m < TooMany
    BY <1>4, <1>9, <2>2, TooManyIs
  <2>4. QED BY <2>3 DEF Left, m, l
<1>11. NumberAt(c, 0, 4) = k
  <2>1. c.pos + 0 = c.pos /\ 4 \in {1, 2, 4} /\ k < Numbers(4)
    BY <1>3, <1>4, NumbersIs, TooManyIs
  <2>2. At(c.octets, c.pos + 0, a)
    BY <1>8, <2>1
  <2>3. QED BY <1>3, <2>1, <2>2, NumberIsAt
<1>12. NumberAt(c, 4, 4) = Len(data)
  <2>1. 4 \in {1, 2, 4} /\ Len(data) < Numbers(4)
    BY <1>10, NumbersIs
  <2>. DEFINE m == Len(data)
  <2>2. m \in Nat /\ m < Numbers(4) /\ At(c.octets, c.pos + 4, LE(m, 4))
    BY <1>5, <1>9, <2>1
  <2>. HIDE DEF m
  <2>3. NumberAt(c, 4, 4) = m
    BY <2>1, <2>2, NumberIsAt
  <2>4. QED BY <2>3 DEF m
<1>13. LET b == BlockOf(c, 8, Len(data))
       IN  IsCursor(b) /\ b.octets = data /\ b.pos = 0 /\ b.ok = c.ok /\ b.save = c.save
  <2>1. At(c.octets, c.pos + 8, data)
    BY <1>9
  <2>2. QED BY <1>2, <2>1, BlockAt
<1>14. Len(h \o data) = 8 + Len(data)
  <2>. HIDE DEF h
  <2>1. Len(h \o data) = Len(h) + Len(data)
    BY <1>1, <1>2, ConcatIs
  <2>2. QED BY <1>1, <2>1
<1>15. QED BY <1>2, <1>5, <1>6, <1>10, <1>11, <1>12, <1>13, <1>14 DEF HeaderOfGlobal, data, k

\* The block of a type that is in front of the reader is given to that type's
\* handler.
LEMMA GlobalReads ==
  ASSUME NEW c, NEW s, NEW t \in ObjectTypes, HeaderOfGlobal(c, s, t), NEW round
  PROVE  ReadGlobal(c, round)
           = InsideOf(c, 8, Len(global_data_octets(s, t)),
                      global_data(BlockOf(c, 8, Len(global_data_octets(s, t))), t))
<1>1. /\ NumberAt(c, 0, 4) = glda_type_number(t)
      /\ NumberAt(c, 4, 4) = Len(global_data_octets(s, t))
  BY DEF HeaderOfGlobal
<1>2. TypesOf(NumberAt(c, 0, 4)) = {t}
  BY <1>1, TypeNumbers
<1>3. (CHOOSE u \in {t} : TRUE) = t
  OBVIOUS
<1>4. {t} # {}
  OBVIOUS
<1>5. QED BY <1>1, <1>2, <1>3, <1>4, ReadGlobalIs

\* What a structured block was stored as is what is loaded of it; in Fallout 4 the player's
\* location ends in front of its last octet.
LEMMA LocationPrefix ==
  LocationNames("SKYRIM") = LocationNames("FALLOUT4") \o <<"unknown">>
  /\ LocationNames("FALLOUT4") \in Seq(PlainNames)
<1>. DEFINE a == <<"next_object_id", "world_space1", "coord_x", "coord_y", "world_space2">>
            b == <<"pos_x", "pos_y", "pos_z">> u == <<"unknown">>
<1>1. a \in Seq(PlainNames) /\ b \in Seq(PlainNames) /\ <<>> \in Seq(PlainNames)
  BY NamesTyped
<1>2. LocationNames("SKYRIM") = (a \o b) \o u /\ LocationNames("FALLOUT4") = (a \o b) \o <<>>
  BY DEF LocationNames
<1>. HIDE DEF a, b, u
<1>3. a \o b \in Seq(PlainNames)
  BY <1>1
<1>4. (a \o b) \o <<>> = a \o b
  BY <1>3
<1>5. LocationNames("SKYRIM") = LocationNames("FALLOUT4") \o u /\ LocationNames("FALLOUT4") = a \o b
  BY <1>2, <1>4
<1>6. QED BY <1>3, <1>5 DEF u

\* The writer's stores of a block begin with the loads the reader of that game
\* makes.
LEMMA StructuredFront ==
  ASSUME NEW s, Good(s), s["game"] \in Games, NEW t \in Structured, NEW octs \in Value,
         NEW p \in Nat, At(octs, p, StoreAll(s, ListOf(GlobalNames(t, "SKYRIM"))))
  PROVE  /\ At(octs, p, StoreAll(s, ListOf(GlobalNames(t, s["game"]))))
         /\ t = WEATHER => GlobalNames(t, s["game"]) = GlobalNames(t, "SKYRIM")
<1>1. t # PLAYER_LOCATION => GlobalNames(t, s["game"]) = GlobalNames(t, "SKYRIM")
  BY DEF GlobalNames
<1>2. CASE t # PLAYER_LOCATION \/ s["game"] = "SKYRIM"
  BY <1>1, <1>2 DEF WEATHER, PLAYER_LOCATION
<1>3. CASE t = PLAYER_LOCATION /\ s["game"] = "FALLOUT4"
  <2>. DEFINE ns == LocationNames("FALLOUT4") ms == <<"unknown">>
              x == StoreAll(s, ListOf(ns)) y == StoreAll(s, ListOf(ms))
  <2>1. GlobalNames(t, "SKYRIM") = ns \o ms /\ GlobalNames(t, s["game"]) = ns
    BY <1>3, LocationPrefix DEF GlobalNames, PLAYER_LOCATION, MISC_STATS
  <2>2. ns \in Seq(PlainNames) /\ ms \in Seq(PlainNames)
    BY LocationPrefix, NamesTyped
  <2>. HIDE DEF ns, ms
  <2>3. ListOf(ns \o ms) = ListOf(ns) \o ListOf(ms)
    BY <2>2, PlainConcat
  <2>4. StoreAll(s, ListOf(ns) \o ListOf(ms)) = x \o y
    BY <2>2, PlainIsName, StoreAllConcat
  <2>5. x \in Value /\ y \in Value
    BY <2>2, ListStored
  <2>. HIDE DEF x, y
  <2>6. At(octs, p, x \o y)
    BY <2>1, <2>3, <2>4
  <2>7. At(octs, p, x)
    BY <2>5, <2>6, AtConcat
  <2>8. t # WEATHER
    BY <1>3 DEF PLAYER_LOCATION, WEATHER
  <2>9. QED BY <2>1, <2>7, <2>8 DEF x
<1>4. QED BY <1>2, <1>3 DEF Games

\* A save that has the game of another is of that game.
LEMMA PartGame ==
  ASSUME NEW s, NEW a, NEW N, NEW k, Part(a, s, N, k), "game" \in N
  PROVE  a["game"] = s["game"] /\ IsSave(a)
<1>1. "game" \in Names /\ "game" # "globals" /\ "game" \notin PlainNames
  BY NamesApart DEF Names, OtherNames
<1>2. New(s, "game") = s["game"]
  BY <1>1 DEF New
<1>3. QED BY <1>1, <1>2 DEF Part

\* Before the weather was read its rest is empty.
LEMMA PartRest ==
  ASSUME NEW s, NEW a, NEW N, Part(a, s, N, WEATHER), "data4" \notin N
  PROVE  a["data4"] = <<>>
<1>1. WEATHER \in ObjectTypes /\ WEATHER <= WEATHER
  BY DEF WEATHER, ObjectTypes
<1>2. "data4" \notin NamesTo(s, WEATHER)
  BY <1>1, NamesToIs
<1>3. "data4" \in AllNames /\ "data4" \in Names /\ "data4" # "globals"
  BY DEF Names, AllNames
<1>4. a["data4"] = savegame_alloc["data4"]
  BY <1>2, <1>3 DEF Part
<1>5. savegame_alloc["data4"] = StartOf("data4")
  BY <1>3, AllocIs
<1>6. StartOf("data4") = <<>>
  BY DEF StartOf, CountOf
<1>7. QED BY <1>4, <1>5, <1>6

Comes(e, s, N, k) == IsCursor(e) /\ e.ok /\ Part(e.save, s, N, k)

\* A structured block but the weather.
LEMMA StructuredRead ==
  ASSUME NEW b, IsCursor(b), b.ok, b.pos = 0, NEW s, Sane(s), NEW N, "game" \in N,
         NEW t \in Structured, t # WEATHER, b.octets = StoreAll(s, GlobalStores(t)),
         Part(b.save, s, N, t)
  PROVE  Comes(global_data(b, t), s, N, t + 1)
<1>1. b.save["game"] = s["game"] /\ IsSave(b.save)
  BY PartGame
<1>2. Good(s) /\ s["game"] \in Games
  BY SaneParts
<1>. DEFINE ns == GlobalNames(t, s["game"]) x == StoreAll(s, ListOf(GlobalNames(t, "SKYRIM")))
            e == LoadAll(b, ListOf(ns))
<1>3. ns \in Seq(PlainNames) /\ GlobalLoads(t, s["game"]) = ListOf(ns)
  BY GlobalList
<1>4. global_data(b, t) = e
  BY <1>1, <1>3 DEF global_data
<1>5. b.octets = x /\ x \in Value
  BY <1>2, GlobalStored
<1>6. At(x, 0, x)
  <2>. HIDE DEF x
  <2>1. Len(x) \in Nat
    BY <1>5 DEF Value
  <2>2. 0 + Len(x) <= Len(x) /\ \A i \in 1..Len(x) : 0 + i = i
    BY <2>1
  <2>3. QED BY <2>2 DEF At
<1>7. At(x, 0, StoreAll(s, ListOf(ns)))
  BY <1>2, <1>5, <1>6, StructuredFront
<1>. HIDE DEF x, ns
<1>8. AreLoaded(b, s, ns)
  BY <1>1, <1>2, <1>3, <1>5, <1>7, LoadAllAt
<1>9. CameTo(e, b, Len(StoreAll(s, ListOf(ns)))) /\ Gained(e.save, b.save, s, ToSet(ns))
  BY <1>8 DEF AreLoaded
<1>. HIDE DEF e
<1>10. IsCursor(e) /\ e.ok
  BY <1>9 DEF CameTo
<1>11. NamesOf(s, t) = ToSet(ns)
  BY DEF NamesOf, ns
<1>12. Part(e.save, s, N, t + 1)
  BY <1>9, <1>11, PartGained
<1>13. QED BY <1>4, <1>10, <1>12 DEF Comes

\* The weather: its fields, and what is left of the block.
LEMMA WeatherRead ==
  ASSUME NEW b, IsCursor(b), b.ok, b.pos = 0, NEW s, Sane(s), NEW N, "game" \in N,
         "data4" \notin N, b.octets = StoreAll(s, GlobalStores(WEATHER)),
         Part(b.save, s, N, WEATHER)
  PROVE  Comes(global_data(b, WEATHER), s, N, WEATHER + 1)
<1>1. b.save["game"] = s["game"] /\ IsSave(b.save)
  BY PartGame
<1>2. Good(s) /\ s["game"] \in Games
  BY SaneParts
<1>. DEFINE t == WEATHER
<1>3. t \in Structured /\ t = WEATHER
  BY DEF Structured
<1>. HIDE DEF t
<1>. DEFINE ns == GlobalNames(t, s["game"]) x == StoreAll(s, ListOf(GlobalNames(t, "SKYRIM")))
            y == Store(s, FieldNamed("data4")) e == LoadAll(b, ListOf(ns))
            d == Load(e, FieldNamed("data4"))
<1>4. ns \in Seq(PlainNames) /\ GlobalLoads(t, s["game"]) = Append(ListOf(ns), FieldNamed("data4"))
  BY <1>3, GlobalList
<1>5. global_data(b, t) = LoadAll(b, Append(ListOf(ns), FieldNamed("data4")))
  BY <1>1, <1>3, <1>4 DEF global_data
<1>6. ns \in Seq(AllNames) /\ "data4" \in AllNames
  BY <1>4, PlainIsName DEF AllNames
<1>7. FieldNamed("data4") \in AllFieldsSet
  BY <1>6 DEF AllFieldsSet
<1>. DEFINE f == FieldNamed("data4")
<1>8. ListOf(ns) \in Seq(AllFieldsSet)
  BY <1>6, ListTyped
<1>9. global_data(b, t) = d
  <2>. HIDE DEF ns, f
  <2>1. LoadAll(b, Append(ListOf(ns), f)) = Load(LoadAll(b, ListOf(ns)), f)
    <3>1. f \in AllFieldsSet
      BY <1>7 DEF f
    <3>2. QED BY <1>8, <3>1, LoadAllMore
  <2>2. QED BY <1>5, <2>1 DEF f
<1>10. SomeOK(s["data4"])
  BY <1>2 DEF Good
<1>11. y \in Value
  BY <1>10, ChunkStored
<1>12. b.octets = x \o y /\ x \in Value
  BY <1>2, <1>3, GlobalStored
<1>13. ns = GlobalNames(t, "SKYRIM")
  BY <1>3 DEF GlobalNames, WEATHER, PLAYER_LOCATION
<1>14. x = StoreAll(s, ListOf(ns))
  BY <1>13
<1>. HIDE DEF x, y, ns, f
<1>15. /\ x \o y \in Value /\ Len(x \o y) = Len(x) + Len(y) /\ Len(x) \in Nat /\ Len(y) \in Nat
  BY <1>11, <1>12, ConcatIs
<1>16. At(x \o y, 0, x \o y)
  <2>. DEFINE z == x \o y
  <2>1. z \in Value
    BY <1>15
  <2>. HIDE DEF z
  <2>2. Len(z) \in Nat
    BY <2>1 DEF Value
  <2>3. 0 + Len(z) <= Len(z) /\ \A i \in 1..Len(z) : 0 + i = i
    BY <2>2
  <2>4. At(z, 0, z)
    BY <2>3 DEF At
  <2>5. QED BY <2>4 DEF z
<1>17. At(x \o y, 0, x) /\ At(x \o y, 0 + Len(x), y)
  BY <1>11, <1>12, <1>15, <1>16, AtConcat
<1>18. AreLoaded(b, s, ns)
  BY <1>1, <1>2, <1>4, <1>12, <1>14, <1>17, LoadAllAt
<1>19. CameTo(e, b, Len(x)) /\ Gained(e.save, b.save, s, ToSet(ns))
  BY <1>14, <1>18 DEF AreLoaded
<1>. HIDE DEF e
<1>20. IsCursor(e) /\ e.ok /\ e.pos = Len(x) /\ e.octets = x \o y
  BY <1>12, <1>15, <1>19 DEF CameTo
<1>21. IsSave(e.save) /\ e.save["data4"] = <<>>
  <2>1. "data4" \notin ToSet(ns)
    <3>1. ToSet(ns) \subseteq BlockSet(s["game"])
      BY <1>3, GlobalSetIs DEF ns
    <3>2. "data4" \notin BlockSet(s["game"])
      BY DEF BlockSet, LocationSet, WeatherSet, MoreOf
    <3>3. QED BY <3>1, <3>2
  <2>2. "data4" \in Names
    BY DEF Names, AllNames
  <2>3. e.save["data4"] = b.save["data4"]
    BY <1>19, <2>1, <2>2 DEF Gained
  <2>4. b.save["data4"] = <<>>
    BY PartRest
  <2>5. QED BY <1>19, <2>3, <2>4 DEF Gained
<1>22. CameTo(d, e, Len(y)) /\ Gained(d.save, e.save, s, {"data4"})
  <2>1. At(e.octets, e.pos, y) /\ e.pos + Len(y) = Len(e.octets)
    BY <1>15, <1>17, <1>20
  <2>2. QED BY <1>10, <1>20, <1>21, <2>1, ChunkAt DEF y
<1>. HIDE DEF d
<1>23. IsCursor(d) /\ d.ok
  BY <1>20, <1>22 DEF CameTo
<1>24. NamesOf(s, t) = ToSet(ns) \cup {"data4"}
  BY <1>3 DEF NamesOf, ns
<1>25. Gained(d.save, b.save, s, NamesOf(s, t))
  BY <1>19, <1>22, <1>24, GainedMore
<1>26. Part(b.save, s, N, t)
  BY <1>3
<1>27. Part(d.save, s, N, t + 1)
  BY <1>3, <1>25, <1>26, PartGained
<1>28. QED BY <1>3, <1>9, <1>23, <1>27 DEF Comes

\* A block kept as it is.
LEMMA KeptRead ==
  ASSUME NEW b, IsCursor(b), b.ok, NEW s, Sane(s), NEW N, NEW t \in ObjectTypes,
         t \notin Structured, Present(s, t), b.octets = s.globals[t][1], Part(b.save, s, N, t)
  PROVE  Comes(global_data(b, t), s, N, t + 1)
<1>1. s.globals[t] # <<>>
  BY DEF Present
<1>2. PICK x \in Value : s.globals[t] = <<x>> /\ s.globals[t][1] = x
  BY <1>1, ChunkIs
<1>3. b.save.globals[t] = <<>>
  <2>1. b.save["globals"] = GlobalsTo(s, t)
    BY DEF Part
  <2>2. GlobalsTo(s, t)[t] = <<>>
    BY GlobalsToMore
  <2>3. QED BY <2>1, <2>2
<1>4. global_data(b, t) = [b EXCEPT !.save.globals[t] = <<b.octets>>]
  BY <1>3 DEF global_data
<1>5. s.globals[t] = <<b.octets>>
  BY <1>2
<1>. DEFINE v == <<b.octets>> e == [b EXCEPT !.save.globals[t] = v]
<1>. HIDE DEF v
<1>6. IsSet(e, b, "globals", [b.save["globals"] EXCEPT ![t] = v])
  BY KeptIs
<1>. HIDE DEF e
<1>7. /\ IsCursor(e) /\ e.ok
      /\ e.save = [b.save EXCEPT !["globals"] = [b.save["globals"] EXCEPT ![t] = s["globals"][t]]]
  BY <1>5, <1>6 DEF IsSet, v
<1>8. Part(e.save, s, N, t + 1)
  BY <1>7, PartKept
<1>9. QED BY <1>4, <1>7, <1>8 DEF Comes, e, v

Reads(d, c, n, s, N, k) == CameTo(d, c, n) /\ d.ok /\ Part(d.save, s, N, k)

\* A block that was written is read.
LEMMA BlockRead ==
  ASSUME NEW c, IsCursor(c), c.ok, Len(c.octets) < TooMany, NEW s, Sane(s), NEW N, "game" \in N,
         "data4" \notin N, NEW t \in ObjectTypes, Present(s, t), Part(c.save, s, N, t),
         At(c.octets, c.pos, Whole(GlobalBlock(s, t))), NEW round
  PROVE  Reads(ReadGlobal(c, round), c, Len(Whole(GlobalBlock(s, t))), s, N, t + 1)
<1>. DEFINE data == global_data_octets(s, t) m == Len(data) b == BlockOf(c, 8, m)
            e == global_data(b, t)
<1>1. HeaderOfGlobal(c, s, t)
  BY GlobalAt
<1>2. ReadGlobal(c, round) = InsideOf(c, 8, m, e)
  BY <1>1, GlobalReads
<1>3. /\ m \in Nat /\ 8 + m <= Left(c) /\ IsCursor(b) /\ b.octets = data /\ b.pos = 0 /\ b.ok
      /\ b.save = c.save /\ Len(Whole(GlobalBlock(s, t))) = 8 + m
  BY <1>1 DEF HeaderOfGlobal
<1>. HIDE DEF b
<1>4. Comes(e, s, N, t + 1)
  <2>1. Part(b.save, s, N, t)
    BY <1>3
  <2>2. CASE t \in Structured /\ t # WEATHER
    <3>1. b.octets = StoreAll(s, GlobalStores(t))
      BY <1>3, <2>2 DEF global_data_octets
    <3>2. QED BY <1>3, <2>1, <2>2, <3>1, StructuredRead
  <2>3. CASE t = WEATHER
    <3>1. WEATHER \in Structured
      BY DEF Structured
    <3>2. b.octets = StoreAll(s, GlobalStores(WEATHER)) /\ Part(b.save, s, N, WEATHER)
      BY <1>3, <2>1, <2>3, <3>1 DEF global_data_octets
    <3>3. Comes(global_data(b, WEATHER), s, N, WEATHER + 1)
      BY <1>3, <3>2, WeatherRead
    <3>4. QED BY <2>3, <3>3
  <2>4. CASE t \notin Structured
    <3>1. b.octets = s.globals[t][1]
      BY <1>3, <2>4 DEF global_data_octets
    <3>2. QED BY <1>3, <2>1, <2>4, <3>1, KeptRead
  <2>5. QED BY <2>2, <2>3, <2>4
<1>. HIDE DEF e, m
<1>5. IsCursor(e) /\ e.ok /\ Part(e.save, s, N, t + 1)
  BY <1>4 DEF Comes
<1>. DEFINE d == InsideOf(c, 8, m, e)
<1>6. IsBehind(d, c, 8 + m, e)
  BY <1>3, <1>5, InsideIs
<1>. HIDE DEF d
<1>7. CameTo(d, c, 8 + m) /\ d.ok /\ d.save = e.save
  BY <1>5, <1>6 DEF IsBehind, CameTo
<1>8. QED BY <1>2, <1>3, <1>5, <1>7 DEF Reads, d

\* Staying is coming no further.
LEMMA AtNone ==
  ASSUME NEW c, IsCursor(c)
  PROVE  CameTo(c, c, 0)
BY DEF CameTo, IsCursor

\* The blocks of a table, with one type more.
LEMMA GlobalPartMore ==
  ASSUME NEW s, Sane(s), NEW b \in Nat, NEW k \in Nat, b + k <= 37
  PROVE  IF Present(s, b + k)
         THEN /\ GlobalPart(s, b, k + 1) = GlobalPart(s, b, k) \o Whole(GlobalBlock(s, b + k))
              /\ Len(RunBlocks(s, b, k + 1)) = Len(RunBlocks(s, b, k)) + 1
              /\ Whole(GlobalBlock(s, b + k)) \in Value
         ELSE /\ GlobalPart(s, b, k + 1) = GlobalPart(s, b, k)
              /\ RunBlocks(s, b, k + 1) = RunBlocks(s, b, k)
<1>. DEFINE rs == RunBlocks(s, b, k) t == b + k g == GlobalBlock(s, t)
<1>1. rs \in Seq(BlockType) /\ RunBlocks(s, b, k + 1) = rs \o OneBlock(s, t)
  BY RunBlocksAre
<1>2. t \in ObjectTypes
  BY DEF ObjectTypes
<1>. HIDE DEF rs, t
<1>3. CASE Present(s, t)
  <2>1. g \in BlockType
    BY <1>2, <1>3, GlobalBlockTyped
  <2>2. OneBlock(s, t) = <<g>>
    BY <1>3 DEF OneBlock
  <2>. HIDE DEF g
  <2>3. rs \o <<g>> = Append(rs, g) /\ Len(Append(rs, g)) = Len(rs) + 1
    BY <1>1, <2>1
  <2>4. Blocks(Append(rs, g)) = Blocks(rs) \o Whole(g)
    BY <1>1, <2>1, BlocksMore
  <2>5. Whole(g) \in Value
    BY <2>1, WholeTyped
  <2>6. QED BY <1>1, <1>3, <2>2, <2>3, <2>4, <2>5 DEF GlobalPart, rs, t, g
<1>4. CASE ~Present(s, t)
  <2>1. OneBlock(s, t) = <<>>
    BY <1>4 DEF OneBlock
  <2>2. rs \o <<>> = rs
    BY <1>1
  <2>3. QED BY <1>1, <1>4, <2>1, <2>2 DEF GlobalPart, rs, t
<1>5. QED BY <1>3, <1>4

\* The blocks of a table that was written are read, one after the other.
LEMMA RunRead ==
  ASSUME NEW c, NEW n0 \in Nat, NEW e, e = GlobalRounds(c, n0), IsCursor(e), e.ok,
         Len(e.octets) < TooMany, NEW s, Sane(s), NEW N, "game" \in N, "data4" \notin N,
         NEW b \in Nat, NEW k \in Nat, b + k <= 38, Part(e.save, s, N, b),
         At(e.octets, e.pos, GlobalPart(s, b, k))
  PROVE  Reads(GlobalRounds(c, n0 + Len(RunBlocks(s, b, k))), e, Len(GlobalPart(s, b, k)),
               s, N, b + k)
<1>. DEFINE Ok(j) == /\ At(e.octets, e.pos, GlobalPart(s, b, j))
                     => Reads(GlobalRounds(c, n0 + Len(RunBlocks(s, b, j))), e,
                              Len(GlobalPart(s, b, j)), s, N, b + j)
            T == {j \in Nat : j <= k => Ok(j)}
<1>1. 0 \in T
  <2>1. RunBlocks(s, b, 0) = <<>> /\ GlobalPart(s, b, 0) = <<>>
    BY RunBlocksNone, BlocksNone DEF GlobalPart
  <2>2. n0 + Len(<<>>) = n0 /\ Len(<<>>) = 0 /\ b + 0 = b
    OBVIOUS
  <2>3. CameTo(e, e, 0)
    BY AtNone
  <2>4. Ok(0)
    BY <2>1, <2>2, <2>3 DEF Reads
  <2>5. QED BY <2>4
<1>2. ASSUME NEW j \in Nat, j \in T PROVE j + 1 \in T
  <2>1. SUFFICES ASSUME j + 1 <= k, At(e.octets, e.pos, GlobalPart(s, b, j + 1))
                 PROVE  Reads(GlobalRounds(c, n0 + Len(RunBlocks(s, b, j + 1))), e,
                              Len(GlobalPart(s, b, j + 1)), s, N, b + (j + 1))
    OBVIOUS
  <2>2. Ok(j)
    BY <1>2, <2>1
  <2>. HIDE DEF T
  <2>3. b + j <= 37 /\ b + j \in ObjectTypes /\ b + j <= 38
    BY <2>1 DEF ObjectTypes
  <2>. DEFINE t == b + j g == Whole(GlobalBlock(s, t)) x == GlobalPart(s, b, j)
              r == Len(RunBlocks(s, b, j)) d == GlobalRounds(c, n0 + r)
  <2>4. r \in Nat /\ x \in Value
    <3>1. RunBlocks(s, b, j) \in Seq(BlockType) /\ r \in Nat
      BY <2>3, RunBlocksTyped
    <3>2. QED BY <3>1, BlocksLong DEF GlobalPart
  <2>5. e.octets \in Value /\ e.pos \in Nat
    BY DEF IsCursor
  <2>6. b + (j + 1) = t + 1
    OBVIOUS
  <2>7. CASE Present(s, t)
    <3>1. /\ GlobalPart(s, b, j + 1) = x \o g /\ Len(RunBlocks(s, b, j + 1)) = r + 1 /\ g \in Value
      BY <2>3, <2>7, GlobalPartMore
    <3>. HIDE DEF t, g, x, r
    <3>2. At(e.octets, e.pos, x) /\ At(e.octets, e.pos + Len(x), g)
      <4>1. At(e.octets, e.pos, x \o g)
        BY ONLY <2>1, <3>1, Zenon
      <4>2. QED BY ONLY <2>4, <2>5, <3>1, <4>1, AtConcat, Zenon
    <3>3. Reads(d, e, Len(x), s, N, t)
      BY <2>2, <3>2 DEF x, r, t
    <3>. DEFINE z == ReadGlobal(d, (n0 + r) + 1)
    <3>4. GlobalRounds(c, n0 + (r + 1)) = z
      <4>1. n0 + r \in Nat /\ n0 + (r + 1) = (n0 + r) + 1
        BY <2>4
      <4>2. QED BY <4>1, GlobalRoundsAre
    <3>. HIDE DEF d
    <3>5. /\ IsCursor(d) /\ d.octets = e.octets /\ d.ok /\ d.pos = e.pos + Len(x)
          /\ CameTo(d, e, Len(x)) /\ Part(d.save, s, N, t)
      BY <3>3 DEF Reads, CameTo
    <3>6. Reads(z, d, Len(g), s, N, t + 1)
      <4>1. At(d.octets, d.pos, Whole(GlobalBlock(s, t)))
        BY <3>2, <3>5 DEF g
      <4>2. t \in ObjectTypes
        BY <2>3 DEF t
      <4>3. Reads(ReadGlobal(d, (n0 + r) + 1), d, Len(Whole(GlobalBlock(s, t))), s, N, t + 1)
        BY <2>7, <3>5, <4>1, <4>2, BlockRead
      <4>4. QED BY <4>3 DEF g
    <3>. HIDE DEF z
    <3>7. Len(x \o g) = Len(x) + Len(g) /\ Len(x) \in Nat /\ Len(g) \in Nat
      BY <2>4, <3>1, ConcatIs
    <3>8. CameTo(z, e, Len(x) + Len(g))
      BY <3>5, <3>6, <3>7, CameMore DEF Reads
    <3>9. Reads(z, e, Len(x \o g), s, N, t + 1)
      BY <3>6, <3>7, <3>8 DEF Reads
    <3>10. QED BY <2>6, <3>1, <3>4, <3>9
  <2>8. CASE ~Present(s, t)
    <3>1. GlobalPart(s, b, j + 1) = x /\ Len(RunBlocks(s, b, j + 1)) = r
      BY <2>3, <2>8, GlobalPartMore
    <3>2. Reads(d, e, Len(x), s, N, t)
      BY <2>1, <2>2, <3>1
    <3>3. t \in ObjectTypes
      BY <2>3
    <3>. HIDE DEF d, t, x, r
    <3>4. Part(d.save, s, N, t + 1)
      BY <2>8, <3>2, <3>3, PartAbsent DEF Reads
    <3>5. Reads(d, e, Len(x), s, N, t + 1)
      BY <3>2, <3>4 DEF Reads
    <3>6. QED BY <2>6, <3>1, <3>5 DEF d
  <2>9. QED BY <2>7, <2>8
<1>. HIDE DEF T
<1>3. Nat \subseteq T
  BY <1>1, <1>2, FG!Induction
<1>4. Ok(k)
  BY <1>3 DEF T
<1>5. QED BY <1>4

\* The pieces of the header of a change form, where they were stored.
FormIsAt(c, form) ==
  LET w == FormWidth(form)
  IN  /\ At(c.octets, c.pos + 0, Stored("be24", form.form_id))
      /\ At(c.octets, c.pos + 3, form.flags)
      /\ At(c.octets, c.pos + 7, <<form.type, form.version>>)
      /\ At(c.octets, c.pos + 9, LE(Len(form.data), w))
      /\ At(c.octets, c.pos + (9 + w), form.length2)
      /\ At(c.octets, c.pos + (9 + 2 * w), form.data)

\* One piece less of a list that is built from the left.
LEMMA SplitAt ==
  ASSUME NEW octs \in Value, NEW p \in Nat, NEW x \in Value, NEW y \in Value, NEW n \in Nat,
         Len(x) = n, At(octs, p, x \o y)
  PROVE  At(octs, p, x) /\ At(octs, p + n, y)
BY AtConcat

\* The header of a stored change form says, where it stands, what the form is.
LEMMA FormAt ==
  ASSUME NEW c, IsCursor(c), NEW form, FormOK(form),
         At(c.octets, c.pos, Whole(FormBlock(form)))
  PROVE  FormIsAt(c, form)
<1>. DEFINE w == FormWidth(form) a == Stored("be24", form.form_id) f == form.flags
            d == <<form.type, form.version>> e == LE(Len(form.data), w) l == form.length2
            x2 == a \o f x3 == x2 \o d x4 == x3 \o e h == x4 \o l o == c.octets p == c.pos
            data == form.data
<1>1. /\ a \in Value /\ Len(a) = 3 /\ f \in Value /\ Len(f) = 4 /\ d \in Value /\ Len(d) = 2
      /\ e \in Value /\ Len(e) = w /\ l \in Value /\ Len(l) = w
      /\ x2 \in Value /\ Len(x2) = 7 /\ x3 \in Value /\ Len(x3) = 9
      /\ x4 \in Value /\ Len(x4) = 9 + w /\ h \in Value /\ Len(h) = 9 + 2 * w
      /\ FormHeader(form) = h /\ w \in {1, 2, 4}
  <2>1. FormParts(form)
    BY FormPartsAre
  <2>2. QED BY <2>1 DEF FormParts
<1>2. data \in Value
  BY DEF FormOK
<1>3. Whole(FormBlock(form)) = h \o data
  <2>1. FormBlock(form).header = FormHeader(form) /\ FormBlock(form).data = data
    BY FormBlockTyped
  <2>2. QED BY <1>1, <2>1 DEF Whole
<1>4. o \in Value /\ p \in Nat
  BY DEF IsCursor
<1>5. w \in Nat /\ 9 + w \in Nat /\ 9 + 2 * w \in Nat
  BY <1>1
<1>6. At(o, p, h \o data)
  BY <1>3
<1>. HIDE DEF h, o, p, data
<1>7. At(o, p, h) /\ At(o, p + (9 + 2 * w), data)
  <2>. DEFINE n == 9 + 2 * w
  <2>1. n \in Nat /\ Len(h) = n
    BY <1>1, <1>5
  <2>. HIDE DEF n, w
  <2>2. At(o, p, h) /\ At(o, p + n, data)
    BY <1>1, <1>2, <1>4, <1>6, <2>1, SplitAt
  <2>3. QED BY <2>2 DEF n
<1>8. At(o, p, x4) /\ At(o, p + (9 + w), l)
  <2>. DEFINE n == 9 + w
  <2>1. n \in Nat /\ Len(x4) = n
    BY <1>1, <1>5
  <2>2. At(o, p, x4 \o l)
    BY <1>7 DEF h
  <2>. HIDE DEF n, w, x4, l
  <2>3. At(o, p, x4) /\ At(o, p + n, l)
    BY <1>1, <1>4, <2>1, <2>2, SplitAt
  <2>4. QED BY <2>3 DEF n
<1>9. At(o, p, x3) /\ At(o, p + 9, e)
  <2>1. At(o, p, x3 \o e) /\ 9 \in Nat
    BY <1>8
  <2>. HIDE DEF w, x3, e
  <2>2. QED BY <1>1, <1>4, <2>1, SplitAt
<1>10. At(o, p, x2) /\ At(o, p + 7, d)
  <2>1. At(o, p, x2 \o d) /\ 7 \in Nat
    BY <1>9
  <2>. HIDE DEF w, x2, d
  <2>2. QED BY <1>1, <1>4, <2>1, SplitAt
<1>11. At(o, p, a) /\ At(o, p + 3, f)
  <2>1. At(o, p, a \o f) /\ 3 \in Nat
    BY <1>10
  <2>. HIDE DEF w, a, f
  <2>2. QED BY <1>1, <1>4, <2>1, SplitAt
<1>12. p + 0 = p
  BY <1>4
<1>13. QED BY <1>7, <1>8, <1>9, <1>10, <1>11, <1>12 DEF FormIsAt, o, p, data

\* A change form that was written is read.
LEMMA FormIsRead ==
  ASSUME NEW c, IsCursor(c), Len(c.octets) < TooMany, NEW form, FormOK(form),
         At(c.octets, c.pos, Whole(FormBlock(form)))
  PROVE  /\ FormRead(c) = form /\ FormW(c) = FormWidth(form) /\ FormSize(c) = Len(form.data)
         /\ FormType(c) \div 64 # 3 /\ FormW(c) \in {1, 2, 4} /\ Len(form.data) \in Nat
         /\ (9 + 2 * FormW(c)) + FormSize(c) <= Left(c)
         /\ Len(Whole(FormBlock(form))) = (9 + 2 * FormW(c)) + FormSize(c)
<1>. DEFINE w == FormWidth(form) m == Len(form.data) a == Stored("be24", form.form_id)
            d == <<form.type, form.version>> o == c.octets p == c.pos
<1>1. /\ At(o, p + 0, a) /\ At(o, p + 3, form.flags) /\ At(o, p + 7, d)
      /\ At(o, p + 9, LE(m, w)) /\ At(o, p + (9 + w), form.length2)
      /\ At(o, p + (9 + 2 * w), form.data)
  BY FormAt DEF FormIsAt
<1>2. /\ Storable("be24", form.form_id) /\ form.flags \in Value /\ Len(form.flags) = 4
      /\ form.type \in Octet /\ form.type < 192 /\ form.version \in Octet
      /\ form.length2 \in Value /\ Len(form.length2) = w /\ form.data \in Value
      /\ m < Numbers(w)
      /\ form = [form_id |-> form.form_id, flags |-> form.flags, type |-> form.type,
                 version |-> form.version, length2 |-> form.length2, data |-> form.data]
  BY DEF FormOK
<1>3. a \in Value /\ Len(a) = 3 /\ Loaded("be24", a) = form.form_id
  BY <1>2, Be24Stored
<1>4. o \in Value /\ p \in Nat
  BY DEF IsCursor
<1>5. form.type \div 64 # 3 /\ w \in {1, 2, 4}
  <2>1. form.type \div 64 # 3
    BY <1>2, FormTypes
  <2>2. QED BY <1>2, <2>1, FormTypes DEF FormWidth
<1>6. m \in Nat /\ Len(o) \in Nat
  BY <1>2, <1>4 DEF Value
<1>. HIDE DEF a, m
<1>7. Piece(c, 0, 3) = a
  BY <1>1, <1>3, PieceAt DEF o, p
<1>8. Piece(c, 3, 4) = form.flags
  BY <1>1, <1>2, PieceAt DEF o, p
<1>9. Piece(c, 7, 1)[1] = form.type /\ Piece(c, 8, 1)[1] = form.version
  <2>1. (p + 7) + Len(d) <= Len(o) /\ \A i \in 1..Len(d) : o[(p + 7) + i] = d[i]
    BY <1>1 DEF At
  <2>2. Len(d) = 2 /\ d[1] = form.type /\ d[2] = form.version /\ 1 \in 1..2 /\ 2 \in 1..2
    OBVIOUS
  <2>. HIDE DEF d
  <2>3. p + 9 <= Len(o) /\ o[p + 7 + 1] = form.type /\ o[(p + 7) + 2] = form.version
    BY <1>4, <1>6, <2>1, <2>2
  <2>4. (p + 7) + 2 = p + 8 + 1
    BY <1>4
  <2>5. o[p + 8 + 1] = form.version
    BY <2>3, <2>4
  <2>6. 7 + 1 <= Left(c) /\ 8 + 1 <= Left(c)
    BY <1>4, <1>6, <2>3 DEF Left
  <2>. HIDE DEF o, p
  <2>7. 1 \in 1..1
    OBVIOUS
  <2>8. Piece(c, 7, 1)[1] = o[p + 7 + 1] /\ Piece(c, 8, 1)[1] = o[p + 8 + 1]
    BY <2>6, <2>7 DEF Piece, o, p
  <2>9. QED BY <2>3, <2>5, <2>8
<1>10. FormType(c) = form.type
  BY <1>9 DEF FormType
<1>11. FormW(c) = w
  BY <1>10 DEF FormW, FormWidth
<1>. HIDE DEF w, o, p, d
<1>12. FormSize(c) = m
  <2>1. NumberAt(c, 9, w) = m
    <3>1. 9 \in Nat /\ At(c.octets, c.pos + 9, LE(m, w))
      BY <1>1 DEF o, p
    <3>2. QED BY SMTT(30), <1>2, <1>5, <1>6, <3>1, NumberIsAt DEF m
  <2>2. QED BY <1>11, <2>1 DEF FormSize
<1>13. Piece(c, 9 + w, w) = form.length2
  <2>. DEFINE n == 9 + w
  <2>1. n \in Nat /\ At(c.octets, c.pos + n, form.length2)
    BY <1>1, <1>5 DEF o, p
  <2>. HIDE DEF n
  <2>2. Piece(c, n, Len(form.length2)) = form.length2
    BY <1>2, <2>1, PieceAt
  <2>3. QED BY <1>2, <2>2 DEF n
<1>14. Piece(c, 9 + 2 * w, m) = form.data /\ (9 + 2 * w) + m <= Left(c)
  <2>. DEFINE n == 9 + 2 * w
  <2>1. n \in Nat /\ At(c.octets, c.pos + n, form.data)
    BY <1>1, <1>5 DEF o, p
  <2>. HIDE DEF n
  <2>2. Piece(c, n, Len(form.data)) = form.data /\ n + Len(form.data) <= Left(c)
    BY <1>2, <2>1, PieceAt
  <2>3. QED BY <2>2 DEF n, m
<1>15. FormRead(c) = form
  <2>1. FormRead(c) = [form_id |-> form.form_id, flags |-> form.flags, type |-> form.type,
                       version |-> form.version, length2 |-> form.length2, data |-> form.data]
    BY <1>3, <1>7, <1>8, <1>9, <1>10, <1>11, <1>12, <1>13, <1>14 DEF FormRead
  <2>2. QED BY <1>2, <2>1
<1>16. Len(Whole(FormBlock(form))) = (9 + 2 * w) + m
  <2>1. FormBlock(form) \in BlockType
        /\ FormBlock(form).header = FormHeader(form) /\ FormBlock(form).data = form.data
    BY FormBlockTyped
  <2>2. Len(FormHeader(form)) = 9 + 2 * w
    <3>1. FormParts(form)
      BY FormPartsAre
    <3>2. QED BY <3>1 DEF FormParts, w
  <2>3. Len(Whole(FormBlock(form))) = Len(FormBlock(form).header) + Len(FormBlock(form).data)
    BY <2>1, WholeTyped
  <2>4. QED BY <2>1, <2>2, <2>3 DEF m
<1>17. QED BY <1>5, <1>6, <1>10, <1>11, <1>12, <1>14, <1>15, <1>16 DEF w, m

FormsCome(d, c, n, forms) == CameTo(d, c, n) /\ d.ok /\ SetTo(d.save, c.save, "change_forms", forms)

\* A stored change form in front of the reader is read as it was and added.
LEMMA OneFormRead ==
  ASSUME NEW c, IsCursor(c), c.ok, Len(c.octets) < TooMany, IsSave(c.save), NEW form, FormOK(form),
         At(c.octets, c.pos, Whole(FormBlock(form))), NEW round
  PROVE  FormsCome(ReadChangeForm(c, round), c, Len(Whole(FormBlock(form))),
                   Append(c.save["change_forms"], form))
<1>. DEFINE n == 9 + 2 * FormW(c) m == FormSize(c)
            d == [c EXCEPT !.pos = @ + n + m, !.save.change_forms = Append(@, form)]
<1>1. /\ FormRead(c) = form /\ m = Len(form.data) /\ FormType(c) \div 64 # 3
      /\ FormW(c) \in {1, 2, 4} /\ Len(form.data) \in Nat /\ n + m <= Left(c)
      /\ Len(Whole(FormBlock(form))) = n + m
  BY FormIsRead
<1>2. n \in Nat /\ m \in Nat
  BY <1>1
<1>3. ReadChangeForm(c, round) = d
  <2>. DEFINE u == [c EXCEPT !.pos = @ + n + m, !.save.change_forms = Append(@, FormRead(c))]
  <2>1. u = d
    BY <1>1
  <2>2. ReadChangeForm(c, round)
          = IF ~c.ok \/ FormType(c) \div 64 = 3 \/ n + m > Left(c) THEN Refused(c) ELSE u
    BY ReadFormIs
  <2>3. n + m \in Nat /\ Left(c) \in Nat
    BY <1>2, LeftIs
  <2>. HIDE DEF n, m, u
  <2>4. ~(~c.ok \/ FormType(c) \div 64 = 3 \/ n + m > Left(c))
    BY <1>1, <2>3
  <2>5. QED BY <2>1, <2>2, <2>4
<1>. HIDE DEF n, m
<1>4. IsAdded(d, c, n + m, form)
  BY <1>1, <1>2, FormAdded
<1>. HIDE DEF d
<1>5. CameTo(d, c, n + m) /\ d.ok
  BY <1>4 DEF IsAdded, CameTo
<1>. DEFINE k == "change_forms" v == Append(c.save["change_forms"], form)
<1>6. k \in Names /\ d.save = [c.save EXCEPT ![k] = v]
  BY <1>4 DEF IsAdded, Names, OtherNames
<1>. HIDE DEF k, v
<1>7. SetTo(d.save, c.save, k, v)
  <2>1. SetTo([c.save EXCEPT ![k] = v], c.save, k, v)
    BY <1>6, SaveExcept
  <2>2. QED BY <1>6, <2>1
<1>8. QED BY <1>1, <1>3, <1>5, <1>7 DEF FormsCome, k, v

\* The first j elements of a list.
FirstOnes(q, j) == [i \in 1..j |-> q[i]]

\* The first elements of a list, one more at a time.
LEMMA FirstOnesAre ==
  ASSUME NEW X, NEW q \in Seq(X)
  PROVE  /\ FirstOnes(q, 0) = <<>> /\ FirstOnes(q, Len(q)) = q
         /\ \A j \in Nat : j < Len(q) => /\ FirstOnes(q, j + 1) = Append(FirstOnes(q, j), q[j + 1])
                                         /\ FirstOnes(q, j) \in Seq(X) /\ q[j + 1] \in X
<1>1. FirstOnes(q, 0) = <<>>
  BY DEF FirstOnes
<1>2. FirstOnes(q, Len(q)) = q
  BY DEF FirstOnes
<1>3. ASSUME NEW j \in Nat, j < Len(q)
      PROVE  /\ FirstOnes(q, j + 1) = Append(FirstOnes(q, j), q[j + 1])
             /\ FirstOnes(q, j) \in Seq(X) /\ q[j + 1] \in X
  <2>1. FirstOnes(q, j + 1) = Append(FirstOnes(q, j), q[j + 1])
    BY OneMore DEF FirstOnes
  <2>2. \A i \in 1..j : q[i] \in X
    BY <1>3
  <2>3. FirstOnes(q, j) \in Seq(X)
    BY <2>2 DEF FirstOnes
  <2>4. q[j + 1] \in X
    BY <1>3
  <2>5. QED BY <2>1, <2>3, <2>4
<1>4. QED BY <1>1, <1>2, <1>3

\* Setting nothing.
LEMMA SetToNone ==
  ASSUME NEW a, IsSave(a), NEW n
  PROVE  SetTo(a, a, n, a[n])
BY DEF SetTo

\* Setting a field twice leaves the second value.
LEMMA SetToMore ==
  ASSUME NEW a, NEW b, NEW d, NEW n, NEW v, NEW w, SetTo(b, a, n, v), SetTo(d, b, n, w)
  PROVE  SetTo(d, a, n, w)
BY DEF SetTo

\* The change forms that were written are read, one after the other.
LEMMA FormsRead ==
  ASSUME NEW c, IsCursor(c), c.ok, Len(c.octets) < TooMany, IsSave(c.save),
         c.save["change_forms"] = <<>>, NEW s, Sane(s), At(c.octets, c.pos, FormPart(s))
  PROVE  FormsCome(FormRounds(c, Len(s.change_forms)), c, Len(FormPart(s)), s.change_forms)
<1>. DEFINE q == s.change_forms bs == FormBlocks(s) x(j) == Blocks(FirstOnes(bs, j))
            Ok(j) == At(c.octets, c.pos, x(j))
                     => FormsCome(FormRounds(c, j), c, Len(x(j)), FirstOnes(q, j))
            T == {j \in Nat : j <= Len(q) => Ok(j)}
            X == {q[i] : i \in DOMAIN q}
<1>1. /\ bs \in Seq(BlockType) /\ Len(bs) = Len(q) /\ Len(q) \in Nat
      /\ \A i \in 1..Len(q) : bs[i] = FormBlock(q[i])
  BY FormBlocksTyped
<1>2. q \in Seq(X) /\ \A i \in 1..Len(q) : FormOK(q[i])
  BY SaneParts DEF FormsOK
<1>. HIDE DEF q, bs, X
<1>3. 0 \in T
  <2>1. x(0) = <<>> /\ FirstOnes(q, 0) = <<>>
    BY <1>1, <1>2, FirstOnesAre, BlocksNone
  <2>2. Len(<<>>) = 0
    OBVIOUS
  <2>3. CameTo(c, c, 0)
    BY AtNone
  <2>4. FormRounds(c, 0) = c
    BY FormRoundsAre
  <2>5. SetTo(c.save, c.save, "change_forms", <<>>)
    <3>1. SetTo(c.save, c.save, "change_forms", c.save["change_forms"])
      BY SetToNone
    <3>2. QED BY <3>1
  <2>6. Ok(0)
    BY <2>1, <2>2, <2>3, <2>4, <2>5 DEF FormsCome
  <2>7. QED BY <2>6
<1>4. ASSUME NEW j \in Nat, j \in T PROVE j + 1 \in T
  <2>1. SUFFICES ASSUME j + 1 <= Len(q), At(c.octets, c.pos, x(j + 1))
                 PROVE  FormsCome(FormRounds(c, j + 1), c, Len(x(j + 1)), FirstOnes(q, j + 1))
    OBVIOUS
  <2>2. Ok(j)
    BY <1>1, <1>4, <2>1
  <2>. HIDE DEF T
  <2>3. j < Len(q) /\ j < Len(bs) /\ j + 1 \in 1..Len(q)
    BY <1>1, <2>1
  <2>. DEFINE form == q[j + 1] g == Whole(FormBlock(form)) y == x(j) d == FormRounds(c, j)
              fs == FirstOnes(q, j)
  <2>4. FormOK(form) /\ bs[j + 1] = FormBlock(form)
    BY <1>1, <1>2, <2>3
  <2>5. FirstOnes(bs, j + 1) = Append(FirstOnes(bs, j), bs[j + 1])
        /\ FirstOnes(bs, j) \in Seq(BlockType) /\ bs[j + 1] \in BlockType
    BY <1>1, <2>3, FirstOnesAre
  <2>6. x(j + 1) = y \o g /\ y \in Value /\ g \in Value
    <3>1. Blocks(Append(FirstOnes(bs, j), bs[j + 1])) = Blocks(FirstOnes(bs, j)) \o Whole(bs[j + 1])
      BY <2>5, BlocksMore
    <3>2. Blocks(FirstOnes(bs, j)) \in Value
      BY <2>5, BlocksLong
    <3>3. Whole(bs[j + 1]) \in Value
      BY <2>5, WholeTyped
    <3>4. QED BY <2>4, <2>5, <3>1, <3>2, <3>3
  <2>7. FirstOnes(q, j + 1) = Append(fs, form)
    BY <1>2, <2>3, FirstOnesAre
  <2>. HIDE DEF form, g, fs
  <2>8. c.octets \in Value /\ c.pos \in Nat
    BY DEF IsCursor
  <2>9. At(c.octets, c.pos, y) /\ At(c.octets, c.pos + Len(y), g)
    <3>1. At(c.octets, c.pos, y \o g)
      BY <2>1, <2>6
    <3>. HIDE DEF y
    <3>2. QED BY <2>6, <2>8, <3>1, AtConcat
  <2>10. FormsCome(d, c, Len(y), fs)
    BY <2>2, <2>9 DEF fs
  <2>. DEFINE z == ReadChangeForm(d, j + 1)
  <2>11. FormRounds(c, j + 1) = z
    BY FormRoundsAre
  <2>. HIDE DEF y, d
  <2>12. /\ IsCursor(d) /\ d.octets = c.octets /\ d.ok /\ d.pos = c.pos + Len(y)
         /\ CameTo(d, c, Len(y)) /\ SetTo(d.save, c.save, "change_forms", fs)
         /\ IsSave(d.save) /\ d.save["change_forms"] = fs
    <3>1. "change_forms" \in Names
      BY DEF Names, OtherNames
    <3>2. QED BY <2>10, <3>1 DEF FormsCome, CameTo, SetTo
  <2>13. FormsCome(z, d, Len(g), Append(fs, form))
    <3>1. At(d.octets, d.pos, Whole(FormBlock(form)))
      BY <2>9, <2>12 DEF g
    <3>2. FormsCome(ReadChangeForm(d, j + 1), d, Len(Whole(FormBlock(form))),
                    Append(d.save["change_forms"], form))
      BY <2>4, <2>12, <3>1, OneFormRead DEF form
    <3>3. QED BY <2>12, <3>2 DEF g
  <2>. HIDE DEF z
  <2>14. Len(y \o g) = Len(y) + Len(g) /\ Len(y) \in Nat /\ Len(g) \in Nat
    BY <2>6, ConcatIs
  <2>15. CameTo(z, c, Len(y) + Len(g)) /\ z.ok
    BY <2>12, <2>13, <2>14, CameMore DEF FormsCome
  <2>16. SetTo(z.save, c.save, "change_forms", Append(fs, form))
    <3>1. SetTo(z.save, d.save, "change_forms", Append(fs, form))
      BY <2>13 DEF FormsCome
    <3>2. QED BY <2>12, <3>1, SetToMore
  <2>17. FormsCome(z, c, Len(y \o g), Append(fs, form))
    BY <2>14, <2>15, <2>16 DEF FormsCome
  <2>18. QED BY <2>6, <2>7, <2>11, <2>17
<1>. HIDE DEF T
<1>5. Nat \subseteq T
  BY <1>3, <1>4, FC!Induction
<1>6. Ok(Len(q))
  BY <1>1, <1>5 DEF T
<1>7. FirstOnes(bs, Len(q)) = bs /\ FirstOnes(q, Len(q)) = q
  BY <1>1, <1>2, FirstOnesAre
<1>8. x(Len(q)) = FormPart(s)
  BY <1>7 DEF FormPart, bs
<1>9. QED BY <1>6, <1>7, <1>8 DEF q
-----------------------------------------------------------------------------
(* The body. *)

\* A number is read back as it is.
LEMMA NumberKept ==
  ASSUME NEW s, Good(s)
  PROVE  \A n \in {"file_version", "snapshot_width", "snapshot_height", "compressor",
                   "form_version"} : n \in PlainNames /\ New(s, n) = s[n]
<1>1. ASSUME NEW n \in PlainNames, CountOf(n) = "one", NEW kind, KindsNamed(n) = <<kind>>,
             kind # "str"
      PROVE  New(s, n) = s[n]
  <2>. DEFINE v == s[n] f == FieldNamed(n)
  <2>1. FieldOK(f, v)
    BY DEF Good
  <2>2. v \in Seq(Value) /\ Len(v) = 1
    BY <1>1, <2>1, OneIs
  <2>3. f.kinds = <<kind>>
    BY <1>1, FieldNamedIs
  <2>4. Cycle(<<kind>>, 1) = kind
    BY DEF Cycle
  <2>5. New(s, n) = NormF(f, v)
    BY DEF New
  <2>. HIDE DEF v, f
  <2>6. NormF(f, v) = [i \in 1..1 |-> Norm(Cycle(<<kind>>, i), v[i])]
    BY <2>2, <2>3 DEF NormF
  <2>7. Norm(Cycle(<<kind>>, 1), v[1]) = v[1]
    BY <1>1, <2>4 DEF Norm
  <2>8. \A i \in 1..1 : i = 1
    OBVIOUS
  <2>9. [i \in 1..1 |-> Norm(Cycle(<<kind>>, i), v[i])] = [i \in 1..1 |-> v[i]]
    BY <2>7, <2>8
  <2>10. [i \in 1..1 |-> v[i]] = v
    BY <2>2
  <2>11. QED BY <2>5, <2>6, <2>9, <2>10 DEF v
<1>2. "le32" # "str" /\ "le16" # "str" /\ "u8" # "str"
  OBVIOUS
<1>3. ASSUME NEW n \in {"file_version", "snapshot_width", "snapshot_height"}
      PROVE  n \in PlainNames /\ New(s, n) = s[n]
  BY <1>1, <1>2, OnesAre
<1>4. "compressor" \in PlainNames /\ New(s, "compressor") = s["compressor"]
  <2>. DEFINE n == "compressor"
  <2>1. n \in PlainNames /\ CountOf(n) = "one" /\ KindsNamed(n) = <<"le16">>
    BY OnesAre
  <2>. HIDE DEF n
  <2>2. New(s, n) = s[n]
    BY <1>1, <1>2, <2>1
  <2>3. QED BY <2>1, <2>2 DEF n
<1>5. "form_version" \in PlainNames /\ New(s, "form_version") = s["form_version"]
  <2>. DEFINE n == "form_version"
  <2>1. n \in PlainNames /\ CountOf(n) = "one" /\ KindsNamed(n) = <<"u8">>
    BY OnesAre
  <2>. HIDE DEF n
  <2>2. New(s, n) = s[n]
    BY <1>1, <1>2, <2>1
  <2>3. QED BY <2>1, <2>2 DEF n
<1>6. QED BY <1>3, <1>4, <1>5

\* Gaining more fields of a save.
LEMMA PartMore ==
  ASSUME NEW s, NEW a, NEW N, NEW k, Part(a, s, N, k), NEW b, NEW M, Gained(b, a, s, M),
         "globals" \notin M
  PROVE  Part(b, s, N \cup M, k)
<1>1. "globals" \in Names
  BY DEF Names, OtherNames
<1>2. b["globals"] = a["globals"] /\ IsSave(b)
  BY <1>1 DEF Gained
<1>3. \A m \in Names : m # "globals" =>
        b[m] = IF m \in N \cup M \/ m \in NamesTo(s, k) THEN New(s, m) ELSE savegame_alloc[m]
  BY DEF Gained, Part
<1>4. QED BY <1>2, <1>3 DEF Part

\* The numbers that decide the format, in a save that has them.
LEMMA PartNumber ==
  ASSUME NEW s, Good(s), NEW a, NEW N, NEW k, Part(a, s, N, k),
         NEW n \in {"file_version", "snapshot_width", "snapshot_height", "compressor",
                    "form_version"}, n \in N
  PROVE  a[n] = s[n]
<1>1. n \in PlainNames /\ New(s, n) = s[n]
  BY NumberKept
<1>2. n \in Names /\ n # "globals"
  BY <1>1, NamesApart DEF Names, AllNames
<1>3. QED BY <1>1, <1>2 DEF Part
-----------------------------------------------------------------------------
(* The version and the plugins. *)

LEMMA VersionRead ==
  ASSUME NEW c, IsCursor(c), c.ok, NEW s, Sane(s), NEW N, "game" \in N, Part(c.save, s, N, 0),
         At(c.octets, c.pos, VersionPart(s))
  PROVE  Reads(LoadAll(c, VersionLoads(c.save.game)), c, Len(VersionPart(s)), s,
               N \cup VersionSet(s["game"]), 0)
<1>1. c.save["game"] = s["game"] /\ IsSave(c.save)
  BY PartGame
<1>2. Good(s)
  BY SaneParts
<1>. DEFINE ns == VersionNames(s["game"]) e == LoadAll(c, ListOf(ns))
<1>3. ns \in Seq(PlainNames) /\ VersionLoads(s["game"]) = ListOf(ns)
  BY VersionList
<1>4. VersionPart(s) = StoreAll(s, ListOf(ns))
  BY <1>2, VersionTyped
<1>5. ToSet(ns) = VersionSet(s["game"])
  BY VersionSetIs DEF VersionSet
<1>. HIDE DEF ns
<1>6. AreLoaded(c, s, ns)
  BY <1>1, <1>2, <1>3, <1>4, LoadAllAt
<1>7. CameTo(e, c, Len(VersionPart(s))) /\ Gained(e.save, c.save, s, VersionSet(s["game"]))
  BY <1>4, <1>5, <1>6 DEF AreLoaded
<1>8. LoadAll(c, VersionLoads(c.save.game)) = e
  BY <1>1, <1>3
<1>. HIDE DEF e
<1>9. "globals" \notin VersionSet(s["game"])
  BY DEF VersionSet, MoreOf
<1>10. Part(e.save, s, N \cup VersionSet(s["game"]), 0)
  BY <1>7, <1>9, PartMore
<1>11. e.ok
  BY <1>7 DEF CameTo
<1>12. QED BY <1>7, <1>8, <1>10, <1>11 DEF Reads

\* A block of one size, that was written of octets o, in front of the cursor.
LEMMA SizedAt ==
  ASSUME NEW c, IsCursor(c), Len(c.octets) < TooMany, NEW o \in Value, NEW w,
         w = LE(Len(o), 4) \o o, At(c.octets, c.pos, w)
  PROVE  LET b == BlockOf(c, 4, Len(o))
         IN  /\ NumberAt(c, 0, 4) = Len(o) /\ Len(o) \in Nat /\ 4 + Len(o) <= Left(c)
             /\ IsCursor(b) /\ b.octets = o /\ b.pos = 0 /\ b.ok = c.ok /\ b.save = c.save
             /\ Len(w) = 4 + Len(o)
<1>. DEFINE h == LE(Len(o), 4)
<1>1. Len(o) \in Nat /\ c.octets \in Value /\ c.pos \in Nat
  BY DEF Value, IsCursor
<1>2. h \in Value /\ Len(h) = 4
  <2>1. Len(o) \in Int
    BY <1>1
  <2>2. QED BY <2>1, LEIs
<1>. HIDE DEF h
<1>3. At(c.octets, c.pos, h) /\ At(c.octets, c.pos + 4, o)
  <2>1. At(c.octets, c.pos, h \o o) /\ 4 \in Nat
    BY DEF h
  <2>2. QED BY <1>1, <1>2, <2>1, SplitAt
<1>4. LET b == BlockOf(c, 4, Len(o))
      IN  /\ 4 + Len(o) <= Left(c) /\ IsCursor(b) /\ b.octets = o /\ b.pos = 0
          /\ b.ok = c.ok /\ b.save = c.save
  BY <1>3, BlockAt
<1>5. Len(o) < TooMany
  BY <1>1, <1>4, TooManyIs DEF Left
<1>6. NumberAt(c, 0, 4) = Len(o)
  <2>. DEFINE m == Len(o)
  <2>1. 4 \in {1, 2, 4} /\ m < Numbers(4) /\ c.pos + 0 = c.pos /\ 0 \in Nat /\ m \in Nat
    BY <1>1, <1>5, NumbersIs
  <2>2. At(c.octets, c.pos + 0, LE(m, 4))
    BY <1>3, <2>1 DEF h
  <2>. HIDE DEF m
  <2>3. NumberAt(c, 0, 4) = m
    BY <2>1, <2>2, NumberIsAt
  <2>4. QED BY <2>3 DEF m
<1>7. Len(w) = 4 + Len(o)
  <2>1. Len(h \o o) = Len(h) + Len(o)
    BY <1>2, ConcatIs
  <2>2. QED BY <1>2, <2>1 DEF h
<1>8. QED BY <1>1, <1>4, <1>6, <1>7

\* The stored plugin table is read back, with the versions that decide its
\* format.
LEMMA PluginRead ==
  ASSUME NEW c, IsCursor(c), c.ok, Len(c.octets) < TooMany, NEW s, Sane(s), NEW N,
         "game" \in N, "file_version" \in N, "form_version" \in N, Part(c.save, s, N, 0),
         At(c.octets, c.pos, PluginPart(s))
  PROVE  Reads(Inside(c, 4, NumberAt(c, 0, 4), plugin_info), c, Len(PluginPart(s)), s,
               N \cup PluginSet(s), 0)
<1>1. c.save["game"] = s["game"] /\ IsSave(c.save)
  BY PartGame
<1>2. Good(s)
  BY SaneParts
<1>3. c.save["file_version"] = s["file_version"] /\ c.save["form_version"] = s["form_version"]
  BY <1>2, PartNumber
<1>4. supports_light_plugins(c.save) <=> supports_light_plugins(s)
  BY <1>1, <1>3, SameFormat
<1>. DEFINE ns == PluginNames(s) o == StoreAll(s, ListOf(ns)) w == PluginPart(s)
            b == BlockOf(c, 4, Len(o)) e == LoadAll(b, ListOf(ns))
<1>5. ns \in Seq(PlainNames) /\ ToSet(ns) = PluginSet(s)
  BY PluginList
<1>6. o \in Value /\ w = LE(Len(o), 4) \o o
  BY <1>2, PluginTyped
<1>. HIDE DEF ns, o
<1>7. /\ NumberAt(c, 0, 4) = Len(o) /\ Len(o) \in Nat /\ 4 + Len(o) <= Left(c)
      /\ IsCursor(b) /\ b.octets = o /\ b.pos = 0 /\ b.ok = c.ok /\ b.save = c.save
      /\ Len(w) = 4 + Len(o)
  <2>. HIDE DEF w
  <2>1. At(c.octets, c.pos, w)
    BY DEF w
  <2>2. w = LE(Len(o), 4) \o o /\ o \in Value
    BY <1>6
  <2>3. LET bb == BlockOf(c, 4, Len(o))
        IN  /\ NumberAt(c, 0, 4) = Len(o) /\ Len(o) \in Nat /\ 4 + Len(o) <= Left(c)
            /\ IsCursor(bb) /\ bb.octets = o /\ bb.pos = 0 /\ bb.ok = c.ok /\ bb.save = c.save
            /\ Len(w) = 4 + Len(o)
    BY ONLY ZenonT(40), IsCursor(c), Len(c.octets) < TooMany, <2>1, <2>2, SizedAt
  <2>4. QED BY <2>3
<1>. HIDE DEF b, w
<1>8. plugin_info(b) = e
  <2>1. plugin_info(b) = LoadAll(b, ListOf(PluginNames(b.save)))
    BY PluginList DEF plugin_info
  <2>2. PluginNames(b.save) = ns
    BY <1>4, <1>7 DEF PluginNames, ns
  <2>3. QED BY <2>1, <2>2
<1>9. At(b.octets, b.pos, o)
  <2>1. \A i \in 1..Len(o) : 0 + i = i
    BY <1>7
  <2>2. QED BY <1>7, <2>1 DEF At
<1>10. AreLoaded(b, s, ns)
  BY <1>1, <1>2, <1>5, <1>7, <1>9, LoadAllAt DEF o
<1>11. IsCursor(e) /\ e.ok /\ Gained(e.save, c.save, s, PluginSet(s))
  BY <1>5, <1>7, <1>10 DEF AreLoaded, CameTo
<1>. HIDE DEF e
<1>12. "globals" \notin PluginSet(s)
  BY DEF PluginSet
<1>13. Part(e.save, s, N \cup PluginSet(s), 0)
  BY <1>11, <1>12, PartMore
<1>. DEFINE d == InsideOf(c, 4, Len(o), e) m == Len(o)
<1>14. Inside(c, 4, NumberAt(c, 0, 4), plugin_info) = d
  BY ZenonT(40), <1>7, <1>8, InsideIsOf DEF b
<1>15. IsBehind(d, c, 4 + m, e)
  <2>1. 4 \in Nat /\ m \in Nat /\ 4 + m <= Left(c)
    BY <1>7
  <2>2. d = InsideOf(c, 4, m, e)
    OBVIOUS
  <2>. HIDE DEF m, d
  <2>3. QED BY <1>11, <2>1, <2>2, InsideIs
<1>. HIDE DEF d
<1>16. CameTo(d, c, Len(w)) /\ d.ok /\ d.save = e.save
  BY <1>7, <1>11, <1>15 DEF IsBehind, CameTo
<1>17. QED BY <1>13, <1>14, <1>16 DEF Reads, w

\* The count of the third table is read back, although one less is stored.
LEMMA ThirdCount ==
  ASSUME NEW c, IsCursor(c), NEW k \in 0..8, At(c.octets, c.pos + 32, LE(k - 1, 4))
  PROVE  num_globals3(c) = k
<1>. DEFINE n == k - 1 o == LE(n, 4)
<1>1. n \in Int /\ 4 \in {1, 2, 4} /\ 32 \in Nat
  OBVIOUS
<1>. HIDE DEF n
<1>2. o \in Value /\ Len(o) = 4 /\ \A i \in 1..4 : o[i] = Digit(n, i)
  BY <1>1, LEIs
<1>3. Piece(c, 32, 4) = o
  <2>1. At(c.octets, c.pos + 32, o)
    BY DEF n
  <2>. HIDE DEF o
  <2>2. Piece(c, 32, Len(o)) = o
    BY <1>1, <1>2, <2>1, PieceAt
  <2>3. QED BY <1>2, <2>2
<1>. HIDE DEF o
<1>4. /\ o[1] = n % 256 /\ o[2] = (n \div 256) % 256
      /\ o[3] = (n \div 65536) % 256 /\ o[4] = (n \div 16777216) % 256
  BY <1>1, <1>2, DigitIs
<1>5. CASE k = 0
  <2>1. n + 1 = 0
    BY <1>5 DEF n
  <2>2. o[1] = 255 /\ o[2] = 255 /\ o[3] = 255 /\ o[4] = 255
    <3>1. n \in Int /\ n + 1 = 0
      BY <1>1, <2>1
    <3>2. n % 256 = 255
      BY ONLY <3>1
    <3>3. (n \div 256) % 256 = 255
      BY ONLY <3>1
    <3>4. (n \div 65536) % 256 = 255
      BY ONLY <3>1
    <3>5. (n \div 16777216) % 256 = 255
      BY ONLY <3>1
    <3>6. QED BY ONLY <1>4, <3>2, <3>3, <3>4, <3>5
  <2>3. o = <<255, 255, 255, 255>>
    <3>. DEFINE u == <<255, 255, 255, 255>>
    <3>1. u \in Value /\ Len(u) = 4
      BY DEF Value, Octet
    <3>2. u[1] = 255 /\ u[2] = 255 /\ u[3] = 255 /\ u[4] = 255
      OBVIOUS
    <3>. HIDE DEF u
    <3>3. \A i \in 1..Len(o) : o[i] = u[i]
      BY <1>2, <2>2, <3>2
    <3>4. o = u
      BY <1>2, <3>1, <3>3, SameOctets
    <3>5. QED BY <3>4 DEF u
  <2>4. QED BY <1>3, <1>5, <2>3 DEF num_globals3
<1>6. CASE k # 0
  <2>1. n \in Nat /\ n <= 7 /\ n + 1 = k
    BY <1>6 DEF n
  <2>2. n < Numbers(4)
    BY <2>1, NumbersIs, TooManyIs
  <2>3. Number(o) = n
    BY <1>1, <2>1, <2>2, NumberOfLE DEF o
  <2>4. o[1] # 255
    BY <1>4, <2>1
  <2>5. o # <<255, 255, 255, 255>>
    BY <2>4
  <2>6. num_globals3(c) = n + 1
    BY <1>3, <2>3, <2>5 DEF num_globals3, NumberAt
  <2>7. QED BY <2>1, <2>6
<1>7. QED BY <1>5, <1>6

\* The sum of the counts of the first two tables does not wrap around for what is written.
LEMMA EarlyCount ==
  ASSUME NEW c, IsCursor(c), NEW k \in 0..12, NEW l \in 0..18,
         At(c.octets, c.pos + 24, LE(k, 4)), At(c.octets, c.pos + 28, LE(l, 4))
  PROVE  Number(Plus(Piece(c, 24, 4), Piece(c, 28, 4))) = k + l
<1>1. ASSUME NEW skip \in {24, 28}, NEW n \in 0..18, At(c.octets, c.pos + skip, LE(n, 4))
      PROVE  /\ Piece(c, skip, 4)[1] = n /\ Piece(c, skip, 4)[2] = 0
             /\ Piece(c, skip, 4)[3] = 0 /\ Piece(c, skip, 4)[4] = 0
  <2>. DEFINE o == LE(n, 4)
  <2>1. n \in Int /\ 4 \in {1, 2, 4} /\ skip \in Nat
    OBVIOUS
  <2>2. o \in Value /\ Len(o) = 4 /\ \A i \in 1..4 : o[i] = Digit(n, i)
    BY <2>1, LEIs
  <2>. HIDE DEF o
  <2>3. Piece(c, skip, 4) = o
    <3>1. At(c.octets, c.pos + skip, o)
      BY <1>1 DEF o
    <3>2. Piece(c, skip, Len(o)) = o
      BY <2>1, <2>2, <3>1, PieceAt
    <3>3. QED BY <2>2, <3>2
  <2>4. o[1] = n % 256 /\ o[2] = (n \div 256) % 256
        /\ o[3] = (n \div 65536) % 256 /\ o[4] = (n \div 16777216) % 256
    BY <2>1, <2>2, DigitIs
  <2>5. n % 256 = n /\ n \div 256 = 0 /\ n \div 65536 = 0 /\ n \div 16777216 = 0
    BY SMT
  <2>6. QED BY ONLY <2>3, <2>4, <2>5
<1>. DEFINE a == Piece(c, 24, 4) b == Piece(c, 28, 4) p == [i \in 1..4 |-> a[i] + b[i]]
            m == k + l
<1>2. a[1] = k /\ a[2] = 0 /\ a[3] = 0 /\ a[4] = 0
  <2>1. 24 \in {24, 28} /\ k \in 0..18
    OBVIOUS
  <2>2. QED BY <1>1, <2>1, Zenon
<1>3. b[1] = l /\ b[2] = 0 /\ b[3] = 0 /\ b[4] = 0
  <2>1. 28 \in {24, 28}
    OBVIOUS
  <2>2. QED BY <1>1, <2>1, Zenon
<1>4. p[1] = a[1] + b[1] /\ p[2] = a[2] + b[2] /\ p[3] = a[3] + b[3] /\ p[4] = a[4] + b[4]
  OBVIOUS
<1>5. Plus(a, b) = Carried(p)
  BY DEF Plus
<1>. HIDE DEF a, b, p
<1>6. p[1] = m /\ p[2] = 0 /\ p[3] = 0 /\ p[4] = 0 /\ m \in Nat /\ m <= 30
  BY <1>2, <1>3, <1>4
<1>. HIDE DEF m
<1>7. Carried(p) = <<m, 0, 0, 0>>
  <2>1. m % 256 = m /\ m \div 256 = 0 /\ (0 + 0) % 256 = 0 /\ (0 + 0) \div 256 = 0
    BY ONLY <1>6
  <2>2. QED BY ONLY <1>6, <2>1 DEF Carried
<1>8. Number(<<m, 0, 0, 0>>) = m
  <2>. DEFINE o == <<m, 0, 0, 0>>
  <2>1. Len(o) = 4 /\ o[1] = m /\ o[2] = 0 /\ o[3] = 0 /\ o[4] = 0 /\ m \in Int /\ 0 \in Int
    BY <1>6
  <2>. HIDE DEF o
  <2>2. Number(o) = Assembled4(m, 0, 0, 0)
    BY ONLY <2>1, SMT DEF Number
  <2>3. Assembled4(m, 0, 0, 0) = m + 256 * 0
    BY <2>1, Assembled2Is, Zenon
  <2>4. Number(o) = m
    BY <1>6, <2>2, <2>3
  <2>5. QED BY <2>4 DEF o
<1>9. QED BY <1>5, <1>7, <1>8 DEF a, b, m

\* What read_body makes of the tables and the change forms: t is behind the plugins.
TablesOf(t) ==
  LET early == Rounds(ReadGlobal, Advance(t, LocationTableSize),
                      Number(Plus(Piece(t, 24, 4), Piece(t, 28, 4))))
      forms == Rounds(ReadChangeForm, early, NumberAt(t, 36, 4))
  IN  Rounds(ReadGlobal, forms, num_globals3(t))

\* Where the tables and the change forms of s are, and their counts, when t is behind the plugins.
TablesAt(t, s, q1, q2, q3, q4) ==
  /\ q1 = t.pos + 100
  /\ q2 = q1 + Len(GlobalPart(s, 0, 12))
  /\ q3 = q2 + Len(GlobalPart(s, 12, 18))
  /\ q4 = q3 + Len(FormPart(s))
  /\ At(t.octets, q1, GlobalPart(s, 0, 12))
  /\ At(t.octets, q2, GlobalPart(s, 12, 18))
  /\ At(t.octets, q3, FormPart(s))
  /\ At(t.octets, q4, GlobalPart(s, 30, 8))
  /\ Number(Plus(Piece(t, 24, 4), Piece(t, 28, 4)))
       = Len(RunBlocks(s, 0, 12)) + Len(RunBlocks(s, 12, 18))
  /\ num_globals3(t) = Len(RunBlocks(s, 30, 8))
  /\ NumberAt(t, 36, 4) = Len(s.change_forms)

\* Behind the tables of s, which have been read: n is in front of the last three fields.
TablesCome(late, t, s, N, n) ==
  /\ IsCursor(late) /\ late.octets = t.octets /\ late.ok /\ late.pos = n
  /\ Part(late.save, s, N \cup {"change_forms"}, 38)

\* A list that is no field of its own is set from that of s.
LEMMA PartOther ==
  ASSUME NEW s, NEW a, NEW N, NEW k, Part(a, s, N, k), NEW n \in {"change_forms", "snapshot_data"},
         NEW b, SetTo(b, a, n, s[n])
  PROVE  Part(b, s, N \cup {n}, k)
<1>1. n \notin PlainNames
  BY NamesApart
<1>2. New(s, n) = s[n]
  BY <1>1 DEF New
<1>3. "globals" \in Names /\ "globals" # n
  BY DEF Names, OtherNames
<1>4. b["globals"] = a["globals"] /\ IsSave(b)
  BY <1>3 DEF SetTo
<1>5. \A m \in Names : b[m] = IF m = n THEN s[n] ELSE a[m]
  BY DEF SetTo
<1>6. \A m \in Names : m # "globals" =>
        b[m] = IF m \in N \cup {n} \/ m \in NamesTo(s, k) THEN New(s, m)
               ELSE savegame_alloc[m]
  BY <1>2, <1>5 DEF Part
<1>7. QED BY <1>4, <1>6 DEF Part

\* No change forms have been read so far.
LEMMA PartNoForms ==
  ASSUME NEW s, NEW a, NEW N, NEW k, Part(a, s, N, k), "change_forms" \notin N
  PROVE  a["change_forms"] = <<>> /\ IsSave(a)
<1>1. "change_forms" \in Names /\ "change_forms" # "globals"
  BY DEF Names, OtherNames
<1>2. "change_forms" \notin BodySet(s["game"])
  BY DEF BodySet, BlockSet, LocationSet, WeatherSet, MoreOf
<1>3. "change_forms" \notin NamesTo(s, k)
  BY <1>2, NamesToIs
<1>4. a["change_forms"] = savegame_alloc["change_forms"]
  BY <1>1, <1>3 DEF Part
<1>5. QED BY <1>4, AllocIs DEF Part

\* The tables and the change forms, from the counts in the location table on.
LEMMA TablesAreRead ==
  ASSUME NEW t, IsCursor(t), t.ok, Len(t.octets) < TooMany, NEW s, Sane(s), NEW N,
         "game" \in N, "data4" \notin N, "change_forms" \notin N, Part(t.save, s, N, 0),
         NEW q1 \in Nat, NEW q2 \in Nat, NEW q3 \in Nat, NEW q4 \in Nat,
         TablesAt(t, s, q1, q2, q3, q4)
  PROVE  TablesCome(TablesOf(t), t, s, N, q4 + Len(GlobalPart(s, 30, 8)))
<1>. DEFINE g1 == GlobalPart(s, 0, 12) g2 == GlobalPart(s, 12, 18) f == FormPart(s)
            g3 == GlobalPart(s, 30, 8)
<1>23. /\ q1 = t.pos + 100 /\ q2 = q1 + Len(g1) /\ q3 = q2 + Len(g2) /\ q4 = q3 + Len(f)
       /\ At(t.octets, q1, g1) /\ At(t.octets, q2, g2) /\ At(t.octets, q3, f)
       /\ At(t.octets, q4, g3)
       /\ Number(Plus(Piece(t, 24, 4), Piece(t, 28, 4)))
            = Len(RunBlocks(s, 0, 12)) + Len(RunBlocks(s, 12, 18))
       /\ num_globals3(t) = Len(RunBlocks(s, 30, 8))
       /\ NumberAt(t, 36, 4) = Len(s.change_forms)
  BY DEF TablesAt
<1>24. g1 = GlobalPart(s, 0, 12) /\ g2 = GlobalPart(s, 12, 18) /\ f = FormPart(s)
       /\ g3 = GlobalPart(s, 30, 8)
  OBVIOUS
<1>. DEFINE n1 == Len(RunBlocks(s, 0, 12)) n2 == Len(RunBlocks(s, 12, 18))
            n3 == Len(RunBlocks(s, 30, 8)) n4 == Len(s.change_forms)
            a == Advance(t, LocationTableSize)
            early == Rounds(ReadGlobal, a, n1 + n2)
            forms == Rounds(ReadChangeForm, early, n4)
            late  == Rounds(ReadGlobal, forms, n3)
<1>1. /\ RunBlocks(s, 0, 12) \in Seq(BlockType) /\ RunBlocks(s, 12, 18) \in Seq(BlockType)
      /\ RunBlocks(s, 30, 8) \in Seq(BlockType) /\ FormBlocks(s) \in Seq(BlockType)
      /\ n1 \in Nat /\ n2 \in Nat /\ n3 \in Nat /\ n4 \in Nat /\ Len(FormBlocks(s)) = n4
  BY BodyIsTyped DEF BodyTyped
<1>. HIDE DEF g1, g2, f, g3
<1>2. /\ g1 \in Value /\ Len(g1) \in Nat /\ Len(g1) >= n1
      /\ g2 \in Value /\ Len(g2) \in Nat /\ Len(g2) >= n2
      /\ g3 \in Value /\ Len(g3) \in Nat /\ Len(g3) >= n3
      /\ f \in Value /\ Len(f) \in Nat /\ Len(f) >= n4
  BY <1>1, <1>24, BlocksLong DEF GlobalPart, FormPart, n1, n2, n3, n4
<1>. HIDE DEF n1, n2, n3, n4
<1>3. /\ t.octets \in Value /\ t.pos \in Nat /\ Len(t.octets) \in Nat
      /\ q1 + Len(g1) <= Len(t.octets) /\ q2 + Len(g2) <= Len(t.octets)
      /\ q3 + Len(f) <= Len(t.octets) /\ q4 + Len(g3) <= Len(t.octets)
  BY <1>23 DEF IsCursor, At, Value
<1>20. /\ 100 <= Len(t.octets) - t.pos /\ n1 + n2 <= Len(t.octets) - q1
       /\ n4 <= Len(t.octets) - q3 /\ n3 <= Len(t.octets) - q4
       /\ Len(t.octets) - t.pos \in Nat /\ Len(t.octets) - q1 \in Nat
       /\ Len(t.octets) - q3 \in Nat /\ Len(t.octets) - q4 \in Nat
  <2>. DEFINE l == Len(t.octets) l1 == Len(g1) l2 == Len(g2) l3 == Len(f) l4 == Len(g3) p == t.pos
  <2>1. /\ n1 \in Nat /\ n2 \in Nat /\ n3 \in Nat /\ n4 \in Nat
        /\ l \in Nat /\ l1 \in Nat /\ l2 \in Nat /\ l3 \in Nat /\ l4 \in Nat /\ p \in Nat
        /\ l1 >= n1 /\ l2 >= n2 /\ l4 >= n3 /\ l3 >= n4
        /\ q1 + l1 <= l /\ q2 + l2 <= l /\ q3 + l3 <= l /\ q4 + l4 <= l
        /\ q1 = p + 100 /\ q2 = q1 + l1 /\ q3 = q2 + l2 /\ q4 = q3 + l3
        /\ q1 \in Nat /\ q2 \in Nat /\ q3 \in Nat /\ q4 \in Nat
    BY <1>1, <1>2, <1>3, <1>23
  <2>. HIDE DEF l, l1, l2, l3, l4, p
  <2>2. 100 <= l - p /\ n1 + n2 <= l - q1 /\ n4 <= l - q3 /\ n3 <= l - q4
    BY ONLY <2>1
  <2>3. l - p \in Nat /\ l - q1 \in Nat /\ l - q3 \in Nat /\ l - q4 \in Nat
    BY ONLY <2>1
  <2>4. QED BY <2>2, <2>3 DEF l, p
<1>21. n1 \in Nat /\ n2 \in Nat /\ n3 \in Nat /\ n4 \in Nat
  BY <1>1
<1>4. IsCursor(a) /\ a.octets = t.octets /\ a.save = t.save /\ a.ok /\ a.pos = q1
  <2>. DEFINE w == LocationTableSize
  <2>1. w = 100 /\ w \in Nat
    BY DEF LocationTableSize
  <2>2. w <= Left(t)
    BY <1>20, <2>1 DEF Left
  <2>. HIDE DEF w
  <2>3. LET d == Advance(t, w)
        IN  /\ IsCursor(d) /\ d.octets = t.octets /\ d.save = t.save
            /\ w <= Left(t) => d.ok = t.ok /\ d.pos = t.pos + w
            /\ ~(w <= Left(t)) => ~d.ok
    BY ONLY IsCursor(t), <2>1, AdvanceIs
  <2>4. QED BY <1>23, <2>1, <2>2, <2>3 DEF w
<1>. HIDE DEF a
<1>5. GlobalRounds(a, 0) = a
  BY GlobalRoundsAre
<1>. DEFINE e1 == GlobalRounds(a, n1)
<1>6. Reads(e1, a, Len(g1), s, N, 12)
  <2>1. At(a.octets, a.pos, GlobalPart(s, 0, 12)) /\ Part(a.save, s, N, 0)
        /\ Len(a.octets) < TooMany /\ a = GlobalRounds(a, 0)
    BY <1>4, <1>5, <1>23, <1>24
  <2>2. Reads(GlobalRounds(a, 0 + Len(RunBlocks(s, 0, 12))), a, Len(GlobalPart(s, 0, 12)), s, N,
              0 + 12)
    <3>1. 0 \in Nat /\ 12 \in Nat /\ 0 + 12 <= 38
      OBVIOUS
    <3>2. QED BY <1>4, <2>1, <3>1, RunRead
  <2>3. 0 + n1 = n1 /\ 0 + 12 = 12
    BY <1>1
  <2>4. QED BY <1>24, <2>2, <2>3 DEF n1
<1>7. /\ IsCursor(e1) /\ e1.octets = t.octets /\ e1.ok /\ e1.pos = q2 /\ Part(e1.save, s, N, 12)
      /\ CameTo(e1, a, Len(g1))
  BY <1>4, <1>6, <1>23 DEF Reads, CameTo
<1>. DEFINE e2 == GlobalRounds(a, n1 + n2)
<1>8. Reads(e2, e1, Len(g2), s, N, 30)
  <2>. HIDE DEF e1
  <2>1. At(e1.octets, e1.pos, GlobalPart(s, 12, 18)) /\ Len(e1.octets) < TooMany
    BY <1>7, <1>23, <1>24
  <2>2. e1 = GlobalRounds(a, n1)
    BY DEF e1
  <2>3. 12 \in Nat /\ 18 \in Nat /\ 12 + 18 <= 38
    OBVIOUS
  <2>4. Reads(GlobalRounds(a, n1 + Len(RunBlocks(s, 12, 18))), e1, Len(GlobalPart(s, 12, 18)), s,
              N, 12 + 18)
    BY <1>1, <1>7, <2>1, <2>2, <2>3, RunRead
  <2>5. QED BY <2>4, <1>24 DEF n2
<1>. HIDE DEF e1
<1>9. /\ IsCursor(e2) /\ e2.octets = t.octets /\ e2.ok /\ e2.pos = q3 /\ Part(e2.save, s, N, 30)
  BY <1>7, <1>8, <1>23 DEF Reads, CameTo
<1>10. early = e2
  <2>1. Left(a) = Len(t.octets) - q1
    BY <1>4 DEF Left
  <2>2. ~(n1 + n2 > Left(a))
    BY ONLY <1>20, <1>21, <2>1
  <2>. DEFINE n == n1 + n2
  <2>. HIDE DEF n
  <2>3. Rounds(ReadGlobal, a, n) = IF ~a.ok \/ n > Left(a) THEN Refused(a) ELSE GlobalRounds(a, n)
    BY RoundsAre
  <2>4. QED BY <1>4, <2>2, <2>3 DEF n
<1>. HIDE DEF early, e2
<1>11. early.save["change_forms"] = <<>> /\ IsSave(early.save)
  BY <1>9, <1>10, PartNoForms
<1>. DEFINE e3 == FormRounds(early, n4)
<1>12. FormsCome(e3, early, Len(f), s.change_forms)
  <2>1. At(early.octets, early.pos, FormPart(s)) /\ Len(early.octets) < TooMany
    BY <1>9, <1>10, <1>23, <1>24
  <2>2. QED BY <1>9, <1>10, <1>11, <1>24, <2>1, FormsRead DEF n4
<1>. HIDE DEF e3
<1>13. IsCursor(e3) /\ e3.octets = t.octets /\ e3.ok /\ e3.pos = q4
       /\ Part(e3.save, s, N \cup {"change_forms"}, 30)
  <2>1. IsCursor(e3) /\ e3.octets = t.octets /\ e3.ok /\ e3.pos = q4
        /\ SetTo(e3.save, early.save, "change_forms", s["change_forms"])
    BY <1>9, <1>10, <1>12, <1>23 DEF FormsCome, CameTo
  <2>2. QED BY <1>9, <1>10, <2>1, PartOther
<1>14. forms = e3
  <2>1. Left(early) = Len(t.octets) - q3
    BY <1>9, <1>10 DEF Left
  <2>2. ~(n4 > Left(early))
    BY ONLY <1>20, <1>21, <2>1
  <2>3. forms = IF ~early.ok \/ n4 > Left(early) THEN Refused(early) ELSE FormRounds(early, n4)
    BY RoundsAre
  <2>4. QED BY <1>9, <1>10, <2>2, <2>3 DEF e3
<1>. HIDE DEF forms
<1>15. GlobalRounds(forms, 0) = forms
  BY GlobalRoundsAre
<1>. DEFINE e4 == GlobalRounds(forms, n3) M == N \cup {"change_forms"}
<1>16. Reads(e4, forms, Len(g3), s, M, 38)
  <2>. HIDE DEF M
  <2>1. At(forms.octets, forms.pos, GlobalPart(s, 30, 8)) /\ Part(forms.save, s, M, 30)
        /\ Len(forms.octets) < TooMany /\ forms = GlobalRounds(forms, 0)
        /\ IsCursor(forms) /\ forms.ok
    BY ZenonT(40), <1>13, <1>14, <1>15, <1>23, <1>24 DEF M
  <2>2. "game" \in M /\ "data4" \notin M
    BY DEF M
  <2>3. 0 \in Nat /\ 30 \in Nat /\ 8 \in Nat /\ 30 + 8 <= 38
    OBVIOUS
  <2>4. Reads(GlobalRounds(forms, 0 + Len(RunBlocks(s, 30, 8))), forms, Len(GlobalPart(s, 30, 8)),
              s, M, 30 + 8)
    BY <2>1, <2>2, <2>3, RunRead
  <2>5. 0 + n3 = n3 /\ 30 + 8 = 38
    BY <1>1
  <2>6. QED BY <2>4, <2>5, <1>24 DEF n3
<1>17. late = e4
  <2>1. Left(forms) = Len(t.octets) - q4
    BY <1>13, <1>14 DEF Left
  <2>2. ~(n3 > Left(forms))
    BY ONLY <1>20, <1>21, <2>1
  <2>3. late = IF ~forms.ok \/ n3 > Left(forms) THEN Refused(forms) ELSE GlobalRounds(forms, n3)
    BY RoundsAre
  <2>4. QED BY <1>13, <1>14, <2>2, <2>3
<1>. HIDE DEF e4, late
<1>18. /\ IsCursor(late) /\ late.octets = t.octets /\ late.ok /\ late.pos = q4 + Len(g3)
       /\ Part(late.save, s, N \cup {"change_forms"}, 38)
  BY <1>13, <1>14, <1>16, <1>17 DEF Reads, CameTo
<1>19. late = TablesOf(t)
  BY <1>23 DEF late, forms, early, a, n1, n2, n3, n4, TablesOf
<1>22. QED BY <1>18, <1>19, <1>24 DEF TablesCome

\* What is read of a save with its body.
AllOf(s, N) ==
  (((N \cup VersionSet(s["game"])) \cup PluginSet(s)) \cup {"change_forms"}) \cup TailSet

\* The three fields behind the last table.
LEMMA TailRead ==
  ASSUME NEW c, IsCursor(c), c.ok, NEW s, Sane(s), NEW N, NEW k, Part(c.save, s, N, k),
         At(c.octets, c.pos, TailPart(s))
  PROVE  Comes(LoadAll(c, TailLoads), s, N \cup TailSet, k)
<1>1. Good(s) /\ IsSave(c.save)
  BY SaneParts DEF Part
<1>. DEFINE ns == TailNames e == LoadAll(c, ListOf(ns))
<1>2. ns \in Seq(PlainNames) /\ TailLoads = ListOf(ns) /\ ToSet(ns) = TailSet
  BY NamesTyped, OtherParts, TailSetIs
<1>. HIDE DEF ns
<1>3. TailPart(s) = StoreAll(s, ListOf(ns))
  BY <1>2 DEF TailPart
<1>4. AreLoaded(c, s, ns)
  BY <1>1, <1>2, <1>3, LoadAllAt
<1>5. IsCursor(e) /\ e.ok /\ Gained(e.save, c.save, s, TailSet)
  BY <1>2, <1>4 DEF AreLoaded, CameTo
<1>. HIDE DEF e
<1>6. "globals" \notin TailSet
  BY DEF TailSet
<1>7. Part(e.save, s, N \cup TailSet, k)
  BY <1>5, <1>6, PartMore
<1>8. QED BY <1>2, <1>5, <1>7 DEF Comes, e

\* The body that was written is read.
LEMMA BodyRead ==
  ASSUME NEW c, IsCursor(c), c.ok, Len(c.octets) < TooMany, NEW s, Sane(s), NEW N,
         "game" \in N, "file_version" \in N, "data4" \notin N, "change_forms" \notin N,
         Part(c.save, s, N, 0), BodyIs(c.octets, c.pos, s)
  PROVE  Comes(read_body(c), s, AllOf(s, N), 38)
<1>. DEFINE y == c.octets p == c.pos v == VersionPart(s) b == PluginPart(s)
            t == p + Len(v) + Len(b) g1 == GlobalPart(s, 0, 12) g2 == GlobalPart(s, 12, 18)
            f == FormPart(s) g3 == GlobalPart(s, 30, 8) r == TailPart(s)
            q1 == t + 100 q2 == q1 + Len(g1) q3 == q2 + Len(g2) q4 == q3 + Len(f)
            q5 == q4 + Len(g3)
            n1 == Len(RunBlocks(s, 0, 12)) n2 == Len(RunBlocks(s, 12, 18))
            n3 == Len(RunBlocks(s, 30, 8)) n4 == Len(s.change_forms)
<1>1. /\ At(y, p, v) /\ At(y, p + Len(v), b)
      /\ At(y, t + 24, LE(n1, 4)) /\ At(y, t + 28, LE(n2, 4))
      /\ At(y, t + 32, LE(n3 - 1, 4)) /\ At(y, t + 36, LE(n4, 4))
      /\ At(y, q1, g1) /\ At(y, q2, g2) /\ At(y, q3, f) /\ At(y, q4, g3) /\ At(y, q5, r)
  BY DEF BodyIs
<1>2. /\ v \in Value /\ b \in Value /\ g1 \in Value /\ g2 \in Value /\ f \in Value
      /\ g3 \in Value /\ r \in Value
      /\ n1 \in Nat /\ n2 \in Nat /\ n3 \in Nat /\ n4 \in Nat /\ n1 <= 12 /\ n2 <= 18 /\ n3 <= 8
      /\ Len(FormBlocks(s)) = n4 /\ FormBlocks(s) \in Seq(BlockType)
  BY BodyIsTyped DEF BodyTyped
<1>3. /\ y \in Value /\ p \in Nat /\ Len(y) \in Nat
      /\ Len(v) \in Nat /\ Len(b) \in Nat /\ Len(g1) \in Nat /\ Len(g2) \in Nat
      /\ Len(f) \in Nat /\ Len(g3) \in Nat /\ Len(r) \in Nat
  BY SMTT(30), <1>2 DEF IsCursor, Value
<1>4. Len(f) >= n4
  BY <1>2, BlocksLong DEF FormPart
<1>. HIDE DEF y, p, v, b, g1, g2, f, g3, r, n1, n2, n3, n4
<1>5. /\ t \in Nat /\ q1 \in Nat /\ q2 \in Nat /\ q3 \in Nat /\ q4 \in Nat /\ q5 \in Nat
      /\ p + Len(v) \in Nat
  BY <1>3
<1>. DEFINE version == LoadAll(c, VersionLoads(c.save.game))
            table == Inside(version, 4, NumberAt(version, 0, 4), plugin_info)
            early == Rounds(ReadGlobal, Advance(table, LocationTableSize),
                            Number(Plus(Piece(table, 24, 4), Piece(table, 28, 4))))
            forms == Rounds(ReadChangeForm, early, NumberAt(table, 36, 4))
            late == Rounds(ReadGlobal, forms, num_globals3(table))
            N1 == N \cup VersionSet(s["game"]) N2 == N1 \cup PluginSet(s)
<1>6. read_body(c) = IF late.ok THEN LoadAll(late, TailLoads) ELSE late
  BY DEF read_body, read_tables, read_tail
<1>7. Reads(version, c, Len(v), s, N1, 0)
  BY <1>1, VersionRead DEF v, y, p
<1>. HIDE DEF version
<1>8. IsCursor(version) /\ version.ok /\ version.octets = y /\ version.pos = p + Len(v)
      /\ Part(version.save, s, N1, 0)
  BY <1>7 DEF Reads, CameTo, y, p
<1>9. Reads(table, version, Len(b), s, N2, 0)
  <2>1. At(version.octets, version.pos, PluginPart(s)) /\ Len(version.octets) < TooMany
    BY <1>1, <1>8 DEF b, y
  <2>2. "game" \in N1 /\ "file_version" \in N1 /\ "form_version" \in N1
    BY DEF VersionSet
  <2>. HIDE DEF N1
  <2>3. Reads(table, version, Len(PluginPart(s)), s, N1 \cup PluginSet(s), 0)
    BY <1>8, <2>1, <2>2, PluginRead
  <2>4. QED BY <2>3 DEF b
<1>. HIDE DEF table
<1>10. IsCursor(table) /\ table.ok /\ table.octets = y /\ table.pos = t /\ Part(table.save, s, N2, 0)
  BY <1>8, <1>9 DEF Reads, CameTo
<1>11. "game" \in N2 /\ "data4" \notin N2 /\ "change_forms" \notin N2
  BY DEF VersionSet, PluginSet, MoreOf
<1>. HIDE DEF N2, t
<1>12. n4 < TooMany
  <2>1. q3 + Len(f) <= Len(y) /\ Len(y) < TooMany
    BY <1>1 DEF At, y
  <2>. DEFINE l == Len(f) m == Len(y)
  <2>2. l \in Nat /\ m \in Nat /\ q3 \in Nat /\ q3 + l <= m /\ m < TooMany /\ l >= n4 /\ n4 \in Nat
    BY <1>2, <1>3, <1>4, <1>5, <2>1
  <2>. HIDE DEF l, m, q3
  <2>3. QED BY ONLY <2>2, TooManyIs
<1>13. /\ Number(Plus(Piece(table, 24, 4), Piece(table, 28, 4))) = n1 + n2
       /\ NumberAt(table, 36, 4) = n4
  <2>1. 4 \in {1, 2, 4} /\ 36 \in Nat /\ n1 \in 0..12 /\ n2 \in 0..18
    BY <1>2
  <2>2. n4 < Numbers(4)
    BY <1>12, NumbersIs
  <2>3. /\ At(table.octets, table.pos + 24, LE(n1, 4)) /\ At(table.octets, table.pos + 28, LE(n2, 4))
        /\ At(table.octets, table.pos + 36, LE(n4, 4))
    BY <1>1, <1>10
  <2>4. Number(Plus(Piece(table, 24, 4), Piece(table, 28, 4))) = n1 + n2
    BY <1>10, <2>1, <2>3, EarlyCount
  <2>5. NumberAt(table, 36, 4) = n4
    BY <1>2, <1>10, <2>1, <2>2, <2>3, NumberIsAt
  <2>6. QED BY <2>4, <2>5
<1>14. num_globals3(table) = n3
  <2>1. At(table.octets, table.pos + 32, LE(n3 - 1, 4)) /\ n3 \in 0..8
    BY <1>1, <1>2, <1>10
  <2>2. QED BY <1>10, <2>1, ThirdCount
<1>15. /\ IsCursor(late) /\ late.octets = table.octets /\ late.ok /\ late.pos = q4 + Len(g3)
       /\ Part(late.save, s, N2 \cup {"change_forms"}, 38)
  <2>1. /\ At(table.octets, q1, g1) /\ At(table.octets, q2, g2) /\ At(table.octets, q3, f)
        /\ At(table.octets, q4, g3) /\ Len(table.octets) < TooMany
    BY <1>1, <1>10 DEF y
  <2>2. /\ Number(Plus(Piece(table, 24, 4), Piece(table, 28, 4)))
             = Len(RunBlocks(s, 0, 12)) + Len(RunBlocks(s, 12, 18))
        /\ num_globals3(table) = Len(RunBlocks(s, 30, 8))
        /\ NumberAt(table, 36, 4) = Len(s.change_forms)
    BY <1>13, <1>14 DEF n1, n2, n3, n4
  <2>3. /\ g1 = GlobalPart(s, 0, 12) /\ g2 = GlobalPart(s, 12, 18) /\ f = FormPart(s)
        /\ g3 = GlobalPart(s, 30, 8)
    BY DEF g1, g2, f, g3
  <2>4. q1 = table.pos + 100 /\ q2 = q1 + Len(g1) /\ q3 = q2 + Len(g2) /\ q4 = q3 + Len(f)
    BY <1>10
  <2>. HIDE DEF q1, q2, q3, q4, late, early, forms
  <2>5. TablesCome(TablesOf(table), table, s, N2, q4 + Len(g3))
    <3>1. TablesAt(table, s, q1, q2, q3, q4)
      BY ONLY <2>1, <2>2, <2>3, <2>4 DEF TablesAt
    <3>2. TablesCome(TablesOf(table), table, s, N2, q4 + Len(GlobalPart(s, 30, 8)))
      BY ONLY Sane(s), <1>5, <1>10, <1>11, <2>1, <3>1, TablesAreRead
    <3>3. QED BY <2>3, <3>2
  <2>6. late = TablesOf(table)
    BY DEF late, early, forms, TablesOf
  <2>7. QED BY <2>5, <2>6 DEF TablesCome
<1>. HIDE DEF late
<1>16. At(late.octets, late.pos, TailPart(s))
  BY <1>1, <1>10, <1>15 DEF r
<1>17. Comes(LoadAll(late, TailLoads), s, (N2 \cup {"change_forms"}) \cup TailSet, 38)
  BY <1>15, <1>16, TailRead
<1>18. QED BY <1>6, <1>15, <1>17 DEF AllOf, N2
-----------------------------------------------------------------------------
(* The front of a file. *)

\* Nothing but the game has been read.
LEMMA PartStart ==
  ASSUME NEW s, s["game"] \in Games
  PROVE  Part(EmptySave(s["game"]), s, {"game"}, 0)
<1>. DEFINE e == EmptySave(s["game"])
<1>1. IsSave(e) /\ e["game"] = s["game"] /\ \A n \in Names : n # "game" => e[n] = savegame_alloc[n]
  BY EmptyIs
<1>. HIDE DEF e
<1>2. "game" \notin PlainNames /\ "globals" \in Names /\ "globals" # "game"
  BY NamesApart DEF Names, OtherNames
<1>3. New(s, "game") = s["game"]
  BY <1>2 DEF New
<1>4. \A u \in ObjectTypes : ~(u < 0)
  BY DEF ObjectTypes
<1>5. NamesTo(s, 0) = {}
  <2>1. {u \in ObjectTypes : u < 0} = {}
    BY <1>4
  <2>2. QED BY <2>1 DEF NamesTo
<1>6. GlobalsTo(s, 0) = [t \in ObjectTypes |-> <<>>]
  BY <1>4 DEF GlobalsTo
<1>7. e["globals"] = GlobalsTo(s, 0)
  BY <1>1, <1>2, <1>6, AllocIs
<1>8. \A m \in Names : m # "globals" =>
        e[m] = IF m \in {"game"} \/ m \in NamesTo(s, 0) THEN New(s, m) ELSE savegame_alloc[m]
  BY <1>1, <1>3, <1>5
<1>9. QED BY <1>1, <1>7, <1>8 DEF Part, e

\* What has been read of a save with its header.
CompressorSet(s) == IF supports_save_file_compression(s) THEN {"compressor"} ELSE {}
FrontNames(s) == ({"game"} \cup HeaderSet) \cup CompressorSet(s)

\* Some more fields, of a cursor that has come to their place.
LEMMA FieldsCome ==
  ASSUME NEW c, IsCursor(c), c.ok, NEW s, Good(s), NEW N, NEW k, Part(c.save, s, N, k),
         NEW ns \in Seq(PlainNames), At(c.octets, c.pos, StoreAll(s, ListOf(ns)))
  PROVE  Reads(LoadAll(c, ListOf(ns)), c, Len(StoreAll(s, ListOf(ns))), s, N \cup ToSet(ns), k)
<1>. DEFINE e == LoadAll(c, ListOf(ns)) o == StoreAll(s, ListOf(ns))
<1>1. IsSave(c.save)
  BY DEF Part
<1>2. AreLoaded(c, s, ns)
  BY <1>1, LoadAllAt
<1>3. CameTo(e, c, Len(o)) /\ Gained(e.save, c.save, s, ToSet(ns))
  BY <1>2 DEF AreLoaded
<1>. HIDE DEF e, o
<1>4. "globals" \notin ToSet(ns)
  <2>1. ToSet(ns) \subseteq PlainNames
    BY DEF ToSet
  <2>2. QED BY <2>1, NamesApart
<1>5. Part(e.save, s, N \cup ToSet(ns), k)
  BY <1>3, <1>4, PartMore
<1>6. QED BY <1>3, <1>5 DEF Reads, CameTo, e, o

\* The fields of the header.
LEMMA HeaderFieldsRead ==
  ASSUME NEW b, IsCursor(b), b.ok, b.pos = 0, NEW s, Sane(s),
         supports_save_file_compression(s) => Number(s["compressor"][1]) <= 2,
         b.octets = StoreAll(s, ListOf(FileHeaderNames(s))), Part(b.save, s, {"game"}, 0)
  PROVE  Comes(file_header(b), s, FrontNames(s), 0)
<1>. DEFINE hs == HeaderNames cs == <<"compressor">>
            x == StoreAll(s, ListOf(hs)) y == StoreAll(s, ListOf(cs))
            fixed == LoadAll(b, ListOf(hs)) full == LoadAll(fixed, ListOf(cs))
            N == {"game"} \cup HeaderSet M == N \cup {"compressor"}
<1>1. /\ hs \in Seq(PlainNames) /\ FileHeaderLoads = ListOf(hs) /\ ToSet(hs) = HeaderSet
      /\ cs \in Seq(PlainNames) /\ CompressorLoads = ListOf(cs) /\ ToSet(cs) = {"compressor"}
  BY HeaderList, HeaderSetIs, NamesTyped, OtherParts, TupleSet
<1>2. Good(s)
  BY SaneParts
<1>3. x \in Value /\ y \in Value
  BY <1>1, <1>2, ListStored
<1>4. file_header(b) = IF ~fixed.ok \/ ~supports_save_file_compression(fixed.save) THEN fixed
                       ELSE IF Number(full.save["compressor"][1]) > 2 THEN Refused(full) ELSE full
  BY <1>1 DEF file_header
<1>5. b.octets = IF supports_save_file_compression(s) THEN x \o y ELSE x
  <2>1. CASE supports_save_file_compression(s)
    <3>1. FileHeaderNames(s) = hs \o cs
      BY <2>1 DEF FileHeaderNames
    <3>. HIDE DEF hs, cs
    <3>2. ListOf(hs \o cs) = ListOf(hs) \o ListOf(cs) /\ hs \in Seq(AllNames) /\ cs \in Seq(AllNames)
      BY <1>1, PlainConcat, PlainIsName
    <3>3. StoreAll(s, ListOf(hs) \o ListOf(cs)) = x \o y
      BY <1>2, <3>2, StoreAllConcat
    <3>4. QED BY <2>1, <3>1, <3>2, <3>3
  <2>2. CASE ~supports_save_file_compression(s)
    <3>1. hs \o <<>> = hs
      BY <1>1
    <3>2. FileHeaderNames(s) = hs
      BY <2>2, <3>1 DEF FileHeaderNames
    <3>3. QED BY <2>2, <3>2
  <2>3. QED BY <2>1, <2>2
<1>. HIDE DEF hs, cs
<1>6. At(b.octets, 0, x)
  <2>. HIDE DEF x, y
  <2>1. CASE supports_save_file_compression(s)
    <3>1. b.octets = x \o y
      BY <1>5, <2>1
    <3>2. \A i \in 1..(Len(x) + Len(y)) : (x \o y)[i] = IF i <= Len(x) THEN x[i] ELSE y[i - Len(x)]
      BY <1>3, ConcatOctets
    <3>3. Len(x \o y) = Len(x) + Len(y) /\ Len(x) \in Nat /\ Len(y) \in Nat
      BY <1>3, ConcatIs
    <3>. DEFINE z == x \o y l == Len(x) m == Len(y)
    <3>4. \A i \in 1..l : z[0 + i] = x[i]
      <4>1. \A i \in 1..(l + m) : z[i] = IF i <= l THEN x[i] ELSE y[i - l]
        BY <3>2
      <4>2. l \in Nat /\ m \in Nat
        BY <3>3
      <4>. HIDE DEF z, l, m
      <4>3. QED BY <4>1, <4>2
    <3>5. QED BY <3>1, <3>3, <3>4 DEF At
  <2>2. CASE ~supports_save_file_compression(s)
    <3>1. b.octets = x /\ Len(x) \in Nat
      BY <1>3, <1>5, <2>2 DEF Value
    <3>2. \A i \in 1..Len(x) : 0 + i = i
      BY <3>1
    <3>3. QED BY <3>1, <3>2 DEF At
  <2>3. QED BY <2>1, <2>2
<1>7. Reads(fixed, b, Len(x), s, N, 0)
  <2>1. At(b.octets, b.pos, StoreAll(s, ListOf(hs)))
    BY <1>6
  <2>2. Reads(LoadAll(b, ListOf(hs)), b, Len(StoreAll(s, ListOf(hs))), s, {"game"} \cup ToSet(hs), 0)
    BY <1>1, <1>2, <2>1, FieldsCome
  <2>3. QED BY <1>1, <2>2
<1>. HIDE DEF fixed, x, y
<1>8. IsCursor(fixed) /\ fixed.ok /\ fixed.octets = b.octets /\ fixed.pos = Len(x) /\ Part(fixed.save, s, N, 0)
  <2>1. IsCursor(fixed) /\ fixed.ok /\ fixed.octets = b.octets /\ fixed.pos = b.pos + Len(x)
        /\ Part(fixed.save, s, N, 0)
    BY <1>7 DEF Reads, CameTo
  <2>2. Len(x) \in Nat
    BY <1>3 DEF Value
  <2>3. QED BY <2>1, <2>2
<1>9. "game" \in N /\ "file_version" \in N
  BY DEF HeaderSet
<1>. HIDE DEF N
<1>10. supports_save_file_compression(fixed.save) <=> supports_save_file_compression(s)
  <2>1. fixed.save["game"] = s["game"]
    BY <1>8, <1>9, PartGame
  <2>2. fixed.save["file_version"] = s["file_version"]
    BY <1>2, <1>8, <1>9, PartNumber
  <2>3. QED BY <2>1, <2>2, SameFormat
<1>11. CASE ~supports_save_file_compression(s)
  <2>1. FrontNames(s) = N
    BY <1>11 DEF FrontNames, CompressorSet, N
  <2>2. QED BY <1>4, <1>8, <1>10, <1>11, <2>1 DEF Comes
<1>12. CASE supports_save_file_compression(s)
  <2>1. At(fixed.octets, fixed.pos, y)
    <3>1. b.octets = x \o y
      BY <1>5, <1>12
    <3>2. At(x \o y, Len(x), y)
      BY <1>3, FrontConcat
    <3>3. QED BY <1>8, <3>1, <3>2
  <2>2. Reads(full, fixed, Len(y), s, M, 0)
    <3>1. At(fixed.octets, fixed.pos, StoreAll(s, ListOf(cs)))
      BY <2>1 DEF y
    <3>2. Reads(LoadAll(fixed, ListOf(cs)), fixed, Len(StoreAll(s, ListOf(cs))), s,
                N \cup ToSet(cs), 0)
      BY <1>1, <1>2, <1>8, <3>1, FieldsCome
    <3>3. QED BY <1>1, <3>2 DEF y
  <2>. HIDE DEF full
  <2>3. IsCursor(full) /\ full.ok /\ Part(full.save, s, M, 0)
    BY <2>2 DEF Reads, CameTo
  <2>4. full.save["compressor"] = s["compressor"]
    BY <1>2, <2>3, PartNumber
  <2>5. ~(Number(full.save["compressor"][1]) > 2)
    <3>1. Number(s["compressor"][1]) \in Nat
      BY <1>2, NumbersOf
    <3>2. QED BY <1>12, <2>4, <3>1
  <2>6. FrontNames(s) = M
    BY <1>12 DEF FrontNames, CompressorSet, N
  <2>7. QED BY <1>4, <1>8, <1>10, <1>12, <2>3, <2>5, <2>6 DEF Comes
<1>13. QED BY <1>11, <1>12

\* The header that was written is read.
LEMMA HeaderIsRead ==
  ASSUME NEW c, IsCursor(c), c.ok, Len(c.octets) < TooMany, NEW s, Sane(s),
         supports_save_file_compression(s) => Number(s["compressor"][1]) <= 2,
         Part(c.save, s, {"game"}, 0), At(c.octets, c.pos, HeaderPart(s))
  PROVE  Reads(HeaderOf(c), c, Len(HeaderPart(s)), s, FrontNames(s), 0)
<1>1. Good(s)
  BY SaneParts
<1>. DEFINE ns == FileHeaderNames(s) o == StoreAll(s, ListOf(ns)) w == HeaderPart(s)
            b == BlockOf(c, 4, Len(o)) e == file_header(b)
<1>2. o \in Value /\ w = LE(Len(o), 4) \o o
  BY <1>1, HeaderTyped
<1>. HIDE DEF ns, o
<1>3. /\ NumberAt(c, 0, 4) = Len(o) /\ Len(o) \in Nat /\ 4 + Len(o) <= Left(c)
      /\ IsCursor(b) /\ b.octets = o /\ b.pos = 0 /\ b.ok = c.ok /\ b.save = c.save
      /\ Len(w) = 4 + Len(o)
  <2>. HIDE DEF w
  <2>1. At(c.octets, c.pos, w)
    BY DEF w
  <2>2. w = LE(Len(o), 4) \o o /\ o \in Value
    BY <1>2
  <2>3. LET bb == BlockOf(c, 4, Len(o))
        IN  /\ NumberAt(c, 0, 4) = Len(o) /\ Len(o) \in Nat /\ 4 + Len(o) <= Left(c)
            /\ IsCursor(bb) /\ bb.octets = o /\ bb.pos = 0 /\ bb.ok = c.ok /\ bb.save = c.save
            /\ Len(w) = 4 + Len(o)
    BY ONLY IsCursor(c), Len(c.octets) < TooMany, <2>1, <2>2, SizedAt
  <2>4. QED BY <2>3
<1>. HIDE DEF b, w
<1>4. Comes(e, s, FrontNames(s), 0)
  <2>1. b.octets = StoreAll(s, ListOf(FileHeaderNames(s)))
    BY <1>3 DEF o, ns
  <2>2. QED BY <1>3, <2>1, HeaderFieldsRead
<1>. HIDE DEF e
<1>5. IsCursor(e) /\ e.ok /\ Part(e.save, s, FrontNames(s), 0)
  BY <1>4 DEF Comes
<1>. DEFINE d == InsideOf(c, 4, Len(o), e) m == Len(o)
<1>6. HeaderOf(c) = d
  BY <1>3, HeaderIsOf DEF b, e
<1>7. IsBehind(d, c, 4 + m, e)
  <2>1. 4 \in Nat /\ m \in Nat /\ 4 + m <= Left(c)
    BY <1>3
  <2>2. d = InsideOf(c, 4, m, e)
    OBVIOUS
  <2>. HIDE DEF m, d
  <2>3. QED BY <1>5, <2>1, <2>2, InsideIs
<1>. HIDE DEF d
<1>8. CameTo(d, c, Len(w)) /\ d.ok /\ d.save = e.save
  BY <1>3, <1>5, <1>7 DEF IsBehind, CameTo
<1>9. QED BY <1>5, <1>6, <1>8 DEF Reads, w

\* The snapshot that was written is read.
LEMMA SnapshotRead ==
  ASSUME NEW c, IsCursor(c), c.ok, NEW s, Sane(s), HasSnapshot(s, snapshot_size(s)),
         NEW N, "game" \in N, HeaderSet \subseteq N, Part(c.save, s, N, 0),
         At(c.octets, c.pos, SnapshotPart(s))
  PROVE  Reads(read_snapshot(c), c, Len(SnapshotPart(s)), s, N \cup {"snapshot_data"}, 0)
<1>. DEFINE n == snapshot_size(s) z == <<>> b == [c EXCEPT !.got = z] e == Take(b, 0, n, "chunk")
            d == read_snapshot(c) m == "snapshot_data"
<1>1. PICK x \in Value : Len(x) = n /\ s["snapshot_data"] = <<x>>
  BY DEF HasSnapshot
<1>2. SnapshotPart(s) = x
  BY <1>1, FlattenOne DEF SnapshotPart
<1>3. Good(s)
  BY SaneParts
<1>4. snapshot_size(c.save) = n
  <2>1. c.save["game"] = s["game"]
    BY PartGame
  <2>2. "file_version" \in N /\ "snapshot_width" \in N /\ "snapshot_height" \in N
    BY DEF HeaderSet
  <2>3. /\ c.save["file_version"] = s["file_version"]
        /\ c.save["snapshot_width"] = s["snapshot_width"]
        /\ c.save["snapshot_height"] = s["snapshot_height"]
    BY <1>3, <2>2, PartNumber
  <2>4. QED BY <2>1, <2>3, SameFormat
<1>5. z \in Seq(Value)
  OBVIOUS
<1>6. d = [e EXCEPT !.save[m] = e.got]
  BY <1>4 DEF read_snapshot
<1>. HIDE DEF n, z, d
<1>7. IsCursor(b) /\ b.octets = c.octets /\ b.pos = c.pos /\ b.ok = c.ok /\ b.save = c.save /\ b.got = z
  <2>. HIDE DEF b
  <2>1. b = [c EXCEPT !.got = z]
    BY DEF b
  <2>2. b = [octets |-> c.octets, pos |-> c.pos, ok |-> c.ok, got |-> z, save |-> c.save]
    BY <2>1, Edits, Zenon
  <2>3. b.octets = c.octets /\ b.pos = c.pos /\ b.ok = c.ok /\ b.got = z /\ b.save = c.save
    BY <2>2
  <2>4. c.octets \in Value /\ c.pos \in Nat /\ c.pos <= Len(c.octets) /\ c.ok \in BOOLEAN
    BY Zenon DEF IsCursor
  <2>5. IsCursor(b)
    BY <1>5, <2>2, <2>3, <2>4, Zenon DEF IsCursor
  <2>6. QED BY <2>3, <2>5
<1>. HIDE DEF b
<1>8. At(b.octets, b.pos + 0, x) /\ n \in Nat /\ b.pos \in Nat /\ 0 + n = n
  <2>1. b.pos \in Nat /\ n \in Nat
    BY <1>1, <1>7 DEF IsCursor, Value
  <2>2. b.pos + 0 = b.pos /\ 0 + n = n
    BY <2>1
  <2>3. QED BY <1>2, <1>7, <2>1, <2>2
<1>9. e = Moved(b, n, x)
  <2>1. 0 \in Nat
    OBVIOUS
  <2>2. Take(b, 0, Len(x), "chunk") = Moved(b, 0 + Len(x), Loaded("chunk", x))
    BY <1>7, <1>8, <2>1, TakeAt
  <2>3. Loaded("chunk", x) = x
    BY DEF Loaded
  <2>4. QED BY <1>1, <1>8, <2>2, <2>3
<1>10. e = Further(b, n, <<x>>)
  <2>1. Append(z, x) = <<x>>
    BY DEF z
  <2>2. Moved(b, n, x) = Further(b, n, Append(b.got, x))
    <3>1. IsCursor(b)
      BY <1>7
    <3>2. QED BY <3>1, Edited, Zenon DEF Moved, Further
  <2>3. Append(b.got, x) = <<x>>
    BY <1>7, <2>1
  <2>4. QED BY <1>9, <2>2, <2>3
<1>. HIDE DEF e
<1>11. /\ IsCursor(e) /\ e.octets = b.octets /\ e.pos = b.pos + n /\ e.ok = b.ok /\ e.got = <<x>>
       /\ e.save = b.save
  <2>. DEFINE v == <<x>>
  <2>1. v \in Seq(Value)
    OBVIOUS
  <2>2. b.pos + n <= Len(b.octets)
    BY <1>1, <1>2, <1>7 DEF At
  <2>3. e = Further(b, n, v)
    BY <1>10
  <2>. HIDE DEF v
  <2>4. IsCursor(Further(b, n, v))
    BY <1>7, <1>8, <2>1, <2>2, FurtherCursor
  <2>5. /\ Further(b, n, v).octets = b.octets /\ Further(b, n, v).pos = b.pos + n
        /\ Further(b, n, v).ok = b.ok /\ Further(b, n, v).got = v
        /\ Further(b, n, v).save = b.save
    BY DEF Further
  <2>6. QED BY <2>3, <2>4, <2>5 DEF v
<1>12. IsSet(d, e, m, <<x>>)
  <2>. HIDE DEF m
  <2>1. d = [e EXCEPT !.save[m] = e.got] /\ e.got = <<x>>
    BY <1>6, <1>11
  <2>. DEFINE v == <<x>>
  <2>. HIDE DEF v
  <2>2. d = [e EXCEPT !.save[m] = v]
    BY <2>1 DEF v
  <2>3. QED BY <1>11, <2>2, SaveSet DEF v
<1>13. CameTo(d, c, Len(SnapshotPart(s))) /\ d.ok
  BY <1>1, <1>2, <1>7, <1>11, <1>12 DEF IsSet, CameTo
<1>14. SetTo(d.save, c.save, m, s[m])
  <2>1. IsSave(c.save) /\ m \in Names
    BY DEF Part, Names, OtherNames
  <2>2. d.save = [c.save EXCEPT ![m] = s[m]]
    BY <1>1, <1>7, <1>11, <1>12 DEF IsSet
  <2>. HIDE DEF m
  <2>3. SetTo([c.save EXCEPT ![m] = s[m]], c.save, m, s[m])
    BY <2>1, SaveExcept
  <2>4. QED BY <2>2, <2>3
<1>15. Part(d.save, s, N \cup {m}, 0)
  BY <1>14, PartOther
<1>16. QED BY <1>13, <1>15 DEF Reads, d

\* The body is at the cursor, as it is or compressed.
BodyAhead(c, s) ==
  IF ~supports_save_file_compression(s) THEN BodyIs(c.octets, c.pos, s)
  ELSE /\ Number(s.compressor[1]) = 2
       /\ \E data : BodyIs(data, 0, s) /\ Packable(data) /\ At(c.octets, c.pos, Packed(data))

BodyFound(d, c, s) ==
  /\ IsCursor(d) /\ d.ok /\ Len(d.octets) < TooMany /\ d.save = c.save
  /\ BodyIs(d.octets, d.pos, s)

\* What is packed, piece by piece.
PackedAt(c, data) ==
  LET x == Compressed(data)
  IN  /\ NumberAt(c, 0, 4) = Len(data) /\ NumberAt(c, 4, 4) = Len(x) /\ Piece(c, 8, Len(x)) = x
      /\ 8 + Len(x) <= Left(c) /\ Len(data) < TooMany

\* What the reader finds of a packed body: the two sizes and the octets.
LEMMA PackedIsAt ==
  ASSUME NEW c, IsCursor(c), Len(c.octets) < TooMany, NEW data, Packable(data),
         At(c.octets, c.pos, Packed(data))
  PROVE  PackedAt(c, data)
<1>. DEFINE x == Compressed(data) l == Len(data) m == Len(x) a == LE(l, 4) b == LE(m, 4)
            p == c.pos y == c.octets
<1>1. x \in Value /\ l < TooMany /\ l \in Nat /\ m \in Nat
  BY DEF Packable, Value
<1>2. Packed(data) = a \o (b \o x)
  BY DEF Packed
<1>. HIDE DEF x, l, m
<1>3. a \in Value /\ Len(a) = 4 /\ b \in Value /\ Len(b) = 4
  <2>1. l \in Int /\ m \in Int /\ 4 \in {1, 2, 4}
    BY <1>1
  <2>2. QED BY <2>1, LEIs
<1>. HIDE DEF a, b
<1>4. y \in Value /\ p \in Nat /\ Len(y) \in Nat /\ Len(y) < TooMany
  BY DEF IsCursor, Value
<1>5. b \o x \in Value
  BY <1>1, <1>3, ConcatIs
<1>6. At(y, p, a) /\ At(y, p + 4, b \o x)
  <2>1. At(y, p, a \o (b \o x)) /\ 4 \in Nat
    BY <1>2
  <2>. DEFINE w == b \o x k == 4
  <2>2. w \in Value /\ k \in Nat /\ Len(a) = k /\ At(y, p, a \o w)
    BY <1>3, <1>5, <2>1
  <2>. HIDE DEF w, k, y, p
  <2>3. At(y, p, a) /\ At(y, p + k, w)
    BY <1>3, <1>4, <2>2, SplitAt
  <2>4. QED BY <2>3 DEF w, k
<1>7. At(y, p + 4, b) /\ At(y, (p + 4) + 4, x)
  <2>. DEFINE k == 4 q == p + 4
  <2>1. q \in Nat /\ k \in Nat /\ Len(b) = k /\ At(y, q, b \o x)
    BY <1>3, <1>4, <1>6
  <2>. HIDE DEF k, q, y, p
  <2>2. At(y, q, b) /\ At(y, q + k, x)
    BY <1>1, <1>3, <1>4, <2>1, SplitAt
  <2>3. QED BY <2>2 DEF k, q
<1>8. (p + 4) + 4 = p + 8 /\ p + 0 = p
  BY <1>4
<1>. HIDE DEF p, y
<1>9. l < TooMany /\ m < TooMany
  <2>1. (p + 8) + m <= Len(y)
    BY <1>7, <1>8 DEF At, m
  <2>2. QED BY <1>1, <1>4, <2>1, TooManyIs
<1>10. l < Numbers(4) /\ m < Numbers(4)
  BY <1>9, NumbersIs
<1>11. NumberAt(c, 0, 4) = l
  <2>1. 0 \in Nat /\ 4 \in {1, 2, 4} /\ At(c.octets, c.pos + 0, LE(l, 4))
    BY <1>6, <1>8 DEF a, p, y
  <2>2. QED BY <1>1, <1>10, <2>1, NumberIsAt
<1>12. NumberAt(c, 4, 4) = m
  <2>1. 4 \in Nat /\ 4 \in {1, 2, 4} /\ At(c.octets, c.pos + 4, LE(m, 4))
    BY <1>7 DEF b, p, y
  <2>2. QED BY <1>1, <1>10, <2>1, NumberIsAt
<1>13. Piece(c, 8, m) = x /\ 8 + m <= Left(c)
  <2>1. 8 \in Nat /\ At(c.octets, c.pos + 8, x)
    BY <1>7, <1>8 DEF p, y
  <2>2. Piece(c, 8, Len(x)) = x /\ 8 + Len(x) <= Left(c)
    BY <1>1, <2>1, PieceAt
  <2>3. QED BY <2>2 DEF m
<1>14. QED BY <1>9, <1>11, <1>12, <1>13 DEF PackedAt, x, l, m

\* The body that was written is found.
LEMMA BodyIsFound ==
  ASSUME NEW c, IsCursor(c), c.ok, Len(c.octets) < TooMany, NEW s, Sane(s), NEW N,
         "game" \in N, HeaderSet \cup CompressorSet(s) \subseteq N, Part(c.save, s, N, 0),
         BodyAhead(c, s)
  PROVE  BodyFound(find_body(c), c, s)
<1>1. Good(s)
  BY SaneParts
<1>2. supports_save_file_compression(c.save) <=> supports_save_file_compression(s)
  <2>1. c.save["game"] = s["game"]
    BY PartGame
  <2>2. "file_version" \in N
    BY DEF HeaderSet
  <2>3. c.save["file_version"] = s["file_version"]
    BY <1>1, <2>2, PartNumber
  <2>4. QED BY <2>1, <2>3, SameFormat
<1>3. CASE ~supports_save_file_compression(s)
  <2>1. find_body(c) = c
    BY <1>2, <1>3 DEF find_body
  <2>2. BodyIs(c.octets, c.pos, s)
    BY <1>3 DEF BodyAhead
  <2>3. QED BY <2>1, <2>2 DEF BodyFound
<1>4. CASE supports_save_file_compression(s)
  <2>. DEFINE d == find_body(c) room == NumberAt(c, 0, 4) size == NumberAt(c, 4, 4)
              o == Piece(c, 8, size) r == Decompressed(o, room)
  <2>1. c.save["compressor"] = s["compressor"]
    <3>1. "compressor" \in N
      BY <1>4 DEF CompressorSet
    <3>2. QED BY <1>1, <3>1, PartNumber
  <2>2. Number(s["compressor"][1]) = 2
    BY <1>4 DEF BodyAhead
  <2>3. PICK data : /\ BodyIs(data, 0, s) /\ Packable(data)
                    /\ At(c.octets, c.pos, Packed(data))
    BY <1>4 DEF BodyAhead
  <2>4. data \in Value /\ Compressed(data) \in Value
    BY <2>3 DEF Packable
  <2>5. PackedAt(c, data)
    BY <2>3, PackedIsAt
  <2>6. d = IF ~supports_save_file_compression(c.save) THEN c
            ELSE IF Number(c.save["compressor"][1]) = 0 THEN Advance(c, 16)
            ELSE IF 8 + size > Left(c) THEN Refused(c)
            ELSE [c EXCEPT !.octets = r.octets, !.pos = 0, !.ok = r.ok]
    BY DEF find_body
  <2>. HIDE DEF d
  <2>7. room = Len(data) /\ size = Len(Compressed(data)) /\ o = Compressed(data)
        /\ 8 + size <= Left(c) /\ Len(data) < TooMany
    BY <2>5 DEF PackedAt
  <2>8. r = [ok |-> TRUE, octets |-> data]
    BY <2>3, <2>7 DEF Packable
  <2>9. ~(8 + size > Left(c))
    <3>1. Left(c) \in Nat /\ size \in Nat
      BY <2>4, <2>7, LeftIs DEF Value
    <3>. HIDE DEF size
    <3>2. QED BY <2>7, <3>1
  <2>. HIDE DEF r, room, size, o
  <2>10. d = [c EXCEPT !.octets = data, !.pos = 0, !.ok = TRUE]
    BY <1>2, <1>4, <2>1, <2>2, <2>6, <2>8, <2>9
  <2>. DEFINE z == 0 k == TRUE
  <2>11. d = [octets |-> data, pos |-> z, ok |-> k, got |-> c.got, save |-> c.save]
    BY <2>10, EditedBody
  <2>12. z \in Nat /\ z <= Len(data) /\ k \in BOOLEAN
    BY <2>4 DEF Value
  <2>. HIDE DEF z, k
  <2>13. d.octets = data /\ d.pos = z /\ d.ok = k /\ d.got = c.got /\ d.save = c.save
    BY <2>11
  <2>14. c.got \in Seq(Value)
    BY DEF IsCursor
  <2>15. IsCursor(d)
    BY <2>4, <2>11, <2>12, <2>13, <2>14, Zenon DEF IsCursor
  <2>16. QED BY <2>3, <2>7, <2>13, <2>15 DEF BodyFound, d, z, k
<1>5. QED BY <1>3, <1>4
-----------------------------------------------------------------------------
(* How short a file may be. *)

LEMMA Product ==
  ASSUME NEW w \in Nat, NEW n \in Nat
  PROVE  w * n \in Nat /\ w * (n + 1) = w * n + w /\ w * 0 = 0
OBVIOUS

\* Elements of at least w octets each.
LEMMA PiecesLong ==
  ASSUME NEW w \in Nat, NEW ks \in Seq({k \in Kinds : MinWidth(k) >= w}), NEW vs,
         AllStorable(ks, vs)
  PROVE  /\ ks \in Seq(Kinds) /\ Len(FlattenSeq(Pieces(ks, vs))) \in Nat
         /\ Len(FlattenSeq(Pieces(ks, vs))) >= w * Len(ks)
<1>. DEFINE K == {k \in Kinds : MinWidth(k) >= w}
            O(ls, ws) == Len(FlattenSeq(Pieces(ls, ws)))
            Long1(ls, ws) == O(ls, ws) >= w * Len(ls)
            T == {ls \in Seq(K) : \A ws : AllStorable(ls, ws) => Long1(ls, ws)}
<1>0. \A ls \in Seq(K) : ls \in Seq(Kinds)
  OBVIOUS
<1>1. <<>> \in T
  <2>1. ASSUME NEW ws PROVE Long1(<<>>, ws)
    <3>1. Pieces(<<>>, ws) = <<>> /\ Len(<<>>) = 0
      BY DEF Pieces
    <3>2. O(<<>>, ws) = 0
      BY <3>1, FlattenEmpty
    <3>3. w * 0 = 0
      BY Product
    <3>4. QED BY <3>1, <3>2, <3>3
  <2>2. <<>> \in Seq(K)
    OBVIOUS
  <2>. HIDE DEF Long1
  <2>3. QED BY <2>1, <2>2
<1>2. ASSUME NEW ls \in Seq(K), NEW k \in K, ls \in T PROVE Append(ls, k) \in T
  <2>0. ls \in Seq(Kinds) /\ k \in Kinds /\ MinWidth(k) >= w /\ Append(ls, k) \in Seq(K)
        /\ Len(Append(ls, k)) = Len(ls) + 1 /\ Len(ls) \in Nat
    BY <1>0
  <2>1. SUFFICES ASSUME NEW ws, AllStorable(Append(ls, k), ws) PROVE Long1(Append(ls, k), ws)
    <3>. HIDE DEF Long1
    <3>1. QED BY <2>0, <2>1
  <2>2. PICK us, v : IsOneMore(ls, k, ws, us, v)
    <3>. HIDE DEF O, Long1, T, K
    <3>1. QED BY <2>0, <2>1, ElementsAppend, Zenon
  <2>3. /\ AllStorable(ls, us) /\ Storable(k, v)
        /\ Pieces(Append(ls, k), ws) = Append(Pieces(ls, us), Stored(k, v))
    BY <2>2, Zenon DEF IsOneMore
  <2>. DEFINE a == FlattenSeq(Pieces(ls, us)) b == Stored(k, v)
  <2>4. Pieces(ls, us) \in Seq(Value) /\ a \in Value
    BY <2>0, <2>3, PiecesTyped, Zenon
  <2>5. b \in Value /\ Len(b) >= MinWidth(k)
    BY <2>0, <2>3, StoredTyped, StoredLength, Zenon
  <2>6. MinWidth(k) \in Int
    BY <2>0, WidthIs DEF MinWidth, Kinds
  <2>7. FlattenSeq(Pieces(Append(ls, k), ws)) = a \o b
    BY <2>3, <2>4, <2>5, FlattenAppend DEF Value
  <2>8. Len(a \o b) = Len(a) + Len(b) /\ Len(a) \in Nat /\ Len(b) \in Nat
    BY <2>4, <2>5, ConcatIs, Zenon
  <2>9. Len(a) >= w * Len(ls)
    BY <1>2, <2>3
  <2>. DEFINE x == Len(a) y == Len(b) n == Len(ls) p == w * n m == MinWidth(k)
  <2>10. w * (n + 1) = p + w /\ p \in Nat
    BY <2>0, Product
  <2>11. x \in Nat /\ y \in Nat /\ m \in Int /\ y >= m /\ m >= w /\ x >= p
    BY <2>0, <2>5, <2>6, <2>8, <2>9
  <2>12. O(Append(ls, k), ws) = x + y /\ Len(Append(ls, k)) = n + 1
    BY <2>0, <2>7, <2>8
  <2>. HIDE DEF x, y, p, m
  <2>13. x + y >= p + w
    BY ONLY <2>10, <2>11, w \in Nat
  <2>14. QED BY <2>10, <2>12, <2>13
<1>3. ks \in T
  <2>. HIDE DEF T
  <2>1. \A ls \in Seq(K) : ls \in T
    BY <1>1, <1>2, InductionOver
  <2>2. QED BY <2>1
<1>4. Long1(ks, vs)
  <2>. HIDE DEF Long1
  <2>1. QED BY <1>3
<1>5. ks \in Seq(Kinds) /\ FlattenSeq(Pieces(ks, vs)) \in Value
  BY <1>0, PiecesTyped
<1>6. QED BY <1>4, <1>5 DEF Value

\* A field of one element, of which every part has w octets or more.
LEMMA OneLong ==
  ASSUME NEW s, Good(s), NEW n \in PlainNames, CountOf(n) = "one", NEW w \in Nat,
         KindsNamed(n) \in Seq({k \in Kinds : MinWidth(k) >= w})
  PROVE  /\ Store(s, FieldNamed(n)) \in Value /\ Len(Store(s, FieldNamed(n))) \in Nat
         /\ Len(Store(s, FieldNamed(n))) >= w * Len(KindsNamed(n))
<1>. DEFINE f == FieldNamed(n) v == s[n] K == {k \in Kinds : MinWidth(k) >= w} ks == KindsNamed(n)
<1>1. f.name = n /\ f.count = "one" /\ f.kinds = ks /\ IsField(f)
  BY FieldNamedIs, NamesApart
<1>2. FieldOK(f, s[f.name])
  BY <1>1 DEF Good
<1>3. Store(s, f) \in Value
  BY <1>1, <1>2, StoreTyped
<1>. HIDE DEF f
<1>4. PICK m \in Nat : Parts(s, f, m)
  BY <1>1, <1>2, StoreIs
<1>5. m = 1
  BY <1>1, <1>4 DEF Parts, CountOK
<1>. HIDE DEF ks
<1>6. KindsOf(f, 1) = ks
  <2>1. [i \in 1..1 |-> ks] = <<ks>>
    OBVIOUS
  <2>2. ks \in Seq(K) /\ <<>> \in Seq(Seq(K)) /\ <<ks>> = Append(<<>>, ks) /\ <<>> \o ks = ks
    BY DEF ks
  <2>3. FlattenSeq(Append(<<>>, ks)) = FlattenSeq(<<>>) \o ks
    <3>. HIDE DEF K
    <3>1. QED BY <2>2, FlattenAppend
  <2>4. QED BY <1>1, <2>1, <2>2, <2>3, FlattenEmpty DEF KindsOf
<1>7. StoredCount("one", 1) = <<>>
  BY DEF StoredCount
<1>8. AllStorable(ks, v) /\ Store(s, f) = <<>> \o FlattenSeq(Pieces(ks, v))
  BY <1>1, <1>4, <1>5, <1>6, <1>7 DEF Parts
<1>9. /\ ks \in Seq(Kinds) /\ Len(FlattenSeq(Pieces(ks, v))) >= w * Len(ks)
  BY <1>8, PiecesLong DEF ks
<1>10. FlattenSeq(Pieces(ks, v)) \in Value
  BY <1>8, <1>9, PiecesTyped
<1>11. Store(s, f) = FlattenSeq(Pieces(ks, v))
  BY <1>8, <1>10 DEF Value
<1>12. QED BY <1>3, <1>9, <1>11 DEF f, ks, Value

\* The least number of octets of such a field.
LeastOf(n) ==
  IF n = "data1" THEN 24 ELSE MinWidth(KindsNamed(n)[1])
Ones == {n \in PlainNames : CountOf(n) = "one"}

\* A field without a count is stored with at least so many octets.
LEMMA OneLeast ==
  ASSUME NEW s, Good(s), NEW n \in Ones
  PROVE  /\ Store(s, FieldNamed(n)) \in Value /\ Len(Store(s, FieldNamed(n))) \in Nat
         /\ LeastOf(n) \in Nat /\ Len(Store(s, FieldNamed(n))) >= LeastOf(n)
<1>0. n \in PlainNames /\ CountOf(n) = "one"
  BY DEF Ones
<1>1. CASE n = "data1"
  <2>. DEFINE ks == <<"le32", "le32", "le32", "le32", "le32", "le32">> w == 4
  <2>1. KindsNamed(n) = ks
    BY <1>1 DEF KindsNamed
  <2>2. "le32" \in {k \in Kinds : MinWidth(k) >= w}
    BY WidthIs DEF Kinds, MinWidth
  <2>3. w \in Nat /\ w * 6 = 24 /\ Len(ks) = 6
    OBVIOUS
  <2>4. ks \in Seq({k \in Kinds : MinWidth(k) >= w})
    <3>1. ASSUME NEW X, NEW x \in X PROVE <<x, x, x, x, x, x>> \in Seq(X)
      OBVIOUS
    <3>2. QED BY <2>2, <3>1
  <2>. HIDE DEF ks, w
  <2>5. Len(Store(s, FieldNamed(n))) >= w * 6 /\ Store(s, FieldNamed(n)) \in Value
    BY <1>0, <2>1, <2>3, <2>4, OneLong
  <2>6. QED BY <1>1, <2>3, <2>5 DEF LeastOf, Value
<1>2. CASE n # "data1"
  <2>1. KindsNamed(n) = <<KindsNamed(n)[1]>> /\ KindsNamed(n)[1] \in Kinds
    BY <1>0, <1>2 DEF KindsNamed, PlainNames, CountOf, Kinds
  <2>. DEFINE k == KindsNamed(n)[1] w == MinWidth(k)
  <2>. HIDE DEF k
  <2>2. KindsNamed(n) = <<k>> /\ k \in Kinds
    BY <2>1 DEF k
  <2>3. w \in Nat /\ w >= w
    BY <2>2, WidthIs DEF MinWidth, Kinds
  <2>. HIDE DEF w
  <2>4. <<k>> \in Seq({j \in Kinds : MinWidth(j) >= w}) /\ Len(<<k>>) = 1 /\ w * 1 = w
    BY <2>2, <2>3 DEF w
  <2>5. Len(Store(s, FieldNamed(n))) >= w * 1 /\ Store(s, FieldNamed(n)) \in Value
    BY <1>0, <2>2, <2>3, <2>4, OneLong
  <2>6. LeastOf(n) = w
    BY <1>2 DEF LeastOf, w, k
  <2>7. QED BY <2>3, <2>4, <2>5, <2>6 DEF Value
<1>3. QED BY <1>1, <1>2

\* What is stored of some fields has k octets or more.
Long(s, ns, k) ==
  /\ ns \in Seq(PlainNames) /\ k \in Nat
  /\ Len(StoreAll(s, ListOf(ns))) \in Nat /\ Len(StoreAll(s, ListOf(ns))) >= k

\* No fields have no octets.
LEMMA LongNone ==
  ASSUME NEW s
  PROVE  Long(s, <<>>, 0)
<1>1. ListOf(<<>>) = <<>>
  BY DEF ListOf
<1>2. StoreAll(s, ListOf(<<>>)) = <<>>
  BY <1>1, StoreAllNone
<1>3. QED BY <1>2 DEF Long

\* One more field has its least octets more.
LEMMA LongMore ==
  ASSUME NEW s, Good(s), NEW ns, NEW k, Long(s, ns, k), NEW n \in Ones
  PROVE  Long(s, Append(ns, n), k + LeastOf(n))
<1>. DEFINE x == StoreAll(s, ListOf(ns)) y == Store(s, FieldNamed(n)) w == LeastOf(n)
<1>1. ns \in Seq(PlainNames) /\ ns \in Seq(AllNames) /\ n \in PlainNames /\ n \in AllNames
      /\ Append(ns, n) \in Seq(PlainNames)
  BY PlainIsName DEF Long, Ones, AllNames
<1>2. StoreAll(s, ListOf(Append(ns, n))) = x \o y /\ x \in Value
  BY <1>1, ListAppend, StoreAllMore
<1>3. y \in Value /\ w \in Nat /\ Len(y) >= w
  BY OneLeast
<1>4. Len(x \o y) = Len(x) + Len(y) /\ Len(x) \in Nat /\ Len(y) \in Nat
  BY <1>2, <1>3, ConcatIs
<1>5. k \in Nat /\ Len(x) >= k
  BY DEF Long
<1>. HIDE DEF x, y, w
<1>6. k + w \in Nat /\ Len(x \o y) \in Nat /\ Len(x \o y) >= k + w
  <2>. DEFINE a == Len(x) b == Len(y) d == Len(x \o y)
  <2>1. a \in Nat /\ b \in Nat /\ d = a + b /\ a >= k /\ b >= w /\ k \in Nat /\ w \in Nat
    BY <1>3, <1>4, <1>5
  <2>. HIDE DEF a, b, d
  <2>2. k + w \in Nat /\ d \in Nat /\ d >= k + w
    BY ONLY <2>1
  <2>3. QED BY <2>2 DEF d
<1>7. QED BY <1>1, <1>2, <1>6 DEF Long, w

\* Two lists of fields have the octets of both.
LEMMA LongConcat ==
  ASSUME NEW s, Good(s), NEW ns, NEW k, Long(s, ns, k), NEW ms, NEW m, Long(s, ms, m)
  PROVE  Long(s, ns \o ms, k + m)
<1>. DEFINE x == StoreAll(s, ListOf(ns)) y == StoreAll(s, ListOf(ms))
<1>1. ns \in Seq(PlainNames) /\ ms \in Seq(PlainNames) /\ ns \in Seq(AllNames) /\ ms \in Seq(AllNames)
      /\ k \in Nat /\ m \in Nat /\ Len(x) >= k /\ Len(y) >= m
  BY PlainIsName DEF Long
<1>2. ns \o ms \in Seq(PlainNames) /\ ListOf(ns \o ms) = ListOf(ns) \o ListOf(ms)
  BY <1>1, PlainConcat
<1>3. StoreAll(s, ListOf(ns \o ms)) = x \o y
  BY <1>1, <1>2, StoreAllConcat
<1>4. x \in Value /\ y \in Value
  BY <1>1, ListStored
<1>5. Len(x \o y) = Len(x) + Len(y) /\ Len(x) \in Nat /\ Len(y) \in Nat
  BY <1>4, ConcatIs
<1>. HIDE DEF x, y
<1>6. k + m \in Nat /\ Len(x \o y) \in Nat /\ Len(x \o y) >= k + m
  <2>. DEFINE a == Len(x) b == Len(y) d == Len(x \o y)
  <2>1. a \in Nat /\ b \in Nat /\ d = a + b /\ a >= k /\ b >= m /\ k \in Nat /\ m \in Nat
    BY <1>1, <1>5
  <2>. HIDE DEF a, b, d
  <2>2. k + m \in Nat /\ d \in Nat /\ d >= k + m
    BY ONLY <2>1
  <2>3. QED BY <2>2 DEF d
<1>7. QED BY <1>2, <1>3, <1>6 DEF Long

\* Short lists of fields.
LEMMA LongStep ==
  ASSUME NEW s, Good(s), NEW ns, NEW k, Long(s, ns, k), NEW n \in Ones, NEW t, t = Append(ns, n),
         NEW m, m = k + LeastOf(n)
  PROVE  Long(s, t, m)
BY LongMore

\* One field.
LEMMA Long1 ==
  ASSUME NEW s, Good(s), NEW a \in Ones
  PROVE  Long(s, <<a>>, LeastOf(a))
<1>1. Append(<<>>, a) = <<a>>
  OBVIOUS
<1>2. LeastOf(a) \in Nat /\ LeastOf(a) = 0 + LeastOf(a)
  <2>1. LeastOf(a) \in Nat
    BY OneLeast
  <2>2. QED BY <2>1
<1>3. QED BY <1>1, <1>2, LongNone, LongStep

\* Three fields.
LEMMA Long3 ==
  ASSUME NEW s, Good(s), NEW a \in Ones, NEW b \in Ones, NEW d \in Ones
  PROVE  Long(s, <<a, b, d>>, (LeastOf(a) + LeastOf(b)) + LeastOf(d))
<1>. DEFINE x == <<a>> y == <<a, b>> z == <<a, b, d>>
<1>1. Long(s, x, LeastOf(a)) /\ y = Append(x, b) /\ z = Append(y, d)
  BY AppendTuple, Long1
<1>. HIDE DEF x, y, z
<1>2. Long(s, y, LeastOf(a) + LeastOf(b))
  BY <1>1, LongStep
<1>3. Long(s, z, (LeastOf(a) + LeastOf(b)) + LeastOf(d))
  BY <1>1, <1>2, LongStep
<1>4. QED BY <1>3 DEF z

\* Lists of four and of six.
LEMMA AppendTo4 ==
  ASSUME NEW a, NEW b, NEW d, NEW e
  PROVE  Append(<<a, b, d>>, e) = <<a, b, d, e>>
<1>. DEFINE X == {a, b, d, e}
            p == <<a, b, d>>
            q == <<a, b, d, e>>
<1>1. /\ p \in Seq(X) /\ Len(p) = 3 /\ p[1] = a /\ p[2] = b /\ p[3] = d
  OBVIOUS
<1>2. /\ q \in Seq(X) /\ Len(q) = 4 /\ q[1] = a /\ q[2] = b /\ q[3] = d /\ q[4] = e
  OBVIOUS
<1>3. e \in X
  OBVIOUS
<1>. HIDE DEF p, q, X
<1>4. /\ Append(p, e) \in Seq(X) /\ Len(Append(p, e)) = 4 /\ Append(p, e)[4] = e
      /\ \A i \in 1..3 : Append(p, e)[i] = p[i]
  <2>1. p \in Seq(X)
    BY <1>1
  <2>2. \A s \in Seq(X) : \A x \in X :
          /\ Append(s, x) \in Seq(X) /\ Len(Append(s, x)) = Len(s) + 1
          /\ Append(s, x)[Len(s) + 1] = x /\ \A i \in 1..Len(s) : Append(s, x)[i] = s[i]
    OBVIOUS
  <2>. DEFINE r == Append(p, e)
  <2>3. /\ r \in Seq(X) /\ Len(r) = Len(p) + 1
        /\ r[Len(p) + 1] = e /\ \A i \in 1..Len(p) : r[i] = p[i]
    BY <1>3, <2>1, <2>2, Zenon
  <2>. HIDE DEF r
  <2>4. Len(p) = 3 /\ 3 + 1 = 4
    BY <1>1
  <2>5. r \in Seq(X) /\ Len(r) = 4 /\ r[4] = e /\ \A i \in 1..3 : r[i] = p[i]
    BY <2>3, <2>4
  <2>6. QED BY <2>5 DEF r
<1>. DEFINE r == Append(p, e)
<1>. HIDE DEF r
<1>5. r \in Seq(X) /\ Len(r) = 4 /\ r[1] = a /\ r[2] = b /\ r[3] = d /\ r[4] = e
  BY <1>1, <1>4 DEF r
<1>6. \A i \in 1..4 : i = 1 \/ i = 2 \/ i = 3 \/ i = 4
  OBVIOUS
<1>7. \A i \in 1..4 : r[i] = q[i]
  BY <1>2, <1>5, <1>6, Zenon
<1>8. r = q
  BY <1>2, <1>5, <1>7
<1>9. QED BY <1>8 DEF r, p, q

\* Appending to five elements.
LEMMA AppendTo6 ==
  ASSUME NEW a, NEW b, NEW d, NEW e, NEW f, NEW g
  PROVE  Append(<<a, b, d, e, f>>, g) = <<a, b, d, e, f, g>>
<1>. DEFINE X == {a, b, d, e, f, g}
            p == <<a, b, d, e, f>>
            q == <<a, b, d, e, f, g>>
<1>1. /\ p \in Seq(X) /\ Len(p) = 5 /\ p[1] = a /\ p[2] = b /\ p[3] = d /\ p[4] = e /\ p[5] = f
  OBVIOUS
<1>2. /\ q \in Seq(X) /\ Len(q) = 6 /\ q[1] = a /\ q[2] = b /\ q[3] = d /\ q[4] = e /\ q[5] = f /\ q[6] = g
  OBVIOUS
<1>3. g \in X
  OBVIOUS
<1>. HIDE DEF p, q, X
<1>4. /\ Append(p, g) \in Seq(X) /\ Len(Append(p, g)) = 6 /\ Append(p, g)[6] = g
      /\ \A i \in 1..5 : Append(p, g)[i] = p[i]
  <2>1. p \in Seq(X)
    BY <1>1
  <2>2. \A s \in Seq(X) : \A x \in X :
          /\ Append(s, x) \in Seq(X) /\ Len(Append(s, x)) = Len(s) + 1
          /\ Append(s, x)[Len(s) + 1] = x /\ \A i \in 1..Len(s) : Append(s, x)[i] = s[i]
    OBVIOUS
  <2>. DEFINE r == Append(p, g)
  <2>3. /\ r \in Seq(X) /\ Len(r) = Len(p) + 1
        /\ r[Len(p) + 1] = g /\ \A i \in 1..Len(p) : r[i] = p[i]
    BY <1>3, <2>1, <2>2, Zenon
  <2>. HIDE DEF r
  <2>4. Len(p) = 5 /\ 5 + 1 = 6
    BY <1>1
  <2>5. r \in Seq(X) /\ Len(r) = 6 /\ r[6] = g /\ \A i \in 1..5 : r[i] = p[i]
    BY <2>3, <2>4
  <2>6. QED BY <2>5 DEF r
<1>. DEFINE r == Append(p, g)
<1>. HIDE DEF r
<1>5. r \in Seq(X) /\ Len(r) = 6 /\ r[1] = a /\ r[2] = b /\ r[3] = d /\ r[4] = e /\ r[5] = f /\ r[6] = g
  BY <1>1, <1>4 DEF r
<1>6. \A i \in 1..6 : i = 1 \/ i = 2 \/ i = 3 \/ i = 4 \/ i = 5 \/ i = 6
  OBVIOUS
<1>7. \A i \in 1..6 : r[i] = q[i]
  BY <1>2, <1>5, <1>6, Zenon
<1>8. r = q
  BY <1>2, <1>5, <1>7
<1>9. QED BY <1>8 DEF r, p, q

\* Four fields.
LEMMA Long4 ==
  ASSUME NEW s, Good(s), NEW a \in Ones, NEW b \in Ones, NEW d \in Ones, NEW e \in Ones
  PROVE  Long(s, <<a, b, d, e>>,
              ((LeastOf(a) + LeastOf(b)) + LeastOf(d)) + LeastOf(e))
<1>1. Append(<<a, b, d>>, e) = <<a, b, d, e>>
  BY AppendTo4
<1>. DEFINE x == <<a, b, d>> z == <<a, b, d, e>> m == (LeastOf(a) + LeastOf(b)) + LeastOf(d)
<1>2. Long(s, x, m) /\ z = Append(x, e)
  BY <1>1, Long3
<1>. HIDE DEF x, z, m
<1>3. Long(s, z, m + LeastOf(e))
  BY <1>2, LongStep
<1>4. QED BY <1>3 DEF z, m

\* Five fields.
LEMMA Long5 ==
  ASSUME NEW s, Good(s), NEW a \in Ones, NEW b \in Ones, NEW d \in Ones, NEW e \in Ones, NEW f \in Ones
  PROVE  Long(s, <<a, b, d, e, f>>,
              (((LeastOf(a) + LeastOf(b)) + LeastOf(d)) + LeastOf(e)) + LeastOf(f))
<1>1. Append(<<a, b, d, e>>, f) = <<a, b, d, e, f>>
  BY Append4
<1>. DEFINE x == <<a, b, d, e>> z == <<a, b, d, e, f>> m == ((LeastOf(a) + LeastOf(b)) + LeastOf(d)) + LeastOf(e)
<1>2. Long(s, x, m) /\ z = Append(x, f)
  BY <1>1, Long4
<1>. HIDE DEF x, z, m
<1>3. Long(s, z, m + LeastOf(f))
  BY <1>2, LongStep
<1>4. QED BY <1>3 DEF z, m

\* Six fields.
LEMMA Long6 ==
  ASSUME NEW s, Good(s), NEW a \in Ones, NEW b \in Ones, NEW d \in Ones, NEW e \in Ones, NEW f \in Ones, NEW g \in Ones
  PROVE  Long(s, <<a, b, d, e, f, g>>,
              ((((LeastOf(a) + LeastOf(b)) + LeastOf(d)) + LeastOf(e)) + LeastOf(f)) + LeastOf(g))
<1>1. Append(<<a, b, d, e, f>>, g) = <<a, b, d, e, f, g>>
  BY AppendTo6
<1>. DEFINE x == <<a, b, d, e, f>> z == <<a, b, d, e, f, g>> m == (((LeastOf(a) + LeastOf(b)) + LeastOf(d)) + LeastOf(e)) + LeastOf(f)
<1>2. Long(s, x, m) /\ z = Append(x, g)
  BY <1>1, Long5
<1>. HIDE DEF x, z, m
<1>3. Long(s, z, m + LeastOf(g))
  BY <1>2, LongStep
<1>4. QED BY <1>3 DEF z, m

\* The numbers.
LEMMA LeastIs ==
  /\ \A n \in {"file_version", "save_num", "level", "current_xp", "target_xp", "snapshot_width",
               "snapshot_height", "next_object_id", "coord_x", "coord_y", "pos_x", "pos_y",
               "pos_z", "current_time", "begin_time", "weather_pct", "data2", "data3"} :
       n \in Ones /\ LeastOf(n) = 4
  /\ \A n \in {"player_name", "player_location_name", "game_time", "race_id", "sex"} :
       n \in Ones /\ LeastOf(n) = 2
  /\ \A n \in {"world_space1", "world_space2", "climate", "weather", "prev_weather",
               "unk_weather1", "unk_weather2", "regn_weather"} : n \in Ones /\ LeastOf(n) = 3
  /\ \A n \in {"unknown", "flags"} : n \in Ones /\ LeastOf(n) = 1
  /\ "filetime" \in Ones /\ LeastOf("filetime") = 8
  /\ "data1" \in Ones /\ LeastOf("data1") = 24
<1>1. \A n \in {"file_version", "save_num", "level", "current_xp", "target_xp", "snapshot_width",
               "snapshot_height", "next_object_id", "coord_x", "coord_y", "pos_x", "pos_y",
               "pos_z", "current_time", "begin_time", "weather_pct", "data2", "data3",
               "player_name", "player_location_name", "game_time", "race_id", "sex",
               "world_space1", "world_space2", "climate", "weather", "prev_weather",
               "unk_weather1", "unk_weather2", "regn_weather", "unknown", "flags", "filetime",
               "data1"} : n \in Ones
  BY DEF Ones, PlainNames, CountOf
<1>2. \A n \in {"file_version", "save_num", "level", "snapshot_width", "snapshot_height",
               "next_object_id", "coord_x", "coord_y", "data3"} : LeastOf(n) = 4
  <2>1. \A n \in {"file_version", "save_num", "level", "snapshot_width", "snapshot_height",
               "next_object_id", "coord_x", "coord_y", "data3"} :
          KindsNamed(n)[1] = "le32" /\ n # "data1"
    BY DEF KindsNamed
  <2>2. QED BY <2>1, WidthIs DEF LeastOf, MinWidth
<1>3. \A n \in {"current_xp", "target_xp", "pos_x", "pos_y", "pos_z", "current_time",
               "begin_time", "weather_pct", "data2"} : LeastOf(n) = 4
  <2>1. \A n \in {"current_xp", "target_xp", "pos_x", "pos_y", "pos_z", "current_time",
               "begin_time", "weather_pct", "data2"} : KindsNamed(n)[1] = "lef32" /\ n # "data1"
    BY DEF KindsNamed
  <2>2. QED BY <2>1, WidthIs DEF LeastOf, MinWidth
<1>4. \A n \in {"player_name", "player_location_name", "game_time", "race_id"} : LeastOf(n) = 2
  <2>1. \A n \in {"player_name", "player_location_name", "game_time", "race_id"} :
          KindsNamed(n)[1] = "str" /\ n # "data1"
    BY DEF KindsNamed
  <2>2. QED BY <2>1, WidthIs DEF LeastOf, MinWidth
<1>5. \A n \in {"world_space1", "world_space2", "climate", "weather", "prev_weather",
               "unk_weather1", "unk_weather2", "regn_weather"} : LeastOf(n) = 3
  <2>1. \A n \in {"world_space1", "world_space2", "climate", "weather", "prev_weather",
               "unk_weather1", "unk_weather2", "regn_weather"} :
          KindsNamed(n)[1] = "be24" /\ n # "data1"
    BY DEF KindsNamed
  <2>2. QED BY <2>1, WidthIs DEF LeastOf, MinWidth
<1>6. \A n \in {"unknown", "flags"} : LeastOf(n) = 1
  <2>1. \A n \in {"unknown", "flags"} : KindsNamed(n)[1] = "u8" /\ n # "data1"
    BY DEF KindsNamed
  <2>2. QED BY <2>1, WidthIs DEF LeastOf, MinWidth
<1>7. LeastOf("sex") = 2 /\ LeastOf("filetime") = 8 /\ LeastOf("data1") = 24
  <2>1. KindsNamed("sex")[1] = "le16" /\ KindsNamed("filetime")[1] = "le64"
    BY DEF KindsNamed
  <2>2. QED BY <2>1, WidthIs DEF LeastOf, MinWidth
<1>8. \A n \in {"file_version", "save_num", "level", "current_xp", "target_xp", "snapshot_width",
               "snapshot_height", "next_object_id", "coord_x", "coord_y", "pos_x", "pos_y",
               "pos_z", "current_time", "begin_time", "weather_pct", "data2", "data3"} :
       LeastOf(n) = 4
  BY <1>2, <1>3
<1>9. \A n \in {"player_name", "player_location_name", "game_time", "race_id", "sex"} :
       LeastOf(n) = 2
  BY <1>4, <1>7
<1>10. QED BY <1>1, <1>5, <1>6, <1>7, <1>8, <1>9

\* The header, the player's location and the weather.
LEMMA ListsLong ==
  ASSUME NEW s, Good(s)
  PROVE  /\ Long(s, HeaderNames, 46) /\ Long(s, LocationNames("SKYRIM"), 31)
         /\ Long(s, WeatherNames, 63)
<1>1. Long(s, HeaderNames, 46)
  <2>. DEFINE a == <<"file_version", "save_num", "player_name", "level">>
              b == <<"player_location_name", "game_time", "race_id">>
              d == <<"sex", "current_xp", "target_xp", "filetime", "snapshot_width",
                     "snapshot_height">>
  <2>1. Long(s, a, 14)
    <3>1. "file_version" \in Ones /\ "save_num" \in Ones /\ "player_name" \in Ones
          /\ "level" \in Ones
      BY LeastIs
    <3>2. Long(s, a,
       ((LeastOf("file_version")
        + LeastOf("save_num"))
        + LeastOf("player_name"))
        + LeastOf("level"))
      BY <3>1, Long4
    <3>3. ((LeastOf("file_version")
        + LeastOf("save_num"))
        + LeastOf("player_name"))
        + LeastOf("level") = 14
      BY LeastIs
    <3>4. QED BY <3>2, <3>3
  <2>2. Long(s, b, 6)
    <3>1. "player_location_name" \in Ones /\ "game_time" \in Ones /\ "race_id" \in Ones
      BY LeastIs
    <3>2. Long(s, b,
       (LeastOf("player_location_name")
        + LeastOf("game_time"))
        + LeastOf("race_id"))
      BY <3>1, Long3
    <3>3. (LeastOf("player_location_name")
        + LeastOf("game_time"))
        + LeastOf("race_id") = 6
      BY LeastIs
    <3>4. QED BY <3>2, <3>3
  <2>3. Long(s, d, 26)
    <3>1. "sex" \in Ones /\ "current_xp" \in Ones /\ "target_xp" \in Ones
          /\ "filetime" \in Ones /\ "snapshot_width" \in Ones /\ "snapshot_height" \in Ones
      BY LeastIs
    <3>2. Long(s, d,
       ((((LeastOf("sex")
        + LeastOf("current_xp"))
        + LeastOf("target_xp"))
        + LeastOf("filetime"))
        + LeastOf("snapshot_width"))
        + LeastOf("snapshot_height"))
      BY <3>1, Long6
    <3>3. ((((LeastOf("sex")
        + LeastOf("current_xp"))
        + LeastOf("target_xp"))
        + LeastOf("filetime"))
        + LeastOf("snapshot_width"))
        + LeastOf("snapshot_height") = 26
      BY LeastIs
    <3>4. QED BY <3>2, <3>3
  <2>4. Long(s, a, 14) /\ Long(s, b, 6) /\ Long(s, d, 26)
    BY <2>1, <2>2, <2>3
  <2>5. HeaderNames = (a \o b) \o d
    BY DEF HeaderNames
  <2>. HIDE DEF a, b, d
  <2>6. Long(s, (a \o b) \o d, (14 + 6) + 26)
    BY <2>4, LongConcat
  <2>7. (14 + 6) + 26 = 46
    OBVIOUS
  <2>8. QED BY <2>5, <2>6, <2>7
<1>2. Long(s, LocationNames("SKYRIM"), 31)
  <2>. DEFINE a == <<"next_object_id", "world_space1", "coord_x", "coord_y", "world_space2">>
              b == <<"pos_x", "pos_y", "pos_z">>
              d == <<"unknown">>
  <2>1. Long(s, a, 18)
    <3>1. "next_object_id" \in Ones /\ "world_space1" \in Ones /\ "coord_x" \in Ones
          /\ "coord_y" \in Ones /\ "world_space2" \in Ones
      BY LeastIs
    <3>2. Long(s, a,
       (((LeastOf("next_object_id")
        + LeastOf("world_space1"))
        + LeastOf("coord_x"))
        + LeastOf("coord_y"))
        + LeastOf("world_space2"))
      BY <3>1, Long5
    <3>3. (((LeastOf("next_object_id")
        + LeastOf("world_space1"))
        + LeastOf("coord_x"))
        + LeastOf("coord_y"))
        + LeastOf("world_space2") = 18
      BY LeastIs
    <3>4. QED BY <3>2, <3>3
  <2>2. Long(s, b, 12)
    <3>1. "pos_x" \in Ones /\ "pos_y" \in Ones /\ "pos_z" \in Ones
      BY LeastIs
    <3>2. Long(s, b,
       (LeastOf("pos_x")
        + LeastOf("pos_y"))
        + LeastOf("pos_z"))
      BY <3>1, Long3
    <3>3. (LeastOf("pos_x")
        + LeastOf("pos_y"))
        + LeastOf("pos_z") = 12
      BY LeastIs
    <3>4. QED BY <3>2, <3>3
  <2>3. Long(s, d, 1)
    BY LeastIs, Long1
  <2>4. Long(s, a, 18) /\ Long(s, b, 12) /\ Long(s, d, 1)
    BY <2>1, <2>2, <2>3
  <2>5. LocationNames("SKYRIM") = (a \o b) \o d
    BY DEF LocationNames
  <2>. HIDE DEF a, b, d
  <2>6. Long(s, (a \o b) \o d, (18 + 12) + 1)
    BY <2>4, LongConcat
  <2>7. (18 + 12) + 1 = 31
    OBVIOUS
  <2>8. QED BY <2>5, <2>6, <2>7
<1>3. Long(s, WeatherNames, 63)
  <2>. DEFINE a == <<"climate", "weather", "prev_weather", "unk_weather1", "unk_weather2",
                     "regn_weather">>
              b == <<"current_time", "begin_time", "weather_pct">>
              d == <<"data1", "data2", "data3", "flags">>
  <2>1. Long(s, a, 18)
    <3>1. "climate" \in Ones /\ "weather" \in Ones /\ "prev_weather" \in Ones
          /\ "unk_weather1" \in Ones /\ "unk_weather2" \in Ones /\ "regn_weather" \in Ones
      BY LeastIs
    <3>2. Long(s, a,
       ((((LeastOf("climate")
        + LeastOf("weather"))
        + LeastOf("prev_weather"))
        + LeastOf("unk_weather1"))
        + LeastOf("unk_weather2"))
        + LeastOf("regn_weather"))
      BY <3>1, Long6
    <3>3. ((((LeastOf("climate")
        + LeastOf("weather"))
        + LeastOf("prev_weather"))
        + LeastOf("unk_weather1"))
        + LeastOf("unk_weather2"))
        + LeastOf("regn_weather") = 18
      BY LeastIs
    <3>4. QED BY <3>2, <3>3
  <2>2. Long(s, b, 12)
    <3>1. "current_time" \in Ones /\ "begin_time" \in Ones /\ "weather_pct" \in Ones
      BY LeastIs
    <3>2. Long(s, b,
       (LeastOf("current_time")
        + LeastOf("begin_time"))
        + LeastOf("weather_pct"))
      BY <3>1, Long3
    <3>3. (LeastOf("current_time")
        + LeastOf("begin_time"))
        + LeastOf("weather_pct") = 12
      BY LeastIs
    <3>4. QED BY <3>2, <3>3
  <2>3. Long(s, d, 33)
    <3>1. "data1" \in Ones /\ "data2" \in Ones /\ "data3" \in Ones
          /\ "flags" \in Ones
      BY LeastIs
    <3>2. Long(s, d,
       ((LeastOf("data1")
        + LeastOf("data2"))
        + LeastOf("data3"))
        + LeastOf("flags"))
      BY <3>1, Long4
    <3>3. ((LeastOf("data1")
        + LeastOf("data2"))
        + LeastOf("data3"))
        + LeastOf("flags") = 33
      BY LeastIs
    <3>4. QED BY <3>2, <3>3
  <2>4. Long(s, a, 18) /\ Long(s, b, 12) /\ Long(s, d, 33)
    BY <2>1, <2>2, <2>3
  <2>5. WeatherNames = (a \o b) \o d
    BY DEF WeatherNames
  <2>. HIDE DEF a, b, d
  <2>6. Long(s, (a \o b) \o d, (18 + 12) + 33)
    BY <2>4, LongConcat
  <2>7. (18 + 12) + 33 = 63
    OBVIOUS
  <2>8. QED BY <2>5, <2>6, <2>7
<1>4. QED BY <1>1, <1>2, <1>3

\* The blocks of k types from b on have m octets or more.
Reach(s, b, k, m) ==
  /\ b \in Nat /\ k \in Nat /\ m \in Nat /\ b + k <= 38
  /\ Len(GlobalPart(s, b, k)) \in Nat /\ Len(GlobalPart(s, b, k)) >= m

\* A run of blocks has no fewer octets than none.
LEMMA ReachStart ==
  ASSUME NEW s, Sane(s), NEW b \in Nat, NEW k \in Nat, b + k <= 38
  PROVE  Reach(s, b, k, 0) /\ GlobalPart(s, b, k) \in Value
<1>1. RunBlocks(s, b, k) \in Seq(BlockType)
  BY RunBlocksTyped
<1>2. GlobalPart(s, b, k) \in Value /\ Len(GlobalPart(s, b, k)) \in Nat
  BY <1>1, BlocksLong DEF GlobalPart
<1>3. QED BY <1>2 DEF Reach

\* One type more in a run has no fewer octets.
LEMMA ReachOn ==
  ASSUME NEW s, Sane(s), NEW b, NEW k, NEW m, Reach(s, b, k, m), NEW j, j = k + 1, b + j <= 38
  PROVE  Reach(s, b, j, m)
<1>1. b \in Nat /\ k \in Nat /\ m \in Nat /\ b + k <= 37 /\ j \in Nat /\ b + k <= 38
  BY DEF Reach
<1>. DEFINE x == GlobalPart(s, b, k) y == Whole(GlobalBlock(s, b + k)) z == GlobalPart(s, b, j)
<1>2. x \in Value /\ z \in Value /\ Len(x) >= m
  BY <1>1, ReachStart DEF Reach
<1>3. IF Present(s, b + k) THEN z = x \o y /\ y \in Value ELSE z = x
  BY <1>1, GlobalPartMore
<1>4. Len(x) \in Nat /\ Len(z) \in Nat /\ Len(z) >= Len(x)
  <2>1. CASE Present(s, b + k)
    <3>1. z = x \o y /\ y \in Value
      BY <1>3, <2>1
    <3>. HIDE DEF x, y, z
    <3>2. Len(x \o y) = Len(x) + Len(y) /\ Len(x) \in Nat /\ Len(y) \in Nat
      BY <1>2, <3>1, ConcatIs
    <3>3. QED BY <3>1, <3>2
  <2>2. CASE ~Present(s, b + k)
    <3>1. z = x
      BY <1>3, <2>2
    <3>. HIDE DEF x, y, z
    <3>2. Len(x) \in Nat
      BY <1>2
    <3>3. QED BY <3>1, <3>2
  <2>3. QED BY <2>1, <2>2
<1>. HIDE DEF x, y
<1>5. Len(z) \in Nat /\ Len(z) >= m
  BY <1>1, <1>2, <1>4
<1>6. QED BY <1>1, <1>5 DEF Reach

\* A structured type more in a run has its header and its fields' least octets
\* more.
LEMMA ReachBlock ==
  ASSUME NEW s, Sane(s), NEW b, NEW k, NEW m, Reach(s, b, k, m), NEW j, j = k + 1, b + j <= 38,
         NEW t \in Structured, t = b + k, NEW w \in Nat,
         Len(StoreAll(s, GlobalStores(t))) >= w, NEW n, n = (m + 8) + w
  PROVE  Reach(s, b, j, n)
<1>1. b \in Nat /\ k \in Nat /\ m \in Nat /\ b + k <= 37 /\ j \in Nat /\ b + k <= 38 /\ n \in Nat
  BY DEF Reach
<1>. DEFINE x == GlobalPart(s, b, k) y == Whole(GlobalBlock(s, t)) z == GlobalPart(s, b, j)
            d == StoreAll(s, GlobalStores(t))
<1>2. x \in Value /\ z \in Value /\ Len(x) >= m
  BY <1>1, ReachStart DEF Reach
<1>3. t \in ObjectTypes /\ Present(s, t)
  BY <1>1 DEF Present, ObjectTypes
<1>4. z = x \o y /\ y \in Value
  BY <1>1, <1>3, GlobalPartMore
<1>5. Len(y) = 8 + Len(d) /\ Len(d) \in Nat
  <2>1. /\ GlobalBlock(s, t) \in BlockType /\ GlobalBlock(s, t).header = GlobalHeader(s, t)
        /\ GlobalBlock(s, t).data = global_data_octets(s, t) /\ Len(GlobalHeader(s, t)) = 8
    BY <1>3, GlobalBlockTyped
  <2>2. Len(y) = Len(GlobalBlock(s, t).header) + Len(GlobalBlock(s, t).data)
        /\ GlobalBlock(s, t).data \in Value
    BY <2>1, WholeTyped
  <2>3. global_data_octets(s, t) = d
    BY DEF global_data_octets
  <2>. HIDE DEF y, d
  <2>4. d \in Value /\ Len(y) = 8 + Len(d)
    BY <2>1, <2>2, <2>3
  <2>5. Len(d) \in Nat
    BY <2>4
  <2>6. QED BY <2>4, <2>5
<1>6. Len(x \o y) = Len(x) + Len(y) /\ Len(x) \in Nat /\ Len(y) \in Nat
  BY <1>2, <1>4, ConcatIs
<1>7. Len(d) >= w
  OBVIOUS
<1>. HIDE DEF x, y, z, d
<1>8. Len(z) \in Nat /\ Len(z) >= n
  <2>. DEFINE lx == Len(x) ly == Len(y) lz == Len(z) ld == Len(d)
  <2>1. /\ lx \in Nat /\ ly \in Nat /\ lz = lx + ly /\ lx >= m /\ ly = 8 + ld /\ ld \in Nat
        /\ ld >= w /\ n = (m + 8) + w /\ m \in Nat /\ w \in Nat
    BY <1>1, <1>2, <1>4, <1>5, <1>6, <1>7
  <2>. HIDE DEF lx, ly, lz, ld
  <2>2. lz \in Nat /\ lz >= n
    BY ONLY <2>1
  <2>3. QED BY <2>2 DEF lz
<1>9. QED BY <1>1, <1>8 DEF Reach, z

\* The structured blocks have so many octets at least.
LEMMA StructuredLong ==
  ASSUME NEW s, Sane(s)
  PROVE  /\ \A t \in Structured : Len(StoreAll(s, GlobalStores(t))) \in Nat
         /\ Len(StoreAll(s, GlobalStores(PLAYER_LOCATION))) >= 31
         /\ Len(StoreAll(s, GlobalStores(WEATHER))) >= 63
<1>1. Good(s)
  BY SaneParts
<1>2. \A t \in Structured : Len(StoreAll(s, GlobalStores(t))) \in Nat
  <2>1. SUFFICES ASSUME NEW t \in Structured
                 PROVE  Len(StoreAll(s, GlobalStores(t))) \in Nat
    OBVIOUS
  <2>2. StoreAll(s, GlobalStores(t)) \in Value
    BY <1>1, GlobalStored
  <2>3. QED BY <2>2
<1>3. PLAYER_LOCATION \in Structured /\ WEATHER \in Structured /\ PLAYER_LOCATION # WEATHER
  BY DEF Structured, PLAYER_LOCATION, WEATHER
<1>4. Len(StoreAll(s, GlobalStores(PLAYER_LOCATION))) >= 31
  <2>1. GlobalNames(PLAYER_LOCATION, "SKYRIM") = LocationNames("SKYRIM")
    BY DEF GlobalNames, PLAYER_LOCATION, MISC_STATS
  <2>2. StoreAll(s, GlobalStores(PLAYER_LOCATION)) = StoreAll(s, ListOf(LocationNames("SKYRIM")))
    BY <1>1, <1>3, <2>1, GlobalStored
  <2>3. Long(s, LocationNames("SKYRIM"), 31)
    BY <1>1, ListsLong
  <2>4. QED BY <2>2, <2>3 DEF Long
<1>5. Len(StoreAll(s, GlobalStores(WEATHER))) >= 63
  <2>. DEFINE x == StoreAll(s, ListOf(WeatherNames)) y == Store(s, FieldNamed("data4"))
  <2>1. GlobalNames(WEATHER, "SKYRIM") = WeatherNames
    BY DEF GlobalNames, WEATHER, PLAYER_LOCATION, MISC_STATS, GLOBAL_VARIABLES
  <2>2. StoreAll(s, GlobalStores(WEATHER)) = x \o y /\ x \in Value
    BY <1>1, <1>3, <2>1, GlobalStored
  <2>3. Long(s, WeatherNames, 63)
    BY <1>1, ListsLong
  <2>4. y \in Value
    BY <1>1, StoresTyped DEF AllNames
  <2>5. Len(x) >= 63 /\ Len(x) \in Nat
    BY <2>3 DEF Long
  <2>. HIDE DEF x, y
  <2>6. Len(x \o y) = Len(x) + Len(y) /\ Len(y) \in Nat
    BY <2>2, <2>4, ConcatIs
  <2>7. Len(x \o y) >= 63
    BY <2>5, <2>6
  <2>8. QED BY <2>2, <2>7
<1>6. QED BY <1>2, <1>4, <1>5

\* The first two tables of a body have 126 and 8 octets at least, whatever was in
\* the save.
LEMMA TablesLong ==
  ASSUME NEW s, Sane(s)
  PROVE  /\ Len(GlobalPart(s, 0, 12)) \in Nat /\ Len(GlobalPart(s, 0, 12)) >= 126
         /\ Len(GlobalPart(s, 12, 18)) \in Nat /\ Len(GlobalPart(s, 12, 18)) >= 8
<1>1. /\ 0 \in Structured /\ 1 \in Structured /\ 3 \in Structured /\ 6 \in Structured
      /\ 21 \in Structured
  BY DEF Structured, MISC_STATS, PLAYER_LOCATION, GLOBAL_VARIABLES, WEATHER, MAGIC_FAVORITES
<1>2. /\ Len(StoreAll(s, GlobalStores(0))) >= 0 /\ Len(StoreAll(s, GlobalStores(1))) >= 31
      /\ Len(StoreAll(s, GlobalStores(3))) >= 0 /\ Len(StoreAll(s, GlobalStores(6))) >= 63
      /\ Len(StoreAll(s, GlobalStores(21))) >= 0
  <2>1. \A t \in {0, 3, 21} : Len(StoreAll(s, GlobalStores(t))) \in Nat
    BY <1>1, StructuredLong
  <2>2. Len(StoreAll(s, GlobalStores(1))) >= 31 /\ Len(StoreAll(s, GlobalStores(6))) >= 63
    BY StructuredLong DEF PLAYER_LOCATION, WEATHER
  <2>3. QED BY <2>1, <2>2
<1>3. Reach(s, 0, 0, 0)
  BY ReachStart
<1>4. Reach(s, 0, 1, 8)
  <2>1. 1 = 0 + 1 /\ 0 + 1 <= 38 /\ 0 = 0 + 0 /\ 8 = (0 + 8) + 0 /\ 0 \in Nat
    OBVIOUS
  <2>2. QED BY <1>1, <1>2, <1>3, <2>1, ReachBlock
<1>5. Reach(s, 0, 2, 47)
  <2>1. 2 = 1 + 1 /\ 0 + 2 <= 38 /\ 1 = 0 + 1 /\ 47 = (8 + 8) + 31 /\ 31 \in Nat
    OBVIOUS
  <2>2. QED BY <1>1, <1>2, <1>4, <2>1, ReachBlock
<1>6. Reach(s, 0, 3, 47)
  BY <1>5, ReachOn
<1>7. Reach(s, 0, 4, 55)
  <2>1. 4 = 3 + 1 /\ 0 + 4 <= 38 /\ 3 = 0 + 3 /\ 55 = (47 + 8) + 0 /\ 0 \in Nat
    OBVIOUS
  <2>2. QED BY <1>1, <1>2, <1>6, <2>1, ReachBlock
<1>8. Reach(s, 0, 5, 55)
  BY <1>7, ReachOn
<1>9. Reach(s, 0, 6, 55)
  BY <1>8, ReachOn
<1>10. Reach(s, 0, 7, 126)
  <2>1. 7 = 6 + 1 /\ 0 + 7 <= 38 /\ 6 = 0 + 6 /\ 126 = (55 + 8) + 63 /\ 63 \in Nat
    OBVIOUS
  <2>2. QED BY <1>1, <1>2, <1>9, <2>1, ReachBlock
<1>11. Reach(s, 0, 8, 126)
  BY <1>10, ReachOn
<1>12. Reach(s, 0, 9, 126)
  BY <1>11, ReachOn
<1>13. Reach(s, 0, 10, 126)
  BY <1>12, ReachOn
<1>14. Reach(s, 0, 11, 126)
  BY <1>13, ReachOn
<1>15. Reach(s, 0, 12, 126)
  BY <1>14, ReachOn
<1>16. Reach(s, 12, 9, 0)
  BY ReachStart
<1>17. Reach(s, 12, 10, 8)
  <2>1. 10 = 9 + 1 /\ 12 + 10 <= 38 /\ 21 = 12 + 9 /\ 8 = (0 + 8) + 0 /\ 0 \in Nat
    OBVIOUS
  <2>2. QED BY <1>1, <1>2, <1>16, <2>1, ReachBlock
<1>18. Reach(s, 12, 12, 8)
  <2>1. Reach(s, 12, 11, 8)
    BY <1>17, ReachOn
  <2>2. QED BY <2>1, ReachOn
<1>19. Reach(s, 12, 14, 8)
  <2>1. Reach(s, 12, 13, 8)
    BY <1>18, ReachOn
  <2>2. QED BY <2>1, ReachOn
<1>20. Reach(s, 12, 16, 8)
  <2>1. Reach(s, 12, 15, 8)
    BY <1>19, ReachOn
  <2>2. QED BY <2>1, ReachOn
<1>21. Reach(s, 12, 18, 8)
  <2>1. Reach(s, 12, 17, 8)
    BY <1>20, ReachOn
  <2>2. QED BY <2>1, ReachOn
<1>22. QED BY <1>15, <1>21 DEF Reach

\* A body has 238 octets at least.
LEMMA BodyLong ==
  ASSUME NEW s, Sane(s), NEW p \in Nat, NEW y, BodyIs(y, p, s)
  PROVE  y \in Value /\ Len(y) \in Nat /\ Len(y) >= p + 238
<1>. DEFINE v == Len(VersionPart(s)) b == Len(PluginPart(s)) g == Len(GlobalPart(s, 0, 12))
            h == Len(GlobalPart(s, 12, 18)) f == Len(FormPart(s)) k == Len(GlobalPart(s, 30, 8))
            r == Len(TailPart(s)) l == Len(y)
<1>1. BodyTyped(s)
  BY BodyIsTyped
<1>2. Good(s)
  BY SaneParts
<1>3. /\ v \in Nat /\ b \in Nat /\ f \in Nat /\ k \in Nat /\ r \in Nat
  BY <1>1 DEF BodyTyped
<1>4. b >= 4
  <2>. DEFINE d == StoreAll(s, ListOf(PluginNames(s)))
  <2>1. b = 4 + Len(d) /\ d \in Value
    BY <1>2, PluginTyped
  <2>. HIDE DEF d, b
  <2>2. Len(d) \in Nat
    BY <2>1
  <2>3. QED BY <2>1, <2>2
<1>5. g \in Nat /\ g >= 126 /\ h \in Nat /\ h >= 8
  BY TablesLong
<1>6. y \in Value /\ l = (((((((p + v) + b) + 100) + g) + h) + f) + k) + r
  BY DEF BodyIs
<1>. HIDE DEF v, b, g, h, f, k, r, l
<1>7. l \in Nat /\ l >= p + 238
  BY <1>3, <1>4, <1>5, <1>6
<1>8. QED BY <1>6, <1>7 DEF l

\* What is in front of a body has 62 octets at least.
LEMMA FrontLong ==
  ASSUME NEW s, Sane(s)
  PROVE  /\ FrontPart(s) \in Value /\ Len(FrontPart(s)) \in Nat /\ Len(FrontPart(s)) >= 62
         /\ Signature[s["game"]] \in Value /\ HeaderPart(s) \in Value /\ SnapshotPart(s) \in Value
         /\ Signature[s["game"]] \o HeaderPart(s) \in Value
         /\ Len(Signature[s["game"]] \o HeaderPart(s))
              = Len(Signature[s["game"]]) + Len(HeaderPart(s))
<1>1. Good(s) /\ s["game"] \in Games /\ s["snapshot_data"] \in Seq(Value)
  BY SaneParts
<1>. DEFINE a == Signature[s["game"]] b == HeaderPart(s) d == SnapshotPart(s)
            x == StoreAll(s, ListOf(FileHeaderNames(s)))
<1>2. a \in Value /\ Len(a) >= 12
  <2>1. a \in Value /\ Len(a) = IF s["game"] = "SKYRIM" THEN 13 ELSE 12
    BY <1>1, SignatureTyped
  <2>. HIDE DEF a
  <2>2. QED BY <2>1
<1>3. b \in Value /\ Len(b) = 4 + Len(x) /\ x \in Value
  BY <1>1, HeaderTyped
<1>4. d \in Value
  BY <1>1, FlattenTyped DEF SnapshotPart, Value
<1>5. Len(x) \in Nat /\ Len(x) >= 46
  <2>1. Long(s, HeaderNames, 46)
    BY <1>1, ListsLong
  <2>2. CASE ~supports_save_file_compression(s)
    <3>1. FileHeaderNames(s) = HeaderNames \o <<>>
      BY <2>2 DEF FileHeaderNames
    <3>2. Long(s, HeaderNames \o <<>>, 46 + 0)
      BY <1>1, <2>1, LongNone, LongConcat
    <3>3. 46 + 0 = 46
      OBVIOUS
    <3>4. QED BY <3>1, <3>2, <3>3 DEF Long
  <2>3. CASE supports_save_file_compression(s)
    <3>1. FileHeaderNames(s) = HeaderNames \o <<"compressor">>
      BY <2>3 DEF FileHeaderNames
    <3>. DEFINE m == LeastOf("compressor")
    <3>2. "compressor" \in Ones
      BY DEF Ones, PlainNames, CountOf
    <3>3. Long(s, <<"compressor">>, m) /\ m \in Nat
      <4>1. m \in Nat
        BY <1>1, <3>2, OneLeast
      <4>2. Long(s, <<"compressor">>, m)
        BY <1>1, <3>2, Long1
      <4>3. QED BY <4>1, <4>2
    <3>. HIDE DEF m
    <3>4. Long(s, HeaderNames \o <<"compressor">>, 46 + m)
      BY <1>1, <2>1, <3>3, LongConcat
    <3>5. Len(x) \in Nat /\ Len(x) >= 46 + m
      BY <3>1, <3>4 DEF Long
    <3>. HIDE DEF x
    <3>6. QED BY <3>3, <3>5
  <2>4. QED BY <2>2, <2>3
<1>6. FrontPart(s) = (a \o b) \o d
  BY DEF FrontPart
<1>. HIDE DEF a, b, d, x
<1>7. a \o b \in Value /\ Len(a \o b) = Len(a) + Len(b) /\ Len(a) \in Nat /\ Len(b) \in Nat
  BY <1>2, <1>3, ConcatIs
<1>8. (a \o b) \o d \in Value /\ Len((a \o b) \o d) = Len(a \o b) + Len(d) /\ Len(d) \in Nat
  BY <1>4, <1>7, ConcatIs
<1>9. Len((a \o b) \o d) \in Nat /\ Len((a \o b) \o d) >= 62
  <2>. DEFINE la == Len(a) lb == Len(b) ld == Len(d) lx == Len(x) lt == Len((a \o b) \o d)
  <2>1. /\ la \in Nat /\ lb \in Nat /\ ld \in Nat /\ lx \in Nat /\ la >= 12 /\ lb = 4 + lx
        /\ lx >= 46 /\ lt = (la + lb) + ld
    BY <1>2, <1>3, <1>5, <1>7, <1>8
  <2>. HIDE DEF la, lb, ld, lx, lt
  <2>2. lt \in Nat /\ lt >= 62
    BY ONLY <2>1
  <2>3. QED BY <2>2 DEF lt
<1>10. QED BY <1>2, <1>3, <1>4, <1>6, <1>7, <1>8, <1>9 DEF a, b, d

\* A file whose body is stored as it is is not too short to be read, whatever the save
\* holds.  (One with a compressed body may be.)
THEOREM FileLong ==
  ASSUME NEW s, Sane(s), ~supports_save_file_compression(s), NEW y, FileIs(y, s)
  PROVE  Len(y) \in Nat /\ Len(y) >= MinFileSize
<1>1. FrontPart(s) \in Value /\ Len(FrontPart(s)) \in Nat /\ Len(FrontPart(s)) >= 62
  BY FrontLong
<1>2. BodyIs(y, Len(FrontPart(s)), s)
  BY DEF FileIs
<1>3. Len(y) \in Nat /\ Len(y) >= Len(FrontPart(s)) + 238
  BY <1>1, <1>2, BodyLong
<1>4. QED BY <1>1, <1>3 DEF MinFileSize
-----------------------------------------------------------------------------
(* The file that was written is read. *)

\* Where the parts in front of the body are.
FrontIsAt(y, s) ==
  LET a == Signature[s["game"]]
  IN  /\ IsFront(a, y) /\ At(y, Len(a), HeaderPart(s))
      /\ At(y, Len(a) + Len(HeaderPart(s)), SnapshotPart(s))
      /\ Len(a) \in Nat /\ Len(HeaderPart(s)) \in Nat /\ Len(SnapshotPart(s)) \in Nat
      /\ Len(FrontPart(s)) = (Len(a) + Len(HeaderPart(s))) + Len(SnapshotPart(s))

\* The parts in front of the body are in the file, one behind the other.
LEMMA FrontAts ==
  ASSUME NEW s, Sane(s), NEW y \in Value, IsFront(FrontPart(s), y)
  PROVE  FrontIsAt(y, s)
<1>. DEFINE a == Signature[s["game"]] b == HeaderPart(s) d == SnapshotPart(s)
<1>1. a \in Value /\ b \in Value /\ d \in Value /\ a \o b \in Value /\ Len(a \o b) = Len(a) + Len(b)
  BY FrontLong
<1>2. FrontPart(s) = (a \o b) \o d
  BY DEF FrontPart
<1>3. IsFront((a \o b) \o d, y)
  BY <1>2
<1>. HIDE DEF a, b, d
<1>4. IsFront(a \o b, y) /\ At(y, Len(a \o b), d)
  BY <1>1, <1>3, PartAt
<1>5. IsFront(a, y) /\ At(y, Len(a), b)
  BY <1>1, <1>4, PartAt
<1>6. Len((a \o b) \o d) = Len(a \o b) + Len(d) /\ Len(d) \in Nat
  BY <1>1, ConcatIs
<1>7. Len(a) \in Nat /\ Len(b) \in Nat
  BY <1>1
<1>8. At(y, Len(a) + Len(b), d) /\ Len(FrontPart(s)) = (Len(a) + Len(b)) + Len(d)
  BY <1>1, <1>2, <1>4, <1>6
<1>9. QED BY <1>5, <1>6, <1>7, <1>8 DEF FrontIsAt, a, b, d

\* A file starts with one signature.
LEMMA PrefixIs ==
  ASSUME NEW x \in Value, NEW y \in Value, IsFront(x, y)
  PROVE  IsPrefix(x, y)
<1>1. Len(x) \in Nat /\ Len(x) <= Len(y) /\ \A i \in 1..Len(x) : y[i] = x[i]
  BY DEF IsFront
<1>. DEFINE u == SubSeq(x, 1, Len(x)) v == SubSeq(y, 1, Len(x))
<1>2. u \in Value /\ Len(u) = Len(x) /\ \A i \in 1..Len(x) : u[i] = x[i]
  BY <1>1, FrontIs DEF Value
<1>3. v \in Value /\ Len(v) = Len(x) /\ \A i \in 1..Len(x) : v[i] = y[i]
  BY <1>1, FrontIs DEF Value
<1>. HIDE DEF u, v
<1>4. \A i \in 1..Len(u) : u[i] = v[i]
  BY <1>1, <1>2, <1>3
<1>5. u = v
  BY <1>2, <1>3, <1>4, SameOctets
<1>6. QED BY <1>1, <1>5 DEF IsPrefix, u, v

\* The first octet of a prefix is the first of the whole.
LEMMA PrefixFirst ==
  ASSUME NEW x \in Value, NEW y \in Value, IsPrefix(x, y), Len(x) >= 1
  PROVE  y[1] = x[1]
<1>1. Len(x) <= Len(y) /\ SubSeq(x, 1, Len(x)) = SubSeq(y, 1, Len(x))
  BY DEF IsPrefix
<1>2. Len(x) \in Nat
  OBVIOUS
<1>. DEFINE u == SubSeq(x, 1, Len(x)) v == SubSeq(y, 1, Len(x))
<1>3. \A i \in 1..Len(x) : u[i] = x[i]
  BY <1>1, <1>2, FrontIs DEF Value
<1>4. \A i \in 1..Len(x) : v[i] = y[i]
  BY <1>1, <1>2, FrontIs DEF Value
<1>5. u = v
  BY <1>1
<1>. HIDE DEF u, v
<1>6. QED BY <1>2, <1>3, <1>4, <1>5

\* A file that begins with one game's signature is of that game and no other.
LEMMA OneGame ==
  ASSUME NEW s, Sane(s), NEW y \in Value, IsFront(Signature[s["game"]], y)
  PROVE  GamesOf(y) = {s["game"]}
<1>. DEFINE g == s["game"]
<1>1. g \in Games
  BY SaneParts
<1>2. \A h \in Games : Signature[h] \in Value /\ Len(Signature[h]) >= 1
  <2>1. SUFFICES ASSUME NEW h \in Games PROVE Signature[h] \in Value /\ Len(Signature[h]) >= 1
    OBVIOUS
  <2>. DEFINE x == Signature[h]
  <2>2. x \in Value /\ Len(x) = IF h = "SKYRIM" THEN 13 ELSE 12
    BY SignatureTyped
  <2>. HIDE DEF x
  <2>3. x \in Value /\ Len(x) >= 1
    BY <2>2
  <2>4. QED BY <2>3 DEF x
<1>3. IsPrefix(Signature[g], y)
  BY <1>1, <1>2, PrefixIs
<1>4. \A h \in Games : IsPrefix(Signature[h], y) => h = g
  <2>1. SUFFICES ASSUME NEW h \in Games, IsPrefix(Signature[h], y), h # g PROVE FALSE
    OBVIOUS
  <2>2. y[1] = Signature[h][1] /\ y[1] = Signature[g][1]
    BY <1>1, <1>2, <1>3, <2>1, PrefixFirst
  <2>3. Signature["SKYRIM"][1] = 84 /\ Signature["FALLOUT4"][1] = 70
    BY SignatureIs
  <2>4. (h = "SKYRIM" /\ g = "FALLOUT4") \/ (h = "FALLOUT4" /\ g = "SKYRIM")
    BY <1>1, <2>1 DEF Games
  <2>5. Signature[h][1] = Signature[g][1]
    BY <2>2
  <2>6. CASE h = "SKYRIM" /\ g = "FALLOUT4"
    <3>1. Signature["SKYRIM"][1] = Signature["FALLOUT4"][1]
      BY ONLY <2>5, <2>6, Zenon
    <3>2. QED BY <2>3, <3>1
  <2>7. CASE h = "FALLOUT4" /\ g = "SKYRIM"
    <3>1. Signature["SKYRIM"][1] = Signature["FALLOUT4"][1]
      BY ONLY <2>5, <2>7, Zenon
    <3>2. QED BY <2>3, <3>1
  <2>8. QED BY <2>4, <2>6, <2>7
<1>5. GamesOf(y) = {h \in Games : IsPrefix(Signature[h], y)}
  BY SignatureIs DEF GamesOf
<1>. HIDE DEF g
<1>6. GamesOf(y) = {g}
  BY <1>1, <1>3, <1>4, <1>5
<1>7. QED BY <1>6 DEF g

\* What is read of a file that was written of s.
ReadOf(s) == AllOf(s, FrontNames(s) \cup {"snapshot_data"})
IsReadAs(r, s) == r.ok /\ Part(r.save, s, ReadOf(s), 38)

\* The compressed body is behind the front.
LEMMA PackedBehind ==
  ASSUME NEW x \in Value, NEW data, Packable(data), NEW y, y = x \o Packed(data)
  PROVE  At(y, Len(x), Packed(data))
<1>. DEFINE o == Packed(data)
<1>1. o \in Value
  <2>. DEFINE a == LE(Len(data), 4) b == LE(Len(Compressed(data)), 4) d == Compressed(data)
  <2>1. d \in Value /\ data \in Value
    BY DEF Packable
  <2>2. a \in Value /\ b \in Value
    <3>1. Len(data) \in Int /\ Len(d) \in Int
      <4>. HIDE DEF d
      <4>1. QED BY <2>1 DEF Value
    <3>2. QED BY <3>1, LEIs
  <2>3. o = a \o (b \o d)
    BY DEF Packed
  <2>. HIDE DEF a, b, d, o
  <2>4. b \o d \in Value
    BY <2>1, <2>2, ConcatIs
  <2>5. a \o (b \o d) \in Value
    BY <2>2, <2>4, ConcatIs
  <2>6. QED BY <2>3, <2>5
<1>. HIDE DEF o
<1>2. At(x \o o, Len(x), o)
  BY <1>1, FrontConcat
<1>3. y = x \o o
  BY DEF o
<1>4. At(y, Len(x), o)
  BY <1>2, <1>3
<1>5. QED BY <1>4 DEF o

\* The body that was written is ahead of a cursor behind the front.
LEMMA AheadIs ==
  ASSUME NEW s, Sane(s), NEW y, FileIs(y, s), NEW c, c.octets = y, c.pos = Len(FrontPart(s))
  PROVE  BodyAhead(c, s)
<1>. DEFINE f == FrontPart(s)
<1>1. f \in Value
  BY FrontLong
<1>2. CASE ~supports_save_file_compression(s)
  <2>1. BodyIs(y, Len(f), s)
    BY <1>2 DEF FileIs
  <2>. HIDE DEF f
  <2>2. BodyIs(c.octets, c.pos, s)
    BY <2>1 DEF f
  <2>3. QED BY <1>2, <2>2 DEF BodyAhead
<1>3. CASE supports_save_file_compression(s)
  <2>1. Number(s.compressor[1]) = 2
    BY <1>3 DEF FileIs
  <2>2. PICK data : BodyIs(data, 0, s) /\ Packable(data) /\ y = f \o Packed(data)
    BY <1>3 DEF FileIs
  <2>. HIDE DEF f
  <2>4. At(y, Len(f), Packed(data))
    BY <1>1, <2>2, PackedBehind
  <2>5. At(c.octets, c.pos, Packed(data))
    BY <2>4 DEF f
  <2>6. QED BY <1>3, <2>1, <2>2, <2>5 DEF BodyAhead
<1>4. QED BY <1>2, <1>3

\* The header of a file that was written.
HeadRead(h, y, s) ==
  /\ IsCursor(h) /\ h.ok /\ h.octets = y /\ Part(h.save, s, FrontNames(s), 0)
  /\ h.pos = Len(Signature[s["game"]]) + Len(HeaderPart(s))

\* The signature and the file header of a written file are read back.
LEMMA HeadIsRead ==
  ASSUME NEW s, Sane(s), supports_save_file_compression(s) => Number(s["compressor"][1]) <= 2,
         NEW y, FileIs(y, s), Len(y) < TooMany
  PROVE  HeadRead(HeaderOf(Opened(y, s["game"])), y, s) /\ GamesOf(y) = {s["game"]}
<1>. DEFINE g == s["game"] c == Opened(y, g) h == HeaderOf(c)
<1>1. y \in Value /\ IsFront(FrontPart(s), y)
  BY DEF FileIs
<1>2. FrontIsAt(y, s)
  BY <1>1, FrontAts
<1>3. IsFront(Signature[g], y) /\ At(y, Len(Signature[g]), HeaderPart(s))
  BY <1>2 DEF FrontIsAt
<1>4. GamesOf(y) = {g} /\ g \in Games
  BY <1>1, <1>3, OneGame, SaneParts
<1>5. Ready(c) /\ c.ok /\ c.save = EmptySave(g)
  BY <1>1, <1>4, OpenedReady
<1>6. c.octets = y /\ c.pos = Len(Signature[g])
  BY DEF Opened
<1>7. Part(c.save, s, {"game"}, 0)
  BY <1>4, <1>5, PartStart
<1>8. IsCursor(c)
  BY <1>5 DEF Ready
<1>9. At(c.octets, c.pos, HeaderPart(s)) /\ Len(c.octets) < TooMany
  BY <1>3, <1>6
<1>. HIDE DEF c
<1>10. Reads(h, c, Len(HeaderPart(s)), s, FrontNames(s), 0)
  BY <1>5, <1>7, <1>8, <1>9, HeaderIsRead
<1>. HIDE DEF h
<1>11. HeadRead(h, y, s)
  BY <1>6, <1>10 DEF HeadRead, Reads, CameTo
<1>12. QED BY <1>4, <1>11 DEF h, c

\* What file_writer wrote of a save, file_reader reads, unless it is too short.
LEMMA FileIsRead ==
  ASSUME NEW s, WellFormed(s), NEW y, FileIs(y, s), Len(y) < TooMany
  PROVE  IF Len(y) < MinFileSize THEN file_reader(y) = [ok |-> FALSE, save |-> savegame_alloc]
         ELSE IsReadAs(file_reader(y), s)
<1>. DEFINE g == s["game"] h == HeaderOf(Opened(y, g)) N == FrontNames(s)
            M == FrontNames(s) \cup {"snapshot_data"}
<1>1. /\ Sane(s)
      /\ supports_save_file_compression(s) => Number(s["compressor"][1]) <= 2
      /\ HasSnapshot(s, snapshot_size(s)) /\ Number(s["file_version"][1]) <= 15
  BY DEF WellFormed
<1>2. Good(s)
  BY <1>1, SaneParts
<1>3. /\ "game" \in N /\ HeaderSet \subseteq N /\ HeaderSet \cup CompressorSet(s) \subseteq M
      /\ "game" \in M /\ "file_version" \in M /\ "file_version" \in N
      /\ "data4" \notin M /\ "change_forms" \notin M
  BY DEF FrontNames, HeaderSet, CompressorSet
<1>4. HeadRead(h, y, s) /\ GamesOf(y) = {g}
  BY <1>1, HeadIsRead
<1>5. y \in Value /\ IsFront(FrontPart(s), y)
  BY DEF FileIs
<1>6. FrontIsAt(y, s)
  BY <1>1, <1>5, FrontAts
<1>. HIDE DEF h, N, M
<1>7. IsCursor(h) /\ h.ok /\ h.octets = y /\ Part(h.save, s, N, 0)
      /\ h.pos = Len(Signature[g]) + Len(HeaderPart(s))
  BY <1>4 DEF HeadRead, N
<1>8. h.save["file_version"] = s["file_version"]
  BY <1>2, <1>3, <1>7, PartNumber
<1>. DEFINE k == read_snapshot(h)
<1>9. Reads(k, h, Len(SnapshotPart(s)), s, N \cup {"snapshot_data"}, 0)
  <2>1. At(h.octets, h.pos, SnapshotPart(s))
    BY <1>6, <1>7 DEF FrontIsAt
  <2>2. QED BY <1>1, <1>3, <1>7, <2>1, SnapshotRead
<1>. HIDE DEF k
<1>10. IsCursor(k) /\ k.ok /\ k.octets = y /\ Part(k.save, s, M, 0)
  BY <1>7, <1>9 DEF Reads, CameTo, M, N
<1>11. k.pos = Len(FrontPart(s))
  <2>1. k.pos = h.pos + Len(SnapshotPart(s))
    BY <1>9 DEF Reads, CameTo
  <2>2. Len(FrontPart(s)) = (Len(Signature[g]) + Len(HeaderPart(s))) + Len(SnapshotPart(s))
    BY <1>6 DEF FrontIsAt
  <2>3. QED BY <1>7, <2>1, <2>2
<1>12. BodyAhead(k, s)
  BY <1>1, <1>10, <1>11, AheadIs
<1>. DEFINE e == find_body(k)
<1>13. BodyFound(e, k, s)
  BY <1>1, <1>3, <1>10, <1>12, BodyIsFound
<1>. HIDE DEF e
<1>14. IsCursor(e) /\ e.ok /\ Len(e.octets) < TooMany /\ e.save = k.save
       /\ BodyIs(e.octets, e.pos, s)
  BY <1>13 DEF BodyFound
<1>15. Part(e.save, s, M, 0)
  BY <1>10, <1>14
<1>16. Comes(read_body(e), s, AllOf(s, M), 38)
  BY <1>1, <1>3, <1>14, <1>15, BodyRead
<1>17. FoundOf(h) = e
  BY <1>7, <1>10 DEF FoundOf, If, k, e
<1>18. DoneOf(h) = read_body(e)
  BY <1>14, <1>17 DEF DoneOf, If
<1>19. DoneOf(h).ok /\ Part(DoneOf(h).save, s, AllOf(s, M), 38)
  BY <1>16, <1>18 DEF Comes
<1>20. (CHOOSE x \in GamesOf(y) : TRUE) = g
  BY <1>4
<1>21. h = HeaderOf(Opened(y, CHOOSE x \in GamesOf(y) : TRUE))
  BY <1>20 DEF h
<1>22. file_reader(y) =
             IF \/ Len(y) < MinFileSize \/ GamesOf(y) = {}
                \/ ~(h.ok /\ Number(h.save["file_version"][1]) <= 15) \/ ~DoneOf(h).ok
             THEN [ok |-> FALSE, save |-> savegame_alloc]
             ELSE [ok |-> TRUE, save |-> DoneOf(h).save]
  BY <1>21, ReaderIs
<1>23. CASE Len(y) < MinFileSize
  <2>1. file_reader(y) = [ok |-> FALSE, save |-> savegame_alloc]
    BY ONLY <1>22, <1>23
  <2>2. QED BY <1>23, <2>1
<1>24. CASE ~(Len(y) < MinFileSize)
  <2>1. GamesOf(y) # {}
    BY <1>4
  <2>2. h.ok /\ Number(h.save["file_version"][1]) <= 15
    BY <1>1, <1>7, <1>8
  <2>3. file_reader(y) = [ok |-> TRUE, save |-> DoneOf(h).save]
    BY ONLY <1>19, <1>22, <1>24, <2>1, <2>2
  <2>4. file_reader(y).ok /\ Part(file_reader(y).save, s, AllOf(s, M), 38)
    BY <1>19, <2>3
  <2>5. IsReadAs(file_reader(y), s)
    BY <2>4 DEF IsReadAs, ReadOf, M
  <2>6. QED BY <1>24, <2>5
<1>25. QED BY <1>23, <1>24
-----------------------------------------------------------------------------
(* All of a save is read back. *)

LEMMA LocationNamesTo ==
  ASSUME NEW s
  PROVE  /\ NamesOf(s, 0) \subseteq NamesTo(s, 38) /\ NamesOf(s, 1) \subseteq NamesTo(s, 38)
         /\ NamesOf(s, 3) \subseteq NamesTo(s, 38) /\ NamesOf(s, 6) \subseteq NamesTo(s, 38)
         /\ NamesOf(s, 21) \subseteq NamesTo(s, 38)
<1>1. \A t \in {0, 1, 3, 6, 21} : t \in {u \in ObjectTypes : u < 38}
  BY DEF ObjectTypes
<1>2. \A t \in {u \in ObjectTypes : u < 38} : NamesOf(s, t) \subseteq NamesTo(s, 38)
  BY Zenon DEF NamesTo
<1>3. QED BY <1>1, <1>2

\* Every structured field is among those the 38 types set.
LEMMA NamesBelow ==
  ASSUME NEW s
  PROVE  (((({"misc_stats"} \cup (LocationSet \cup MoreOf(s["game"], "SKYRIM", "unknown")))
            \cup {"global_vars"}) \cup (WeatherSet \cup {"data4"})) \cup {"favourites", "hotkeys"})
           \subseteq NamesTo(s, 38)
<1>1. /\ 0 \in Structured /\ 1 \in Structured /\ 3 \in Structured /\ 6 \in Structured
      /\ 21 \in Structured
  BY DEF Structured, MISC_STATS, PLAYER_LOCATION, GLOBAL_VARIABLES, WEATHER, MAGIC_FAVORITES
<1>. DEFINE g == s["game"]
<1>2. NamesOf(s, 0) = {"misc_stats"}
  <2>1. GlobalNames(0, g) = <<"misc_stats">>
    BY DEF GlobalNames, MISC_STATS
  <2>2. ToSet(<<"misc_stats">>) = {"misc_stats"}
    BY TupleSet
  <2>3. NamesOf(s, 0) = ToSet(GlobalNames(0, g)) \cup {}
    BY <1>1 DEF NamesOf, WEATHER
  <2>4. QED BY <2>1, <2>2, <2>3
<1>3. NamesOf(s, 1) = LocationSet \cup MoreOf(g, "SKYRIM", "unknown")
  <2>1. GlobalNames(1, g) = LocationNames(g)
    BY DEF GlobalNames, MISC_STATS, PLAYER_LOCATION
  <2>2. ToSet(LocationNames(g)) = LocationSet \cup MoreOf(g, "SKYRIM", "unknown")
    BY LocationSetIs
  <2>3. NamesOf(s, 1) = ToSet(GlobalNames(1, g)) \cup {}
    BY <1>1 DEF NamesOf, WEATHER
  <2>4. QED BY <2>1, <2>2, <2>3
<1>4. NamesOf(s, 3) = {"global_vars"}
  <2>1. GlobalNames(3, g) = <<"global_vars">>
    BY DEF GlobalNames, MISC_STATS, PLAYER_LOCATION, GLOBAL_VARIABLES
  <2>2. ToSet(<<"global_vars">>) = {"global_vars"}
    BY TupleSet
  <2>3. NamesOf(s, 3) = ToSet(GlobalNames(3, g)) \cup {}
    BY <1>1 DEF NamesOf, WEATHER
  <2>4. QED BY <2>1, <2>2, <2>3
<1>5. NamesOf(s, 6) = WeatherSet \cup {"data4"}
  <2>1. GlobalNames(6, g) = WeatherNames
    BY DEF GlobalNames, MISC_STATS, PLAYER_LOCATION, GLOBAL_VARIABLES, WEATHER
  <2>2. ToSet(WeatherNames) = WeatherSet
    BY WeatherSetIs
  <2>3. NamesOf(s, 6) = ToSet(GlobalNames(6, g)) \cup {"data4"}
    BY <1>1 DEF NamesOf, WEATHER
  <2>4. QED BY <2>1, <2>2, <2>3
<1>6. NamesOf(s, 21) = {"favourites", "hotkeys"}
  <2>1. GlobalNames(21, g) = <<"favourites", "hotkeys">>
    BY DEF GlobalNames, MISC_STATS, PLAYER_LOCATION, GLOBAL_VARIABLES, WEATHER
  <2>2. ToSet(<<"favourites", "hotkeys">>) = {"favourites", "hotkeys"}
    BY TupleSet
  <2>3. NamesOf(s, 21) = ToSet(GlobalNames(21, g)) \cup {}
    BY <1>1 DEF NamesOf, WEATHER
  <2>4. QED BY <2>1, <2>2, <2>3
<1>7. QED
  <2>. DEFINE Z == NamesTo(s, 38)
  <2>1. /\ {"misc_stats"} \subseteq Z /\ (LocationSet \cup MoreOf(g, "SKYRIM", "unknown")) \subseteq Z
        /\ {"global_vars"} \subseteq Z /\ (WeatherSet \cup {"data4"}) \subseteq Z
        /\ {"favourites", "hotkeys"} \subseteq Z
    BY <1>2, <1>3, <1>4, <1>5, <1>6, LocationNamesTo
  <2>. HIDE DEF Z
  <2>2. (((({"misc_stats"} \cup (LocationSet \cup MoreOf(g, "SKYRIM", "unknown")))
            \cup {"global_vars"}) \cup (WeatherSet \cup {"data4"})) \cup {"favourites", "hotkeys"})
           \subseteq Z
    BY <2>1
  <2>3. QED BY <2>2 DEF Z

\* Every part of a save is read back, but what its format has no place for.
LEMMA NamesAll ==
  ASSUME NEW s, s["game"] \in Games, NEW m \in Names, m # "globals"
  PROVE  m \in ReadOf(s) \/ m \in NamesTo(s, 38) \/ m \in Unused(s)
<1>. DEFINE Z == NamesTo(s, 38) R == ReadOf(s) U == Unused(s) g == s["game"]
<1>1. /\ {"game"} \subseteq R /\ HeaderSet \subseteq R /\ CompressorSet(s) \subseteq R
      /\ {"snapshot_data"} \subseteq R /\ VersionSet(g) \subseteq R /\ PluginSet(s) \subseteq R
      /\ {"change_forms"} \subseteq R /\ TailSet \subseteq R
  BY DEF ReadOf, AllOf, FrontNames
<1>2. /\ "misc_stats" \in Z /\ LocationSet \subseteq Z /\ MoreOf(g, "SKYRIM", "unknown") \subseteq Z
      /\ "global_vars" \in Z /\ WeatherSet \subseteq Z /\ "data4" \in Z
      /\ "favourites" \in Z /\ "hotkeys" \in Z
  BY NamesBelow
<1>3. "compressor" \in R \/ "compressor" \in U
  <2>1. CASE supports_save_file_compression(s)
    BY <1>1, <2>1 DEF CompressorSet
  <2>2. CASE ~supports_save_file_compression(s)
    BY <2>2 DEF Unused
  <2>3. QED BY <2>1, <2>2
<1>4. "plugins" \in R /\ ("light_plugins" \in R \/ "light_plugins" \in U)
  <2>1. CASE supports_light_plugins(s)
    BY <1>1, <2>1 DEF PluginSet
  <2>2. CASE ~supports_light_plugins(s)
    BY <1>1, <2>2 DEF Unused, PluginSet
  <2>3. QED BY <2>1, <2>2
<1>5. "form_version" \in R /\ ("game_version" \in R \/ "game_version" \in U)
  <2>1. CASE g = "FALLOUT4"
    BY <1>1, <2>1 DEF VersionSet, MoreOf
  <2>2. CASE g # "FALLOUT4"
    BY <1>1, <2>2 DEF Unused, VersionSet
  <2>3. QED BY <2>1, <2>2
<1>6. "unknown" \in Z \/ "unknown" \in U
  <2>1. CASE g = "SKYRIM"
    BY <1>2, <2>1 DEF MoreOf
  <2>2. CASE g # "SKYRIM"
    BY <2>2 DEF Unused
  <2>3. QED BY <2>1, <2>2
<1>. HIDE DEF Z, R, U
<1>7. m \in HeaderSet \cup LocationSet \cup WeatherSet \cup TailSet \cup
        {"game", "snapshot_data", "change_forms", "compressor", "plugins", "light_plugins",
         "form_version", "game_version", "unknown", "misc_stats", "global_vars", "favourites",
         "hotkeys", "data4"}
  <2>1. m \in PlainNames \cup {"data4", "game", "snapshot_data", "change_forms"}
    BY DEF Names, AllNames, OtherNames
  <2>2. PlainNames \subseteq HeaderSet \cup LocationSet \cup WeatherSet \cup TailSet \cup
        {"compressor", "plugins", "light_plugins",
         "form_version", "game_version", "unknown", "misc_stats", "global_vars", "favourites",
         "hotkeys"}
    BY DEF PlainNames, HeaderSet, LocationSet, WeatherSet, TailSet
  <2>3. QED BY <2>1, <2>2
<1>8. CASE m \in HeaderSet \cup TailSet
  BY <1>1, <1>8 DEF R
<1>9. CASE m \in LocationSet \cup WeatherSet
  BY <1>2, <1>9 DEF Z
<1>10. CASE m \in {"game", "snapshot_data", "change_forms", "compressor", "plugins", "light_plugins",
         "form_version", "game_version"}
  BY <1>1, <1>3, <1>4, <1>5, <1>10 DEF R, U
<1>11. CASE m \in {"unknown", "misc_stats", "global_vars", "favourites", "hotkeys", "data4"}
  BY <1>2, <1>6, <1>11 DEF Z, U
<1>12. QED BY <1>7, <1>8, <1>9, <1>10, <1>11

\* A save that is read back of another: the same, but for what is behind the NUL of a string.
IsReadBack(a, s) ==
  /\ IsSave(a) /\ a["globals"] = s["globals"]
  /\ \A m \in Names : a[m] = s[m] \/ a[m] = New(s, m)

\* A save that gained every field the reader reads is the save that was written,
\* in its normal form.
LEMMA AllReadBack ==
  ASSUME NEW s, WellFormed(s), NEW a, Part(a, s, ReadOf(s), 38)
  PROVE  IsReadBack(a, s)
<1>1. Sane(s) /\ s["game"] \in Games /\ GlobalsOK(s["globals"])
  BY SaneParts DEF WellFormed
<1>2. IsSave(a) /\ a["globals"] = GlobalsTo(s, 38)
  BY DEF Part
<1>3. GlobalsTo(s, 38) = s["globals"]
  <2>. DEFINE x == s["globals"]
  <2>1. \A t \in ObjectTypes : t < 38
    BY DEF ObjectTypes
  <2>2. GlobalsTo(s, 38) = [t \in ObjectTypes |-> x[t]]
    BY <2>1 DEF GlobalsTo
  <2>3. x = [t \in ObjectTypes |-> x[t]]
    BY <1>1 DEF GlobalsOK
  <2>4. QED BY <2>2, <2>3
<1>4. \A m \in Names : a[m] = s[m] \/ a[m] = New(s, m)
  <2>1. SUFFICES ASSUME NEW m \in Names PROVE a[m] = s[m] \/ a[m] = New(s, m)
    OBVIOUS
  <2>2. CASE m = "globals"
    BY <1>2, <1>3, <2>2
  <2>3. CASE m # "globals"
    <3>1. a[m] = IF m \in ReadOf(s) \/ m \in NamesTo(s, 38) THEN New(s, m) ELSE savegame_alloc[m]
      BY <2>3 DEF Part
    <3>2. CASE m \in ReadOf(s) \/ m \in NamesTo(s, 38)
      BY <3>1, <3>2
    <3>3. CASE ~(m \in ReadOf(s) \/ m \in NamesTo(s, 38))
      <4>1. m \in Unused(s)
        BY <1>1, <2>3, <3>3, NamesAll
      <4>2. s[m] = savegame_alloc[m]
        BY <4>1 DEF WellFormed
      <4>3. QED BY <3>1, <3>3, <4>2
    <3>4. QED BY <3>2, <3>3
  <2>4. QED BY <2>2, <2>3
<1>5. QED BY <1>2, <1>3, <1>4 DEF IsReadBack
-----------------------------------------------------------------------------
(* What a save says. *)

ShownOf(f, v) ==
  [i \in DOMAIN v |-> IF Cycle(f.kinds, i) = "str" THEN CString(v[i]) ELSE v[i]]

\* The normal form of a field shows what the field shows.
LEMMA ShownKept ==
  ASSUME NEW f, IsField(f), NEW v, FieldOK(f, v)
  PROVE  ShownOf(f, NormF(f, v)) = ShownOf(f, v)
<1>1. v \in Seq(Value) /\ DOMAIN v = 1..Len(v)
  BY DEF FieldOK
<1>. DEFINE w == NormF(f, v)
<1>2. DOMAIN w = 1..Len(v) /\ \A i \in 1..Len(v) : w[i] = Norm(Cycle(f.kinds, i), v[i])
  BY DEF NormF
<1>3. \A i \in 1..Len(v) : Cycle(f.kinds, i) = "str" => CString(w[i]) = CString(v[i])
  <2>1. SUFFICES ASSUME NEW i \in 1..Len(v), Cycle(f.kinds, i) = "str"
                 PROVE  CString(w[i]) = CString(v[i])
    OBVIOUS
  <2>2. v[i] \in Value
    BY <1>1
  <2>3. CString(v[i]) \in Value /\ NoNul(CString(v[i]))
    BY <2>2, CStringTyped
  <2>4. w[i] = Append(CString(v[i]), 0)
    BY <1>2, <2>1 DEF Norm
  <2>5. QED BY <2>3, <2>4, CStringOfString
<1>4. \A i \in 1..Len(v) : Cycle(f.kinds, i) # "str" => w[i] = v[i]
  BY <1>2 DEF Norm
<1>. HIDE DEF w
<1>5. \A i \in 1..Len(v) : (IF Cycle(f.kinds, i) = "str" THEN CString(w[i]) ELSE w[i])
                         = (IF Cycle(f.kinds, i) = "str" THEN CString(v[i]) ELSE v[i])
  BY <1>3, <1>4
<1>6. ShownOf(f, w) = ShownOf(f, v)
  BY <1>1, <1>2, <1>5 DEF ShownOf
<1>7. QED BY <1>6 DEF w

\* Every field that was read back shows what was written.
LEMMA FieldsShown ==
  ASSUME NEW s, Good(s), NEW a, IsReadBack(a, s), NEW n \in AllNames
  PROVE  ShownOf(FieldNamed(n), a[n]) = ShownOf(FieldNamed(n), s[n])
<1>1. n \in Names
  BY DEF Names
<1>2. a[n] = s[n] \/ a[n] = New(s, n)
  BY <1>1 DEF IsReadBack
<1>3. CASE a[n] = s[n]
  BY <1>3
<1>4. CASE a[n] = New(s, n) /\ n \notin PlainNames
  BY <1>4 DEF New
<1>5. CASE a[n] = New(s, n) /\ n \in PlainNames
  <2>1. FieldOK(FieldNamed(n), s[n])
    BY <1>5 DEF Good
  <2>2. IsField(FieldNamed(n))
    <3>1. n # "data4"
      BY <1>5, NamesApart
    <3>2. QED BY <3>1, FieldNamedIs
  <2>3. a[n] = NormF(FieldNamed(n), s[n])
    BY <1>5 DEF New
  <2>4. ShownOf(FieldNamed(n), NormF(FieldNamed(n), s[n])) = ShownOf(FieldNamed(n), s[n])
    BY <2>1, <2>2, ShownKept
  <2>5. QED BY <2>3, <2>4
<1>6. QED BY <1>2, <1>3, <1>4, <1>5
-----------------------------------------------------------------------------
(* The types of a save. *)

SaveTyped(s) ==
  /\ DOMAIN s = DOMAIN savegame_alloc
  /\ \A n \in AllNames : \A i \in DOMAIN s[n] : s[n][i] \in Value
  /\ \A form \in ToSet(s["change_forms"]) : form.type < 192 /\ form.form_id[4] = 0

\* A save whose fields can be stored has the types of a save.
LEMMA SaveIsTyped ==
  ASSUME NEW s, IsSave(s), Good(s), FormsOK(s["change_forms"])
  PROVE  SaveTyped(s)
<1>1. DOMAIN s = DOMAIN savegame_alloc
  BY AllocIs DEF IsSave
<1>2. \A n \in PlainNames : \A i \in DOMAIN s[n] : s[n][i] \in Value
  <2>1. SUFFICES ASSUME NEW n \in PlainNames, NEW i \in DOMAIN s[n] PROVE s[n][i] \in Value
    OBVIOUS
  <2>. DEFINE v == s[n]
  <2>2. v \in Seq(Value)
    BY DEF Good, FieldOK
  <2>3. i \in DOMAIN v
    OBVIOUS
  <2>. HIDE DEF v
  <2>4. v[i] \in Value
    BY <2>2, <2>3
  <2>5. QED BY <2>4 DEF v
<1>3. \A i \in DOMAIN s["data4"] : s["data4"][i] \in Value
  <2>. DEFINE v == s["data4"]
  <2>1. v = <<>> \/ \E x \in Value : v = <<x>>
    BY DEF Good, SomeOK
  <2>. HIDE DEF v
  <2>2. \A i \in DOMAIN v : v[i] \in Value
    BY <2>1
  <2>3. QED BY <2>2 DEF v
<1>4. \A form \in ToSet(s["change_forms"]) : form.type < 192 /\ form.form_id[4] = 0
  <2>. DEFINE v == s["change_forms"]
  <2>1. v \in Seq({v[i] : i \in DOMAIN v}) /\ \A i \in 1..Len(v) : FormOK(v[i])
    BY DEF FormsOK
  <2>2. \A form : FormOK(form) => form.type < 192 /\ form.form_id[4] = 0
    BY DEF FormOK, Storable
  <2>. HIDE DEF v
  <2>3. DOMAIN v = 1..Len(v)
    BY <2>1
  <2>4. \A form \in ToSet(v) : FormOK(form)
    BY <2>1, <2>3 DEF ToSet
  <2>5. \A form \in ToSet(v) : form.type < 192 /\ form.form_id[4] = 0
    BY <2>2, <2>4
  <2>6. QED BY <2>5 DEF v
<1>5. QED BY <1>1, <1>2, <1>3, <1>4 DEF SaveTyped, AllNames

\* What savegame_alloc leaves has the types of a save.
LEMMA AllocTyped == SaveTyped(savegame_alloc)
<1>1. Good(savegame_alloc) /\ FormsOK(savegame_alloc["change_forms"])
  BY SaneStart DEF Good
<1>2. QED BY <1>1, AllocIs, SaveIsTyped

\* A well-formed save has the types of a save, and its two strings end.
LEMMA ReadTyped ==
  ASSUME NEW s, WellFormed(s)
  PROVE  /\ SaveTyped(s)
         /\ \A n \in {"player_name", "race_id"} : Last(s[n][1]) = 0
<1>1. SaveTyped(s)
  BY SaveIsTyped, SaneParts DEF WellFormed
<1>2. ASSUME NEW n \in {"player_name", "race_id"} PROVE Last(s[n][1]) = 0
  <2>1. n \in PlainNames /\ CountOf(n) = "one" /\ KindsNamed(n) = <<"str">>
    BY OnesAre
  <2>2. FieldWasRead(FieldNamed(n), s[n])
    BY DEF WellFormed, HeaderSet
  <2>3. FieldOK(FieldNamed(n), s[n])
    BY <2>2, WasReadOK
  <2>4. WasRead("str", s[n][1])
    BY <2>1, <2>2, <2>3, OneIs
  <2>5. QED BY <2>4 DEF WasRead
<1>3. QED BY <1>1, <1>2

\* What a save says, for the set of all fields.
LEMMA SaysIs ==
  ASSUME NEW s
  PROVE  Says(s) = <<[f \in AllFields |-> ShownOf(f, s[f.name])], s.game, s.snapshot_data,
                     s.globals, s.change_forms>>
BY DEF Says, ShownOf, Cycle

\* A save that is read back says the same.
LEMMA SaysKept ==
  ASSUME NEW s, Good(s), NEW a, IsReadBack(a, s)
  PROVE  Says(a) = Says(s)
<1>1. \A f \in AllFields : ShownOf(f, a[f.name]) = ShownOf(f, s[f.name])
  <2>1. SUFFICES ASSUME NEW f \in AllFields PROVE ShownOf(f, a[f.name]) = ShownOf(f, s[f.name])
    OBVIOUS
  <2>2. PICK n \in AllNames : f = FieldNamed(n)
    BY AllFieldsAre DEF AllFieldsSet
  <2>3. FieldNamed(n).name = n
    BY FieldNamedIs
  <2>4. ShownOf(FieldNamed(n), a[n]) = ShownOf(FieldNamed(n), s[n])
    BY FieldsShown
  <2>5. QED BY <2>2, <2>3, <2>4
<1>2. [f \in AllFields |-> ShownOf(f, a[f.name])] = [f \in AllFields |-> ShownOf(f, s[f.name])]
  BY <1>1
<1>3. a["globals"] = s["globals"]
  BY DEF IsReadBack
<1>4. \A m \in OtherNames : a[m] = s[m]
  <2>1. \A m \in OtherNames : m \notin PlainNames /\ m \in Names
    BY NamesApart DEF OtherNames, Names
  <2>2. \A m \in OtherNames : New(s, m) = s[m]
    BY <2>1 DEF New
  <2>3. QED BY <2>1, <2>2 DEF IsReadBack
<1>5. a.game = s.game /\ a.snapshot_data = s.snapshot_data /\ a.change_forms = s.change_forms
      /\ a.globals = s.globals
  <2>1. a["game"] = s["game"] /\ a["snapshot_data"] = s["snapshot_data"]
        /\ a["change_forms"] = s["change_forms"]
    BY <1>4 DEF OtherNames
  <2>2. QED BY <1>3, <2>1
<1>6. QED BY <1>2, <1>5, SaysIs

\* A well-formed save that is written to a file below 4 GiB is read back from it, unless
\* the file has become shorter than the least size: that is the only thing the reader
\* refuses of what the writer made.
THEOREM WrittenIsRead ==
  ASSUME DecompressorIsSafe, NEW s, WellFormed(s), NEW y, FileIs(y, s), Len(y) < TooMany
  PROVE  /\ file_reader(y).ok <=> ~(Len(y) < MinFileSize)
         /\ IF Len(y) < MinFileSize THEN file_reader(y).save = savegame_alloc
            ELSE /\ WellFormed(file_reader(y).save)
                 /\ Says(file_reader(y).save) = Says(s)
<1>. DEFINE r == file_reader(y) a == r.save
<1>1. CASE Len(y) < MinFileSize
  <2>1. r = [ok |-> FALSE, save |-> savegame_alloc]
    BY <1>1, FileIsRead
  <2>. HIDE DEF r
  <2>2. ~r.ok /\ r.save = savegame_alloc
    BY <2>1
  <2>3. QED BY <1>1, <2>2 DEF r
<1>2. CASE ~(Len(y) < MinFileSize)
  <2>1. IsReadAs(r, s)
    BY <1>2, FileIsRead
  <2>2. r.ok /\ Part(a, s, ReadOf(s), 38)
    BY <2>1 DEF IsReadAs
  <2>3. Good(s)
    BY SaneParts DEF WellFormed
  <2>4. IsReadBack(a, s)
    BY <2>2, AllReadBack
  <2>5. Says(a) = Says(s)
    BY <2>3, <2>4, SaysKept
  <2>6. y \in Value
    BY DEF FileIs
  <2>7. WellFormed(a)
    BY <2>2, <2>6, AcceptedIsWellFormed
  <2>8. QED BY <1>2, <2>2, <2>5, <2>7
<1>3. QED BY <1>1, <1>2
-----------------------------------------------------------------------------
(* The stores of file_writer are inside of its file. *)

\* Stores that end at n or before.
Under(list, n) ==
  /\ list \in Seq(StoreOfOctets)
  /\ \A i \in DOMAIN list : list[i].at + Len(list[i].octets) <= n
\* A cursor with no store behind it.
IsInside(c) ==
  c = [pos |-> c.pos, stores |-> c.stores] /\ c.pos \in Nat /\ Under(c.stores, c.pos)
\* A cursor that moved on from c.
Beyond(d, c) == IsInside(d) /\ d.pos >= c.pos

\* One store more, and more room.
LEMMA UnderMore ==
  ASSUME NEW n \in Nat, NEW m \in Nat, n <= m, NEW list, Under(list, n),
         NEW at \in Nat, NEW o \in Value, at + Len(o) <= m
  PROVE  Under(Append(list, [at |-> at, octets |-> o]), m)
<1>. DEFINE x == [at |-> at, octets |-> o] L == Append(list, x)
<1>1. list \in Seq(StoreOfOctets) /\ \A i \in 1..Len(list) : list[i].at + Len(list[i].octets) <= n
  BY DEF Under
<1>2. x \in StoreOfOctets /\ x.at = at /\ x.octets = o
  BY DEF StoreOfOctets, Value
<1>3. x.at + Len(x.octets) <= m
  BY <1>2
<1>4. \A i \in 1..Len(list) : list[i] \in StoreOfOctets
  BY <1>1
<1>5. \A y \in StoreOfOctets : y.at + Len(y.octets) \in Nat
  BY DEF StoreOfOctets
<1>. HIDE DEF x
<1>6. L \in Seq(StoreOfOctets) /\ DOMAIN L = 1..(Len(list) + 1) /\ L[Len(list) + 1] = x
      /\ \A i \in 1..Len(list) : L[i] = list[i]
  BY <1>1, <1>2
<1>. HIDE DEF L
<1>7. ASSUME NEW i \in DOMAIN L PROVE L[i].at + Len(L[i].octets) <= m
  <2>1. CASE i = Len(list) + 1
    BY <1>3, <1>6, <2>1
  <2>2. CASE i # Len(list) + 1
    <3>1. i \in 1..Len(list)
      BY <1>1, <1>6, <2>2
    <3>2. list[i].at + Len(list[i].octets) \in Nat /\ list[i].at + Len(list[i].octets) <= n
      BY <1>1, <1>4, <1>5, <3>1
    <3>3. list[i].at + Len(list[i].octets) <= m
      BY <3>2
    <3>4. QED BY <1>6, <3>1, <3>3
  <2>3. QED BY <2>1, <2>2
<1>8. QED BY <1>6, <1>7 DEF Under, L, x

\* Two lists of stores in a row.
LEMMA UnderBoth ==
  ASSUME NEW n, NEW list, Under(list, n), NEW more, Under(more, n)
  PROVE  Under(list \o more, n)
<1>. DEFINE L == list \o more
<1>1. list \in Seq(StoreOfOctets) /\ \A i \in 1..Len(list) : list[i].at + Len(list[i].octets) <= n
  BY DEF Under
<1>2. more \in Seq(StoreOfOctets) /\ \A i \in 1..Len(more) : more[i].at + Len(more[i].octets) <= n
  BY DEF Under
<1>3. L \in Seq(StoreOfOctets) /\ DOMAIN L = 1..(Len(list) + Len(more))
  BY <1>1, <1>2
<1>4. \A i \in 1..(Len(list) + Len(more)) :
        L[i] = IF i <= Len(list) THEN list[i] ELSE more[i - Len(list)]
  BY <1>1, <1>2, JoinedSeq
<1>5. Len(list) \in Nat /\ Len(more) \in Nat
  BY <1>1, <1>2
<1>. HIDE DEF L
<1>6. ASSUME NEW i \in DOMAIN L PROVE L[i].at + Len(L[i].octets) <= n
  <2>1. CASE i <= Len(list)
    <3>1. i \in 1..Len(list)
      BY <1>3, <1>5, <2>1
    <3>2. QED BY <1>1, <1>3, <1>4, <2>1, <3>1
  <2>2. CASE ~(i <= Len(list))
    <3>1. i - Len(list) \in 1..Len(more)
      BY <1>3, <1>5, <2>2
    <3>2. QED BY <1>2, <1>3, <1>4, <2>2, <3>1
  <2>3. QED BY <2>1, <2>2
<1>7. QED BY <1>3, <1>6 DEF Under, L

\* Put stores nothing behind the place it moves to.
LEMMA PutInside ==
  ASSUME NEW c, IsInside(c), NEW o \in Value
  PROVE  Beyond(Put(c, o), c) /\ Put(c, o).pos = c.pos + Len(o)
<1>. DEFINE p == c.pos d == Put(c, o)
<1>1. p \in Nat /\ Len(o) \in Nat /\ Under(c.stores, p)
  BY DEF IsInside, Value
<1>2. d = [pos |-> p + Len(o), stores |-> Append(c.stores, [at |-> p, octets |-> o])]
  BY DEF Put
<1>. HIDE DEF d, p
<1>3. Under(Append(c.stores, [at |-> p, octets |-> o]), p + Len(o))
  BY <1>1, UnderMore
<1>4. d.pos = p + Len(o) /\ d.stores = Append(c.stores, [at |-> p, octets |-> o])
      /\ d = [pos |-> d.pos, stores |-> d.stores]
  BY <1>2
<1>5. QED BY <1>1, <1>3, <1>4 DEF Beyond, IsInside, d, p

\* Nor does a block.
LEMMA BlockInside ==
  ASSUME NEW c, IsInside(c), NEW block, block.header \in Value, block.data \in Value
  PROVE  Beyond(PutBlock(c, block), c)
<1>. DEFINE p == c.pos h == block.header o == block.data d == PutBlock(c, block)
            A == [at |-> p + Len(h), octets |-> o] B == [at |-> p, octets |-> h]
            m == p + Len(h) + Len(o)
<1>1. p \in Nat /\ Len(h) \in Nat /\ Len(o) \in Nat /\ Under(c.stores, p) /\ o \in Value /\ h \in Value
  BY DEF IsInside, Value
<1>2. d = [pos |-> m, stores |-> c.stores \o <<A, B>>]
  BY DEF PutBlock
<1>3. c.stores \o <<A, B>> = Append(Append(c.stores, A), B)
  <2>1. A \in StoreOfOctets /\ B \in StoreOfOctets
    BY <1>1 DEF StoreOfOctets, Value
  <2>2. c.stores \in Seq(StoreOfOctets)
    BY <1>1 DEF Under
  <2>. HIDE DEF A, B
  <2>3. QED BY <2>1, <2>2, Append2
<1>. HIDE DEF d, p, h, o
<1>4. m \in Nat /\ p <= m /\ p + Len(h) \in Nat /\ p + Len(h) + Len(o) <= m /\ p + Len(h) <= m
      /\ m <= m
  BY <1>1
<1>5. Under(Append(c.stores, A), m)
  <2>. DEFINE q == p + Len(h)
  <2>. HIDE DEF m, q
  <2>1. q \in Nat /\ q + Len(o) <= m
    BY <1>4 DEF q
  <2>2. Under(Append(c.stores, [at |-> q, octets |-> o]), m)
    BY <1>1, <1>4, <2>1, UnderMore
  <2>3. QED BY <2>2 DEF q
<1>6. Under(Append(Append(c.stores, A), B), m)
  <2>. HIDE DEF m, A
  <2>1. QED BY <1>1, <1>4, <1>5, UnderMore
<1>7. d.pos = m /\ d.stores = Append(Append(c.stores, A), B)
      /\ d = [pos |-> d.pos, stores |-> d.stores]
  BY <1>2, <1>3
<1>. HIDE DEF m, A, B
<1>8. QED BY <1>4, <1>6, <1>7 DEF Beyond, IsInside, d, p

\* Nor do several blocks.
LEMMA BlocksInside ==
  ASSUME NEW c, IsInside(c), NEW bs \in Seq(BlockType)
  PROVE  Beyond(PutBlocks(c, bs), c)
<1>. DEFINE T == {ls \in Seq(BlockType) : Beyond(PutBlocks(c, ls), c)}
<1>1. <<>> \in T
  <2>1. Beyond(c, c)
    BY DEF Beyond, IsInside
  <2>2. QED BY <2>1, PutBlocksNone
<1>2. ASSUME NEW ls \in Seq(BlockType), NEW b \in BlockType, ls \in T
      PROVE  Append(ls, b) \in T
  <2>. DEFINE d == PutBlocks(c, ls) e == PutBlock(d, b)
  <2>1. Beyond(d, c)
    BY <1>2
  <2>2. PutBlocks(c, Append(ls, b)) = e
    BY PutBlocksMore
  <2>3. b.header \in Value /\ b.data \in Value
    BY WholeTyped
  <2>. HIDE DEF d
  <2>4. Beyond(e, d)
    BY <2>1, <2>3, BlockInside DEF Beyond
  <2>. HIDE DEF e
  <2>5. Beyond(e, c)
    BY <2>1, <2>4 DEF Beyond, IsInside
  <2>6. Append(ls, b) \in Seq(BlockType)
    OBVIOUS
  <2>7. QED BY <2>2, <2>5, <2>6
<1>3. bs \in T
  <2>. HIDE DEF T
  <2>1. QED BY <1>1, <1>2, InductionOver
<1>4. QED BY <1>3

\* Nor does a compressed body.
LEMMA PackedInside ==
  ASSUME NEW c, IsInside(c), NEW data \in Value, Compressed(data) \in Value
  PROVE  Beyond(PutCompressed(c, data), c)
<1>. DEFINE p == c.pos o == Compressed(data) a == LE(Len(data), 4) b == LE(Len(o), 4)
            m == p + 8 + Len(o)
            A == [at |-> p + 8, octets |-> o] B == [at |-> p, octets |-> a]
            C == [at |-> p + 4, octets |-> b]
            d == PutCompressed(c, data)
<1>1. p \in Nat /\ Under(c.stores, p) /\ c.stores \in Seq(StoreOfOctets)
  BY DEF IsInside, Under
<1>2. o \in Value /\ Len(o) \in Nat
  BY DEF Value
<1>3. a \in Value /\ b \in Value /\ Len(a) = 4 /\ Len(b) = 4
  <2>1. Len(data) \in Int /\ Len(o) \in Int
    BY <1>2 DEF Value
  <2>. HIDE DEF o
  <2>2. QED BY <2>1, LEIs
<1>4. d = [pos |-> m, stores |-> c.stores \o <<A, B, C>>]
  BY DEF PutCompressed
<1>. HIDE DEF d, p, o, a, b
<1>5. c.stores \o <<A, B, C>> = Append(Append(Append(c.stores, A), B), C)
  <2>1. A \in StoreOfOctets /\ B \in StoreOfOctets /\ C \in StoreOfOctets
    BY <1>1, <1>2, <1>3 DEF StoreOfOctets, Value
  <2>. DEFINE list == c.stores
  <2>2. list \in Seq(StoreOfOctets)
    BY <1>1
  <2>. HIDE DEF A, B, C, m, list
  <2>3. \A x, y, z \in StoreOfOctets :
          list \o <<x, y, z>> = Append(Append(Append(list, x), y), z)
    BY <2>2, Append3
  <2>4. list \o <<A, B, C>> = Append(Append(Append(list, A), B), C)
    BY <2>1, <2>3
  <2>5. QED BY <2>4 DEF list
<1>. DEFINE q == p + 8 r == p + 4
<1>6. m \in Nat /\ p <= m /\ q \in Nat /\ r \in Nat /\ q + Len(o) <= m /\ p + Len(a) <= m
      /\ r + Len(b) <= m /\ m <= m
  BY <1>1, <1>2, <1>3
<1>. HIDE DEF m, q, r
<1>7. Under(Append(c.stores, [at |-> q, octets |-> o]), m)
  BY <1>1, <1>2, <1>6, UnderMore
<1>. DEFINE l1 == Append(c.stores, [at |-> q, octets |-> o])
<1>. HIDE DEF l1
<1>8. Under(Append(l1, [at |-> p, octets |-> a]), m)
  BY <1>1, <1>3, <1>6, <1>7, UnderMore DEF l1
<1>. DEFINE l2 == Append(l1, [at |-> p, octets |-> a])
<1>. HIDE DEF l2
<1>9. Under(Append(l2, [at |-> r, octets |-> b]), m)
  BY <1>3, <1>6, <1>8, UnderMore DEF l2
<1>10. Under(c.stores \o <<A, B, C>>, m)
  BY <1>5, <1>9 DEF l1, l2, q, r
<1>11. d.pos = m /\ d.stores = c.stores \o <<A, B, C>> /\ d = [pos |-> d.pos, stores |-> d.stores]
  BY <1>4
<1>. HIDE DEF A, B, C
<1>12. QED BY <1>6, <1>10, <1>11 DEF Beyond, IsInside, d, p

\* The entries of the location table are inside the space that was left for it, so no store of a
\* body is behind its end.
LEMMA BodyInside ==
  ASSUME NEW c, IsInside(c), NEW s, Sane(s), NEW base \in Int
  PROVE  Beyond(PutBody(c, s, base), c)
<1>. DEFINE sf1 == Store(s, Field("form_ids", "le32", <<"le32">>))
            sf2 == Store(s, Field("world_spaces", "le32", <<"le32">>))
            sf3 == Store(s, Field("unknown3", "le32", <<"u8">>))
            version  == Put(c, VersionPart(s))
            table    == PutBlock(version, SimpleBlock(plugin_info_octets(s)))
            globals1 == Put(table, Space)
            globals2 == PutBlocks(globals1, RunBlocks(s, 0, 12))
            forms    == PutBlocks(globals2, RunBlocks(s, 12, 18))
            globals3 == PutBlocks(forms, FormBlocks(s))
            form_ids == PutBlocks(globals3, RunBlocks(s, 30, 8))
            spaces   == Put(form_ids, sf1)
            unknown3 == Put(spaces, sf2)
            end      == Put(unknown3, sf3)
            n1 == Len(RunBlocks(s, 0, 12)) n2 == Len(RunBlocks(s, 12, 18))
            n3 == Len(RunBlocks(s, 30, 8)) - 1 n4 == Len(s.change_forms)
            places   == [i \in 1..6 |-> <<form_ids, unknown3, globals1, globals2, forms,
                                          globals3>>[i].pos - base]
            entries  == places \o <<n1, n2, n3, n4>>
<1>1. PutBody(c, s, base) =
        [end EXCEPT !.stores = @ \o
            [i \in 1..10 |-> [at |-> table.pos + 4 * (i - 1), octets |-> LE(entries[i], 4)]]]
  <2>1. /\ GlobalBlocks(s, Table1) = RunBlocks(s, 0, 12)
        /\ GlobalBlocks(s, Table2) = RunBlocks(s, 12, 18)
        /\ GlobalBlocks(s, Table3) = RunBlocks(s, 30, 8)
    BY TablesAre
  <2>2. QED BY <2>1 DEF PutBody, VersionPart, Space
<1>2. BodyTyped(s) /\ Good(s)
  BY BodyIsTyped, SaneParts
<1>3. sf1 \in Value /\ sf2 \in Value /\ sf3 \in Value
  BY <1>2, TailTyped
<1>. HIDE DEF sf1, sf2, sf3
<1>4. Beyond(version, c)
  BY <1>2, PutInside DEF BodyTyped
<1>. HIDE DEF version
<1>5. Beyond(table, version)
  BY <1>2, <1>4, BlockInside DEF BodyTyped, Beyond
<1>. HIDE DEF table
<1>6. Beyond(globals1, table) /\ globals1.pos = table.pos + 100
  <2>1. IsInside(table) /\ Space \in Value /\ Len(Space) = 100
    BY <1>5, SpaceTyped DEF Beyond
  <2>2. \A o \in Value : Beyond(Put(table, o), table) /\ Put(table, o).pos = table.pos + Len(o)
    BY <2>1, PutInside
  <2>3. Beyond(globals1, table) /\ globals1.pos = table.pos + Len(Space)
    BY <2>1, <2>2, Zenon
  <2>4. QED BY <2>1, <2>3
<1>. HIDE DEF globals1
<1>7. Beyond(globals2, globals1)
  BY <1>2, <1>6, BlocksInside DEF BodyTyped, Beyond
<1>. HIDE DEF globals2
<1>8. Beyond(forms, globals2)
  BY <1>2, <1>7, BlocksInside DEF BodyTyped, Beyond
<1>. HIDE DEF forms
<1>9. Beyond(globals3, forms)
  BY <1>2, <1>8, BlocksInside DEF BodyTyped, Beyond
<1>. HIDE DEF globals3
<1>10. Beyond(form_ids, globals3)
  BY <1>2, <1>9, BlocksInside DEF BodyTyped, Beyond
<1>. HIDE DEF form_ids
<1>11. Beyond(spaces, form_ids)
  BY <1>3, <1>10, PutInside DEF Beyond
<1>. HIDE DEF spaces
<1>12. Beyond(unknown3, spaces)
  BY <1>3, <1>11, PutInside DEF Beyond
<1>. HIDE DEF unknown3
<1>13. Beyond(end, unknown3)
  BY <1>3, <1>12, PutInside DEF Beyond
<1>. HIDE DEF end
<1>14. /\ c.pos \in Nat /\ version.pos \in Nat /\ table.pos \in Nat /\ globals1.pos \in Nat
       /\ globals2.pos \in Nat /\ forms.pos \in Nat /\ globals3.pos \in Nat /\ form_ids.pos \in Nat
       /\ spaces.pos \in Nat /\ unknown3.pos \in Nat /\ end.pos \in Nat
  BY <1>4, <1>5, <1>6, <1>7, <1>8, <1>9, <1>10, <1>11, <1>12, <1>13 DEF Beyond, IsInside
<1>15. end.pos >= c.pos /\ end.pos >= table.pos + 100
  <2>1. version.pos >= c.pos /\ table.pos >= version.pos /\ globals1.pos = table.pos + 100
        /\ globals2.pos >= globals1.pos /\ forms.pos >= globals2.pos
        /\ globals3.pos >= forms.pos /\ form_ids.pos >= globals3.pos
        /\ spaces.pos >= form_ids.pos /\ unknown3.pos >= spaces.pos /\ end.pos >= unknown3.pos
    BY <1>4, <1>5, <1>6, <1>7, <1>8, <1>9, <1>10, <1>11, <1>12, <1>13, Zenon DEF Beyond
  <2>2. QED BY <1>14, <2>1
<1>16. \A i \in 1..10 : entries[i] \in Int
  <2>1. n1 \in Nat /\ n2 \in Nat /\ n3 \in Int /\ n4 \in Nat
    BY <1>2 DEF BodyTyped
  <2>. HIDE DEF n1, n2, n3, n4
  <2>. DEFINE f == [i \in 1..6 |-> <<form_ids, unknown3, globals1, globals2, forms,
                                     globals3>>[i].pos - base]
  <2>2. \A i \in 1..6 : f[i] \in Int
    <3>1. \A i \in 1..6 : <<form_ids, unknown3, globals1, globals2, forms, globals3>>[i].pos \in Nat
      BY SMTT(30), <1>14
    <3>2. ASSUME NEW i \in 1..6 PROVE f[i] \in Int
      BY <3>1
    <3>3. QED BY <3>2
  <2>3. [i \in 1..6 |-> f[i]] = places
    OBVIOUS
  <2>. HIDE DEF f, places
  <2>4. LET e == [i \in 1..6 |-> f[i]] \o <<n1, n2, n3, n4>>
        IN  /\ \A i \in 1..10 : e[i] \in Int
            /\ e[7] = n1 /\ e[8] = n2 /\ e[9] = n3 /\ e[10] = n4
    BY <2>1, <2>2, EntriesAre
  <2>5. QED BY <2>3, <2>4
<1>. HIDE DEF entries
<1>. DEFINE t == table.pos more == [i \in 1..10 |-> [at |-> t + 4 * (i - 1), octets |-> LE(entries[i], 4)]]
            m == end.pos
<1>17. ASSUME NEW i \in 1..10
       PROVE  more[i] \in StoreOfOctets /\ more[i].at + Len(more[i].octets) <= m
  <2>1. t + 4 * (i - 1) \in Nat /\ t + 4 * (i - 1) + 4 <= m
    BY <1>14, <1>15
  <2>2. LE(entries[i], 4) \in Seq(Octet) /\ Len(LE(entries[i], 4)) = 4
    BY <1>16, LEIs DEF Value
  <2>3. more[i].at = t + 4 * (i - 1) /\ more[i].octets = LE(entries[i], 4)
        /\ more[i] = [at |-> t + 4 * (i - 1), octets |-> LE(entries[i], 4)]
    OBVIOUS
  <2>. HIDE DEF more, t, m
  <2>4. QED BY <2>1, <2>2, <2>3 DEF StoreOfOctets
<1>18. more \in Seq(StoreOfOctets) /\ DOMAIN more = 1..10
  <2>1. more \in [1..10 -> StoreOfOctets]
    BY <1>17
  <2>. HIDE DEF more
  <2>2. QED BY ZenonT(40), <2>1, FunctionIsSeq
<1>19. Under(more, m)
  <2>. HIDE DEF more, m
  <2>1. QED BY <1>17, <1>18 DEF Under
<1>20. Under(end.stores, m) /\ end = [pos |-> end.pos, stores |-> end.stores]
  BY <1>13 DEF Beyond, IsInside
<1>. DEFINE d == [pos |-> m, stores |-> end.stores \o more]
<1>21. PutBody(c, s, base) = d
  <2>1. PutBody(c, s, base) = [end EXCEPT !.stores = @ \o more]
    BY <1>1 DEF entries
  <2>. HIDE DEF more
  <2>2. QED BY <1>20, <2>1
<1>. HIDE DEF more
<1>22. Under(end.stores \o more, m)
  BY <1>19, <1>20, UnderBoth
<1>23. d.pos = m /\ d.stores = end.stores \o more /\ d = [pos |-> d.pos, stores |-> d.stores]
  OBVIOUS
<1>. HIDE DEF d
<1>24. Beyond(d, c)
  BY <1>14, <1>15, <1>22, <1>23 DEF Beyond, IsInside
<1>25. QED BY <1>21, <1>24

\* The front of the file.
LEMMA FrontInside ==
  ASSUME NEW s, Sane(s)
  PROVE  IsInside(Put(PutBlock(Put(Begin, Signature[s.game]), SimpleBlock(file_header_octets(s))),
                    FlattenSeq(s.snapshot_data)))
<1>1. s["game"] \in Games /\ Good(s) /\ s["snapshot_data"] \in Seq(Value)
  BY SaneParts
<1>2. Signature[s.game] \in Value
  BY <1>1, SignatureTyped
<1>3. SnapshotPart(s) \in Value
  BY <1>1, FlattenTyped DEF SnapshotPart, Value
<1>4. /\ SimpleBlock(file_header_octets(s)).header \in Value
      /\ SimpleBlock(file_header_octets(s)).data \in Value
  BY <1>1, HeaderTyped
<1>5. IsInside(Begin)
  BY DEF IsInside, Under, Begin
<1>. DEFINE sig == Signature[s.game] b == SimpleBlock(file_header_octets(s))
            c1 == Put(Begin, sig) c2 == PutBlock(c1, b)
<1>6. IsInside(c1)
  BY <1>2, <1>5, PutInside DEF Beyond
<1>. HIDE DEF c1
<1>7. IsInside(c2)
  BY <1>4, <1>6, BlockInside DEF Beyond
<1>. HIDE DEF c2
<1>8. IsInside(Put(c2, SnapshotPart(s)))
  BY <1>3, <1>7, PutInside DEF Beyond
<1>9. QED BY <1>8 DEF c2, c1, SnapshotPart

\* No store of file_writer is behind the end that cengine_savefile_write will cut the
\* file to, whichever way it ends.
THEOREM StoresFit ==
  ASSUME NEW s, Sane(s), supports_save_file_compression(s) => Number(s["compressor"][1]) <= 2,
         NEW most \in Nat, most < TooMany, CompressorIsUndone(most),
         file_writer(s).buffered <= most
  PROVE  LET plan == file_writer(s)
         IN  /\ plan.end \in {"CG_OK", "CG_COMPRESS", "killed"} /\ plan.size \in Nat
             /\ plan.buffered \in Nat
             /\ plan.stores \in Seq([at : Nat, octets : Seq(Octet)])
             /\ \A i \in DOMAIN plan.stores :
                  plan.stores[i].at + Len(plan.stores[i].octets) <= plan.size
<1>. DEFINE body == Put(PutBlock(Put(Begin, Signature[s.game]),
                                 SimpleBlock(file_header_octets(s))),
                        FlattenSeq(s.snapshot_data))
            compressor == Number(s.compressor[1])
            buffer == PutBody(Begin, s, 0 - body.pos)
            data == Contents(buffer.stores, buffer.pos)
            Result(end, c, n) ==
              [end |-> end, stores |-> c.stores, size |-> c.pos, buffered |-> n]
            plan == file_writer(s)
<1>1. plan =
        IF ~supports_save_file_compression(s) THEN Result("CG_OK", PutBody(body, s, 0), 0)
        ELSE CASE compressor = 0 ->
                    Result("killed", PutBody([body EXCEPT !.pos = @ + 8], s, 8), 0)
               [] compressor = 1 -> Result("CG_COMPRESS", body, buffer.pos)
               [] compressor = 2 -> Result("CG_OK", PutCompressed(body, data), buffer.pos)
  BY DEF file_writer, Begin
<1>2. IsInside(body)
  BY FrontInside
<1>3. Holds(body, FrontPart(s))
  BY HoldsFront
<1>4. compressor \in Nat
  BY SaneParts, NumbersOf
<1>. HIDE DEF body, compressor, buffer, plan
<1>12. buffer.pos \in Nat /\ data \in Value /\ Len(data) = buffer.pos
  <2>1. Holds(Begin, <<>>)
    BY HoldsNone DEF Begin
  <2>2. 0 - body.pos \in Int
    BY <1>3, HoldsIs
  <2>3. PICK x : Holds(buffer, x)
    <3>. DEFINE n == 0 - body.pos
    <3>1. n \in Int
      BY <2>2
    <3>. HIDE DEF n
    <3>2. \E x : Holds(PutBody(Begin, s, n), x)
      BY <2>1, <3>1, HoldsBody
    <3>3. QED BY <3>2 DEF n, buffer
  <2>4. x \in Value /\ buffer.pos = Len(x) /\ data = x
    BY <2>3, HoldsAll, HoldsIs
  <2>5. Len(x) \in Nat
    BY <2>4 DEF Value
  <2>6. QED BY <2>4, <2>5
<1>. HIDE DEF data
<1>5. ASSUME NEW c, IsInside(c), NEW n \in Nat, NEW end \in {"CG_OK", "CG_COMPRESS", "killed"},
             plan = Result(end, c, n)
      PROVE  /\ plan.end \in {"CG_OK", "CG_COMPRESS", "killed"} /\ plan.size \in Nat
             /\ plan.buffered \in Nat
             /\ plan.stores \in Seq([at : Nat, octets : Seq(Octet)])
             /\ \A i \in DOMAIN plan.stores :
                  plan.stores[i].at + Len(plan.stores[i].octets) <= plan.size
  BY <1>5 DEF IsInside, Under, StoreOfOctets
<1>6. CASE ~supports_save_file_compression(s)
  <2>1. IsInside(PutBody(body, s, 0))
    BY <1>2, BodyInside DEF Beyond
  <2>2. plan = Result("CG_OK", PutBody(body, s, 0), 0)
    BY <1>1, <1>6
  <2>3. QED BY <1>5, <2>1, <2>2 DEF plan
<1>7. CASE supports_save_file_compression(s) /\ compressor = 0
  <2>. DEFINE c == [body EXCEPT !.pos = @ + 8]
  <2>1. IsInside(c)
    <3>. DEFINE p == body.pos
    <3>1. p \in Nat /\ Under(body.stores, p) /\ body = [pos |-> p, stores |-> body.stores]
      BY <1>2 DEF IsInside
    <3>2. c = [pos |-> p + 8, stores |-> body.stores]
      BY <3>1
    <3>. HIDE DEF c, p
    <3>3. Under(body.stores, p + 8)
      <4>. DEFINE list == body.stores
      <4>. HIDE DEF list
      <4>1. list \in Seq(StoreOfOctets) /\ \A i \in DOMAIN list : list[i].at + Len(list[i].octets) <= p
        BY <3>1 DEF Under, list
      <4>2. \A i \in DOMAIN list : list[i] \in StoreOfOctets
        BY <4>1
      <4>3. \A x \in StoreOfOctets : x.at + Len(x.octets) \in Nat
        BY DEF StoreOfOctets
      <4>4. \A m \in Nat : m <= p => m <= p + 8
        BY <3>1
      <4>5. QED BY <4>1, <4>2, <4>3, <4>4, Zenon DEF Under, list
    <3>4. c.pos = p + 8 /\ c.stores = body.stores /\ c = [pos |-> c.pos, stores |-> c.stores]
      BY <3>2
    <3>5. QED BY <3>1, <3>3, <3>4 DEF IsInside
  <2>. HIDE DEF c
  <2>2. IsInside(PutBody(c, s, 8))
    BY <2>1, BodyInside DEF Beyond
  <2>3. plan = Result("killed", PutBody(c, s, 8), 0)
    BY <1>1, <1>7 DEF c
  <2>4. QED BY <1>5, <2>2, <2>3 DEF plan
<1>8. CASE supports_save_file_compression(s) /\ compressor = 1
  <2>1. plan = Result("CG_COMPRESS", body, buffer.pos)
    BY <1>1, <1>8
  <2>2. QED BY <1>2, <1>5, <1>12, <2>1 DEF plan
<1>9. CASE supports_save_file_compression(s) /\ compressor = 2
  <2>1. plan = Result("CG_OK", PutCompressed(body, data), buffer.pos)
    BY <1>1, <1>9
  <2>2. plan.buffered = buffer.pos
    BY <2>1
  <2>3. Len(data) <= most
    BY <1>12, <2>2 DEF plan
  <2>4. Packable(data)
    BY <1>12, <2>3, CompressedIs
  <2>5. IsInside(PutCompressed(body, data))
    BY <1>2, <2>4, PackedInside DEF Beyond, Packable
  <2>6. QED BY <1>5, <1>12, <2>1, <2>5 DEF plan
<1>10. compressor \in {0, 1, 2} \/ ~supports_save_file_compression(s)
  BY <1>4 DEF compressor
<1>11. QED BY <1>6, <1>7, <1>8, <1>9, <1>10 DEF plan
-----------------------------------------------------------------------------
(* The inductive invariant. *)

\* What was read of the file of the game is well-formed; what was written is the file of
\* what was read, and not too big; and what is read again says the same, or is too short.
RoundTripInv ==
  /\ given \in Files
  /\ \/ /\ pc \in {"made", "refused"} /\ file = given.octets
        /\ save = savegame_alloc /\ first = savegame_alloc
     \/ /\ pc = "read" /\ file = given.octets
        /\ WellFormed(first) /\ save = first
     \/ /\ pc \in {"failed", "killed", "no_room"} /\ file \in Value
        /\ WellFormed(first) /\ save = first
     \/ /\ pc = "written" /\ FileIs(file, first) /\ Len(file) <= MaxFile
        /\ WellFormed(first) /\ save = first
     \/ /\ pc = "read_again" /\ file \in Value /\ ~(Len(file) < MinFileSize)
        /\ WellFormed(first) /\ WellFormed(save) /\ Says(save) = Says(first)
     \/ /\ pc = "refused_again" /\ file \in Value /\ Len(file) < MinFileSize
        /\ WellFormed(first) /\ save = savegame_alloc

\* Initially nothing was read or written.
LEMMA InitRoundTrip == Init => RoundTripInv
BY DEF Init, RoundTripInv

\* A given file is octets, fewer than the model's largest number.
LEMMA GivenTyped ==
  ASSUME given \in Files
  PROVE  given.octets \in Value /\ Len(given.octets) < TooMany
BY RoundTripAssumption DEF Value

\* Reading a file of a game.
LEMMA ReadKeeps ==
  ASSUME DecompressorIsSafe
  PROVE  RoundTripInv /\ Read => RoundTripInv'
<1>. SUFFICES ASSUME RoundTripInv, Read PROVE RoundTripInv'
  OBVIOUS
<1>1. pc = "made" /\ given \in Files /\ file = given.octets
  BY DEF RoundTripInv, Read
<1>2. given' = given /\ file' = file
  BY DEF Read
<1>. DEFINE r == file_reader(file)
<1>3. pc' = (IF r.ok THEN "read" ELSE "refused") /\ save' = r.save /\ first' = r.save
  BY DEF Read
<1>4. file \in Value /\ Len(file) < TooMany
  BY <1>1, GivenTyped
<1>5. /\ r.ok => WellFormed(r.save)
      /\ ~r.ok => r.save = savegame_alloc
  BY <1>4, AcceptedIsWellFormed
<1>. HIDE DEF r
<1>6. CASE r.ok
  <2>1. pc' = "read" /\ WellFormed(first') /\ save' = first'
    BY <1>3, <1>5, <1>6
  <2>2. WellFormed(first)'
    BY <2>1
  <2>3. given' \in Files /\ file' = given'.octets
    BY <1>1, <1>2
  <2>4. QED BY <2>1, <2>2, <2>3 DEF RoundTripInv
<1>7. CASE ~r.ok
  <2>1. pc' = "refused" /\ save' = savegame_alloc /\ first' = savegame_alloc
    BY <1>3, <1>5, <1>7
  <2>2. given' \in Files /\ file' = given'.octets
    BY <1>1, <1>2
  <2>3. QED BY <2>1, <2>2 DEF RoundTripInv
<1>8. QED BY <1>6, <1>7

\* Writing what was read.
LEMMA WriteKeeps ==
  ASSUME CompressorIsUndone(MaxFile)
  PROVE  RoundTripInv /\ Write => RoundTripInv'
<1>. SUFFICES ASSUME RoundTripInv, Write PROVE RoundTripInv'
  OBVIOUS
<1>1. pc = "read" /\ given \in Files /\ WellFormed(first) /\ save = first
  BY DEF RoundTripInv, Write
<1>2. given' = given /\ save' = save /\ first' = first
  BY DEF Write
<1>. DEFINE r == file_writer(save)
<1>. DEFINE fits == r.size <= MaxFile /\ r.buffered <= MaxFile
<1>3. /\ pc' = CASE ~fits -> "no_room"
                 [] fits /\ r.end = "CG_OK" -> "written"
                 [] fits /\ r.end = "CG_COMPRESS" -> "failed"
                 [] fits /\ r.end = "killed" -> "killed"
      /\ file' = IF fits THEN Contents(r.stores, r.size) ELSE <<>>
  BY DEF Write
<1>4. given' \in Files /\ WellFormed(first)' /\ save' = first'
  BY <1>1, <1>2
<1>5. fits => \E y : WrittenAs(r, y, first)
  <2>1. /\ Sane(first)
        /\ supports_save_file_compression(first) => Number(first["compressor"][1]) <= 2
    BY <1>1 DEF WellFormed
  <2>2. MaxFile \in Nat /\ MaxFile < TooMany
    BY RoundTripAssumption
  <2>3. fits => r.buffered <= MaxFile
    OBVIOUS
  <2>4. QED BY <1>1, <2>1, <2>2, <2>3, WriterIs
<1>. HIDE DEF r
<1>6. CASE ~fits
  <2>. HIDE DEF fits
  <2>1. pc' = "no_room" /\ file' = <<>>
    BY <1>3, <1>6
  <2>2. file' \in Value
    BY <2>1 DEF Value
  <2>3. QED BY <1>4, <2>1, <2>2 DEF RoundTripInv
<1>7. CASE fits
  <2>1. PICK y : WrittenAs(r, y, first)
    BY <1>5, <1>7
  <2>2. /\ r.end \in {"CG_OK", "CG_COMPRESS", "killed"} /\ y \in Value /\ r.size = Len(y)
        /\ Contents(r.stores, r.size) = y
        /\ r.end = "CG_OK" => FileIs(y, first)
    BY <2>1 DEF WrittenAs
  <2>3. Len(y) <= MaxFile
    BY <1>7, <2>2
  <2>. HIDE DEF fits
  <2>4. file' = y
    BY <1>3, <1>7, <2>2
  <2>5. CASE r.end = "CG_OK"
    <3>1. pc' = "written"
      BY <1>3, <1>7, <2>5
    <3>2. Len(file)' <= MaxFile'
      BY <2>3, <2>4
    <3>3. FileIs(file, first)'
      BY <1>2, <2>2, <2>4, <2>5
    <3>4. QED BY <1>4, <3>1, <3>2, <3>3 DEF RoundTripInv
  <2>6. CASE r.end \in {"CG_COMPRESS", "killed"}
    <3>1. pc' \in {"failed", "killed"}
      BY <1>3, <1>7, <2>6
    <3>2. file' \in Value
      BY <2>2, <2>4
    <3>3. QED BY <1>4, <3>1, <3>2 DEF RoundTripInv
  <2>7. QED BY <2>2, <2>5, <2>6
<1>8. QED BY <1>6, <1>7

\* Reading what was written.
LEMMA ReadAgainKeeps ==
  ASSUME DecompressorIsSafe
  PROVE  RoundTripInv /\ ReadAgain => RoundTripInv'
<1>. SUFFICES ASSUME RoundTripInv, ReadAgain PROVE RoundTripInv'
  OBVIOUS
<1>1. /\ pc = "written" /\ given \in Files /\ FileIs(file, first) /\ Len(file) <= MaxFile
      /\ WellFormed(first)
  BY DEF RoundTripInv, ReadAgain
<1>2. given' = given /\ file' = file /\ first' = first
  BY DEF ReadAgain
<1>. DEFINE r == file_reader(file)
<1>3. pc' = (IF r.ok THEN "read_again" ELSE "refused_again") /\ save' = r.save
  BY DEF ReadAgain
<1>4. file \in Value /\ Len(file) < TooMany
  <2>1. file \in Value
    BY <1>1 DEF FileIs
  <2>2. Len(file) \in Nat
    BY <2>1
  <2>3. TooMany \in Nat
    BY TooManyIs
  <2>4. MaxFile \in Nat /\ MaxFile < TooMany
    BY RoundTripAssumption
  <2>5. Len(file) < TooMany
    BY <1>1, <2>2, <2>3, <2>4
  <2>6. QED BY <2>1, <2>5
<1>5. /\ r.ok <=> ~(Len(file) < MinFileSize)
      /\ IF Len(file) < MinFileSize THEN r.save = savegame_alloc
         ELSE WellFormed(r.save) /\ Says(r.save) = Says(first)
  BY <1>1, <1>4, WrittenIsRead
<1>. HIDE DEF r
<1>6. given' \in Files /\ file' \in Value /\ WellFormed(first)'
  BY <1>1, <1>2, <1>4
<1>7. CASE Len(file) < MinFileSize
  <2>1. pc' = "refused_again" /\ save' = savegame_alloc
    BY <1>3, <1>5, <1>7
  <2>2. Len(file') < MinFileSize
    BY <1>2, <1>7
  <2>3. QED BY <1>6, <2>1, <2>2 DEF RoundTripInv
<1>8. CASE ~(Len(file) < MinFileSize)
  <2>1. pc' = "read_again" /\ save' = r.save
    BY <1>3, <1>5, <1>8
  <2>2. WellFormed(save)' /\ (Says(save) = Says(first))' /\ ~(Len(file') < MinFileSize)
    BY <1>2, <1>5, <1>8, <2>1
  <2>3. QED BY <1>6, <2>1, <2>2 DEF RoundTripInv
<1>9. QED BY <1>7, <1>8

\* No step breaks the inductive invariant.
LEMMA NextRoundTrip ==
  ASSUME DecompressorIsSafe, CompressorIsUndone(MaxFile)
  PROVE  RoundTripInv /\ [Next]_vars => RoundTripInv'
<1>. SUFFICES ASSUME RoundTripInv, [Next]_vars PROVE RoundTripInv'
  OBVIOUS
<1>1. CASE Read
  BY <1>1, ReadKeeps
<1>2. CASE Write
  BY <1>2, WriteKeeps
<1>3. CASE ReadAgain
  BY <1>3, ReadAgainKeeps
<1>4. CASE Ended \/ UNCHANGED vars
  <2>1. UNCHANGED vars
    BY <1>4 DEF Ended
  <2>2. pc' = pc /\ given' = given /\ file' = file /\ save' = save /\ first' = first
    BY <2>1 DEF vars
  <2>3. QED BY <2>2 DEF RoundTripInv
<1>5. QED BY <1>1, <1>2, <1>3, <1>4 DEF Next

\* Every save and every file of the round trip holds octets.
LEMMA FieldsTyped ==
  ASSUME NEW s, SaveTyped(s)
  PROVE  /\ DOMAIN s = DOMAIN savegame_alloc
         /\ \A f \in AllFields : \A i \in DOMAIN s[f.name] : IsValue(s[f.name][i])
         /\ \A form \in ToSet(s.change_forms) : form.type < 192 /\ form.form_id[4] = 0
<1>1. \A v \in Value : IsValue(v)
  BY DEF IsValue, Value
<1>2. \A f \in AllFields : \A i \in DOMAIN s[f.name] : IsValue(s[f.name][i])
  <2>1. SUFFICES ASSUME NEW f \in AllFields, NEW i \in DOMAIN s[f.name] PROVE IsValue(s[f.name][i])
    OBVIOUS
  <2>2. f.name \in AllNames
    BY AllFieldsAre, FieldNamedIs DEF AllFieldsSet
  <2>3. s[f.name][i] \in Value
    BY <2>2 DEF SaveTyped
  <2>4. QED BY <1>1, <2>3
<1>3. QED BY <1>2 DEF SaveTyped

\* The inductive invariant has the types.
LEMMA TypedRoundTrip == RoundTripInv => TypeOK
<1>. SUFFICES ASSUME RoundTripInv PROVE TypeOK
  OBVIOUS
<1>1. /\ given \in Files
      /\ pc \in {"made", "read", "written", "read_again", "refused", "failed", "killed",
               "no_room", "refused_again"}
  BY DEF RoundTripInv
<1>2. file \in Value
  <2>1. given.octets \in Value
    BY <1>1, GivenTyped
  <2>2. FileIs(file, first) => file \in Value
    BY DEF FileIs
  <2>3. QED BY <2>1, <2>2 DEF RoundTripInv
<1>3. IsValue(file)
  BY <1>2 DEF IsValue, Value
<1>4. CASE pc \in {"made", "refused"}
  <2>1. save = savegame_alloc /\ first = savegame_alloc
    BY <1>4 DEF RoundTripInv
  <2>2. SaveTyped(save) /\ SaveTyped(first)
    BY <2>1, AllocTyped
  <2>3. QED BY <1>1, <1>3, <1>4, <2>2, FieldsTyped DEF TypeOK
<1>5. CASE pc = "refused_again"
  <2>1. save = savegame_alloc /\ WellFormed(first)
    BY <1>5 DEF RoundTripInv
  <2>2. SaveTyped(save) /\ SaveTyped(first)
    BY <2>1, AllocTyped, ReadTyped
  <2>3. QED BY <1>1, <1>3, <1>5, <2>2, FieldsTyped DEF TypeOK
<1>6. CASE pc \notin {"made", "refused", "refused_again"}
  <2>1. WellFormed(save) /\ WellFormed(first)
    BY <1>6 DEF RoundTripInv
  <2>2. /\ SaveTyped(save) /\ SaveTyped(first)
        /\ \A s \in {save, first} : \A n \in {"player_name", "race_id"} : Last(s[n][1]) = 0
    BY <2>1, ReadTyped
  <2>3. QED BY <1>1, <1>3, <2>2, FieldsTyped DEF TypeOK
<1>7. QED BY <1>4, <1>5, <1>6

\* The inductive invariant says that a save that was written and read again says
\* the same, unless what was written is too short to be read.
LEMMA SurvivesRoundTrip == RoundTripInv => SaveSurvives
BY DEF RoundTripInv, SaveSurvives

\* The inductive invariant of RoundTrip, for every set of files below 4 GiB and every
\* room below 4 GiB for the written one, the 128 MiB of the code among them, if liblz4
\* keeps its promises: a save that file_reader gives is well-formed, the file that
\* file_writer makes of it has every part at its place, and reading it gives the save
\* back or refuses what is shorter than the least size.
THEOREM RoundTripInvariant ==
  ASSUME DecompressorIsSafe, CompressorIsUndone(MaxFile)
  PROVE  Spec => []RoundTripInv
<1>1. Init => RoundTripInv
  BY InitRoundTrip
<1>2. RoundTripInv /\ [Next]_vars => RoundTripInv'
  BY NextRoundTrip
<1>3. QED BY <1>1, <1>2, PTL DEF Spec

\* The types of RoundTrip's variables: what file_reader accepts has the types of a save
\* whatever octets a file below 4 GiB has, and what file_writer makes of it is octets.
THEOREM RoundTripType ==
  ASSUME DecompressorIsSafe, CompressorIsUndone(MaxFile)
  PROVE  Spec => []TypeOK
<1>1. Spec => []RoundTripInv
  BY RoundTripInvariant
<1>2. RoundTripInv => TypeOK
  BY TypedRoundTrip
<1>3. QED BY <1>1, <1>2, PTL

\* A save that the program read, wrote and read again says what the first one said,
\* whatever octets the first file had: what was written is refused only if it has become
\* shorter than the least size, and nothing in it was lost.
THEOREM NothingIsLost ==
  ASSUME DecompressorIsSafe, CompressorIsUndone(MaxFile)
  PROVE  Spec => []SaveSurvives
<1>1. Spec => []RoundTripInv
  BY RoundTripInvariant
<1>2. RoundTripInv => SaveSurvives
  BY SurvivesRoundTrip
<1>3. QED BY <1>1, <1>2, PTL
=============================================================================
