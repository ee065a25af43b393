------------------------------ MODULE MCRoundTrip ------------------------------
EXTENDS RoundTrip, GameFiles

MCFiles == {[format |-> f, amount |-> a, quirk |-> q, octets |-> FileOf(f, a = "full", q)] :
              f \in GameFormats, a \in Amounts, q \in Quirks}
================================================================================
