------------------------------- MODULE MCSaving -------------------------------
EXTENDS Saving, FormatReader, GameFiles

\* The reader finds the body of a save that might be compressed and is not in a file
\* with 8 octets more than the games write.
Uncompressed ==
    LET format == Format("SKYRIM", 12, 78, 0)
        octets == FileOf(format, FALSE, "none")
        front == 13 + 4 + Len(HeaderOf(format, "none")) + Len(Pixels(format, "none")) + 8
    IN  SubSeq(octets, 1, front) \o Same(0, 8) \o SubSeq(octets, front + 1, Len(octets))

MCSaves ==
    LET files == {FileOf(f, a = "full", "none") : f \in GameFormats, a \in Amounts}
    IN  {file_reader(octets).save :
           octets \in {Uncompressed} \cup {octets \in files : file_reader(octets).ok}}
===============================================================================
