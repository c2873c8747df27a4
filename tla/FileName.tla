------------------------------ MODULE FileName ------------------------------
(***************************************************************************)
(* crow::utility::sanitize_filename (src/include/crow/utility.h), which    *)
(* makes the path of a static file out of the rest of the URL.  A path is  *)
(* a sequence of pieces; the name of a device is one piece.                *)
(***************************************************************************)
EXTENDS Octets

CONSTANT MaxName   \* 255

ASSUME MaxNameAssumption == MaxName \in Nat

Separators == {"/", "\\"}
Devices == {"aux", "con", "nul", "prn"}
NumberedDevices == {"com", "lpt"}
Unsafe == {"?", "<", ">", ":", "*", "|", "\"", "CTL"}

\* sanitizeSpecialFile: n pieces from i on become one "_" if the name ends there.
Special(data, i, n) ==
  IF i + n > Len(data) \/ data[i + n] \in Separators \cup {".", ":"}
  THEN SubSeq(data, 1, i - 1) \o <<"_">> \o SubSeq(data, i + n, Len(data)) ELSE data

SanitizeEntry(data, i) ==
  LET follows(c) == i < Len(data) /\ data[i + 1] \in c IN
  CASE data[i] \in Devices -> Special(data, i, 1)
    [] data[i] \in NumberedDevices /\ follows(Numerals \ {"0"}) -> Special(data, i, 2)
    [] data[i] = "." /\ follows({"."}) -> Special(data, i, 2)
    [] OTHER -> data

\* One round of the loop, at position i; `entry` says that a name begins there.
Visit(s, i) ==
  LET d == IF s.entry THEN SanitizeEntry(s.data, i) ELSE s.data
      bad == d[i] \in Unsafe \/ (i = 1 /\ d[i] \in Separators)
  IN  IF i > Len(s.data) THEN s
      ELSE [data |-> IF bad THEN [d EXCEPT ![i] = "_"] ELSE d,
            entry |-> d[i] \in Separators /\ i > 1]

Cut(data) == SubSeq(data, 1, Least(Len(data), MaxName))

\* The text never grows, so there are at most as many rounds as it is long.
Sanitize(data) ==
  LET walk[i \in 0..Len(Cut(data))] ==
        IF i = 0 THEN [data |-> Cut(data), entry |-> TRUE] ELSE Visit(walk[i - 1], i)
  IN  walk[Len(Cut(data))].data
-----------------------------------------------------------------------------
NameEnds(path, j) == j > Len(path) \/ path[j] \in Separators \cup {"."}

\* The octets of a path may be in a name on any system, it does not begin at the
\* root, and no name in it is a device, with or without an extension, or leads
\* out of the directory.
NothingSpecial(path) ==
  /\ ToSet(path) \cap Unsafe = {}
  /\ \A j \in DOMAIN path :
       j = 1 \/ path[j - 1] \in Separators =>
         /\ j = 1 => path[j] \notin Separators
         /\ ~(path[j] \in Devices /\ NameEnds(path, j + 1))
         /\ ~(/\ path[j] \in NumberedDevices /\ NameEnds(path, j + 2)
              /\ j < Len(path) /\ path[j + 1] \in Numerals \ {"0"})
         /\ ~(/\ path[j] = "." /\ NameEnds(path, j + 2)
              /\ j < Len(path) /\ path[j + 1] = ".")
=============================================================================
