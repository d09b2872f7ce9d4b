--------------------------- MODULE MCFileTransfer ---------------------------
\* FileTransfer for TLC: files of up to nine bytes, a buffer of four, and requests for
\* the whole file, for one or two ranges of each form, and for ranges that are refused.
EXTENDS FileTransfer

MCSpecs == {None} \cup
  {[first |-> a, last |-> b] : <<a, b>> \in
     {<<0, 1>>, <<1, 3>>, <<1, 6>>, <<0, 6>>, <<2, None>>, <<40, None>>, <<70, None>>,
      <<None, 2>>, <<None, 9>>, <<3, 1>>, <<None, None>>}}

NoHeader    == [present |-> FALSE, units |-> FALSE, specs |-> <<>>]
OtherUnits  == [present |-> TRUE, units |-> FALSE, specs |-> <<>>]
Bytes_(s)   == [present |-> TRUE, units |-> TRUE, specs |-> s]

Headers == {NoHeader, OtherUnits, Bytes_(<<>>)} \cup {Bytes_(<<s>>) : s \in MCSpecs}
             \cup {Bytes_(<<s, t>>) : s, t \in MCSpecs \ {None}}

Own == {<<[begin |-> a, total |-> n]>> : <<a, n>> \in {<<0, 0>>, <<1, 2>>, <<0, 5>>, <<127, 2>>}}
         \cup {<<[begin |-> 3, total |-> 1], [begin |-> 0, total |-> 5]>>}

MCQueries ==
  {[written |-> w, open |-> o, chunked |-> c, own |-> <<>>, header |-> NoHeader] :
     w, o, c \in BOOLEAN}
    \cup {[written |-> FALSE, open |-> TRUE, chunked |-> FALSE, own |-> <<>>, header |-> h] : h \in Headers}
    \cup {[written |-> FALSE, open |-> TRUE, chunked |-> FALSE, own |-> w, header |-> NoHeader] : w \in Own}
=============================================================================
