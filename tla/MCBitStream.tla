---------------------------- MODULE MCBitStream -----------------------------
EXTENDS BitStream

Floats == [sign : {0}, exp : {2, 3, 4, 5, 7}, man : {0, 3}]
          \cup [sign : {1}, exp : {4}, man : {1}]
Items ==
  [type : {"bits"}, n : {1}, value : {1}] \cup [type : {"bits"}, n : {4}, value : {5}]
  \cup [type : {"word", "float"}, value : {17}]
  \cup [type : {"varint"}, value : {3, 4, 63}]
  \cup [type : {"string"}, value : {<< >>, <<3, 6>>, <<1, 2, 3>>}]
  \cup [type : {"vector"}, value : {<<33>>, <<33, 5>>}]
  \cup [type : {"delta"}, value : {9}, baseline : {9, 1}]
  \cup [type : {"quantized"}, range : {5}, n : {2}, value : {-1, 3, 5}]
  \cup {[type |-> "quat", value |-> <<1, 2, -2, 0>>]}
  \cup [type : {"half"}, value : Floats]

\* As many bits as a shift of the word takes back to none.
WideItems == [type : {"quantized"}, range : {5}, n : {3}, value : {0, 5}]

\* The largest component is negative.
NegativeItems == {[type |-> "quat", value |-> <<-2, 2, 1, 0>>]}
=============================================================================
