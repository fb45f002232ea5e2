---- MODULE MCObjectCache ----
EXTENDS ObjectCache
\* The blobs have size 1: a budget of 1 is met by the first and overshot by more.
MCSize == [b \in Blobs |-> 1]
====
