------------------------------- MODULE MCVenue -------------------------------
(* Instances of Venue for TLC.                                              *)
EXTENDS Venue

\* an integer that is no id, and two ids that begin with the log's tag for
\* integers: behind the tag one has a word, the other that integer
CONSTANTS TaggedWord, TaggedFive, Five

TaggedIds == {TaggedWord, TaggedFive}
RevivedIds == (TaggedWord :> Corrupt) @@ (TaggedFive :> Five)

\* a client that gives its order an id in the maker's form
MakersId == {<<MM, 0>>}

\* clients that leave naming to the server
NoIds == {}

\* no id has the tag
NothingRevived == [i \in NoIds |-> i]
=============================================================================
