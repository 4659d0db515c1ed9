------------------------------- MODULE MCPerf -------------------------------
(***************************************************************************)
(* Instances of Perf for TLC.                                              *)
(***************************************************************************)
EXTENDS Perf

O(do, count, routines, stream, maxbeat) ==
    [prog |-> "perf", do |-> do, count |-> count, routines |-> routines,
     stream |-> stream, maxbeat |-> maxbeat]

\* Routines that share the work unevenly, more routines than operations, one
\* routine that opens one stream more than the client has stream objects, and
\* heartbeats: between posts, and on the opaque of a stream that the server
\* still has.  With streamrx they come with one routine only: with two, and as
\* many heartbeats, the opaques go round and the server drops a start of which
\* it still has the stream.
PerfOptions == {O("post", 3, 2, 0, 1), O("request", 3, 2, 0, 0),
              O("streamtx", 2, 2, 1, 0), O("streamtx", 5, 1, 1, 0),
              O("streamtx", 1, 2, 1, 0), O("streamrx", 3, 2, 2, 0),
              O("streamrx", 1, 1, 1, 4)}

\* The example's posts, with heartbeats, and an operation that it ignores.
ExampleOptions == {[O("post", 3, 2, 0, 1) EXCEPT !.prog = "example"],
                   [O("streamrx", 2, 1, 1, 1) EXCEPT !.prog = "example"]}

MCOptions == PerfOptions \cup ExampleOptions
=============================================================================
