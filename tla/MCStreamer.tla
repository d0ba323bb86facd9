----------------------------- MODULE MCStreamer -----------------------------
(***************************************************************************)
(* An instance of Streamer, with jobs of up to four words.                 *)
(***************************************************************************)
EXTENDS Streamer

CONSTANTS A, B, W

Walk(p, b0, b1, s0, s1) == [ptr |-> p, bounds |-> <<b0, b1>>, strides |-> <<s0, s1>>]
Off == Walk(0, 0, 1, 1, 1)

Job(a, b, w) == [m \in {A, B, W} |-> IF m = A THEN a ELSE IF m = B THEN b ELSE w]

\* Reader A alone walks over a tile across its rows; or both read, one of them,
\* A or B with its delayed start, repeating a word while the other walks.
SmallJobs ==
    {Job(Walk(0, 2, 2, 4, 2), Off, Walk(100, 4, 1, 2, 0)),
     Job(Walk(20, 3, 1, 0, 0), Walk(40, 3, 1, 2, 0), Walk(100, 3, 1, 2, 0)),
     Job(Walk(0, 1, 3, 1, 2), Walk(60, 3, 1, 0, 0), Walk(100, 3, 1, 2, 0))}

\* B repeats a word, then is switched off by its bound alone.
RepeatThenOff ==
    {Job(Walk(0, 2, 1, 1, 1), Walk(60, n, 1, 0, 0), Walk(100, 2, 1, 1, 0)) : n \in {0, 2}}
=============================================================================
