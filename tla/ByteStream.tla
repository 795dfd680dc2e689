----------------------------- MODULE ByteStream -----------------------------
(***************************************************************************)
(* What a pipe promises: the bytes of several sources go into one queue    *)
(* and come out in that order, none lost, repeated or made up; an end of   *)
(* file is only seen behind the last byte of the last source.              *)
(***************************************************************************)
EXTENDS Naturals, Sequences

CONSTANTS
    Sources,    \* who puts bytes in
    MaxMove     \* bound: bytes a step puts in

VARIABLES
    queue,      \* the bytes in it; a byte is its source and its number there
    put,        \* put[p]: how many bytes of p have gone in
    got,        \* got[p]: the numbers of p's bytes that came out, in order
    open,       \* somebody can still put bytes in
    eof         \* who has been told that it has ended

bsvars == <<queue, put, got, open, eof>>

(* The numbers of p's bytes in a sequence of bytes, in order. *)
NumbersOf(p, s) ==
    LET upto[k \in 0..Len(s)] ==
          IF k = 0 THEN <<>>
          ELSE IF s[k][1] = p THEN Append(upto[k-1], s[k][2]) ELSE upto[k-1]
    IN upto[Len(s)]

StreamInit ==
    /\ queue = <<>>
    /\ put = [p \in Sources |-> 0]
    /\ got = [p \in Sources |-> <<>>]
    /\ open = TRUE
    /\ eof = {}

(* n bytes of p go in and k bytes come out, some of them perhaps at once. *)
Move(p, n, k) ==
    LET all == queue \o [j \in 1..n |-> <<p, put[p] + j>>]
    IN /\ open \/ n = 0
       /\ k <= Len(all)
       /\ queue' = SubSeq(all, k + 1, Len(all))
       /\ put' = [put EXCEPT ![p] = @ + n]
       /\ got' = [q \in Sources |-> got[q] \o NumbersOf(q, SubSeq(all, 1, k))]
       /\ eof' \subseteq eof
       /\ UNCHANGED open

(* The last source may leave; readers learn of the end, or forget it. *)
Tell ==
    /\ open' => open
    /\ eof' \subseteq eof \/ (~open' /\ queue = <<>>)
    /\ UNCHANGED <<queue, put, got>>

(* Once nobody puts anything in the stream can be used anew. *)
Renew ==
    /\ ~open
    /\ queue' = <<>> /\ open' = TRUE /\ eof' = {}
    /\ put' = [p \in Sources |-> 0]
    /\ got' = [p \in Sources |-> <<>>]

StreamNext ==
    \/ \E p \in Sources, n \in 0..MaxMove, k \in 0..(Len(queue) + MaxMove) : Move(p, n, k)
    \/ Tell
    \/ Renew

StreamSpec == StreamInit /\ [][StreamNext]_bsvars
=============================================================================
