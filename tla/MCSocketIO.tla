----------------------------- MODULE MCSocketIO -----------------------------
(* Vectors of up to four pieces of up to three bytes, and the lengths that *)
(* reach the limits of a system call.                                      *)
EXTENDS CMSocketIO

(* Not as many empty pieces in a row as a system call takes. *)
NoEmptyCall(v) == \A i \in 1 .. Len(v) - 1 : v[i] + v[i + 1] > 0

SmallVectors == {v \in UNION {[1 .. n -> 0 .. 3] : n \in 1 .. 4} : NoEmptyCall(v)}

(* Vectors that fit one system call, or whose pieces are all of a length. *)
EvenVectors == UNION {[1 .. n -> 0 .. 3] : n \in 1 .. 2} \union UNION {[1 .. n -> {k}] : n \in 1 .. 5, k \in 1 .. 3}

LongVectors == {v \in UNION {[1 .. n -> {0, 1, 4, 9}] : n \in 1 .. 4} : NoEmptyCall(v)}

AllVectors ==
  [c \in {"writev", "nonblocking", "long", "read"} |->
     CASE c \in {"writev", "read"} -> SmallVectors
       [] c = "nonblocking" -> EvenVectors
       [] c = "long" -> LongVectors]
=============================================================================
