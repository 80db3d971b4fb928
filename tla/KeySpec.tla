------------------------------ MODULE KeySpec ------------------------------
(***************************************************************************)
(* What the keyboard device promises its readers: a queue of at most Size  *)
(* characters.  A character that arrives while the queue is full takes the *)
(* place of the oldest one; a reader gets what is in the queue in order,   *)
(* and no character goes to two readers.                                   *)
(***************************************************************************)
EXTENDS Integers, Sequences

CONSTANTS Reader, Char, Size

VARIABLES count,        \* characters in the queue
          keys,         \* keys[1] .. keys[count], oldest first
          got           \* got[r]: what r has read in its current call

Init == count = 0 /\ keys = [i \in 1 .. 0 |-> 0] /\ got = [r \in Reader |-> <<>>]

Put(c) ==
  /\ count' = IF count < Size THEN count + 1 ELSE count
  /\ keys' = [i \in 1 .. count' |-> IF i = (IF count < Size THEN count + 1 ELSE 1)
                                    THEN c ELSE keys[i]]
  /\ got' = got

\* r takes n characters, in a new call or to go on with the current one.
Take(r, n) ==
  /\ count' = count - n
  /\ keys' = [i \in 1 .. count' |-> keys[i + n]]
  /\ \E g \in {<<>>, got[r]} :
        got' = [got EXCEPT ![r] = g \o [i \in 1 .. n |-> keys[i]]]

Next == \/ \E c \in Char : Put(c)
        \/ \E r \in Reader : \E n \in 0 .. count : Take(r, n)

Spec == Init /\ [][Next]_<<count, keys, got>>
=============================================================================
