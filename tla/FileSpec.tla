------------------------------ MODULE FileSpec ------------------------------
(* What the file calls promise: a tree of directories and files, in which one *)
(* call changes one file or one directory, and a crash changes nothing that   *)
(* was saved.  `sound` turns FALSE when the kernel has panicked or a call has *)
(* damaged the tree; nothing is promised of that step.                        *)
EXTENDS Integers, Sequences

CONSTANTS Names, Cell,
          Longest       \* the most cells a call asks to write

VARIABLES tree, sound

vars == <<tree, sound>>

\* f becomes g: n cells of the value written from `off`, no more than were asked for;
\* a gap between the end of the file and `off` reads as zeros, never as what the
\* blocks held before.
Written(f, g) ==
    \E off \in 0..Len(g), n \in 0..Longest :
        g = [k \in 1..(IF n > 0 /\ off + n > Len(f) THEN off + n ELSE Len(f)) |->
               IF k \in (off + 1)..(off + n) THEN Cell ELSE IF k <= Len(f) THEN f[k] ELSE 0]

\* f is emptied, or grows by zeros.
Resized(f, g) ==
    \/ g = <<>>
    \/ Len(g) > Len(f) /\ g = [k \in 1..Len(g) |-> IF k <= Len(f) THEN f[k] ELSE 0]

\* The trees t and u agree outside S.
Others(t, u, S) == \A j \in (DOMAIN t) \ S : j \in DOMAIN u /\ u[j] = t[j]

ChangeFile(t, u, i) ==
    /\ t[i].t = "file" /\ u[i].t = "file" /\ (Written(t[i].c, u[i].c) \/ Resized(t[i].c, u[i].c))
    /\ DOMAIN u = DOMAIN t /\ Others(t, u, {i})

Add(t, u, d, i, name) ==
    /\ t[d].t = "dir" /\ u[d] = [t[d] EXCEPT !.e = @ \cup {<<name, i>>}]
    /\ u[i] \in {[t |-> "file", c |-> <<>>], [t |-> "dir", e |-> {}]}
    /\ DOMAIN u = DOMAIN t \cup {i} /\ Others(t, u, {d})

Remove(t, u, d, i, name) ==
    /\ t[d].t = "dir" /\ <<name, i>> \in t[d].e
    /\ u[d] = [t[d] EXCEPT !.e = @ \ {<<name, i>>}]
    /\ DOMAIN u = DOMAIN t \ {i} /\ Others(t, u, {d, i})

Rename(t, u, d, i, old, new) ==
    /\ t[d].t = "dir" /\ <<old, i>> \in t[d].e
    /\ u[d] = [t[d] EXCEPT !.e = (@ \ {<<old, i>>}) \cup {<<new, i>>}]
    /\ DOMAIN u = DOMAIN t /\ Others(t, u, {d})

Change(t, u) ==
    \E i \in DOMAIN t \cap DOMAIN u :
        /\ t[i] /= u[i]
        /\ \/ ChangeFile(t, u, i)
           \/ \E name \in Names :
                \/ \E j \in DOMAIN u \ DOMAIN t : Add(t, u, i, j, name)
                \/ \E j \in DOMAIN t \ DOMAIN u : Remove(t, u, i, j, name)
                \/ \E j \in DOMAIN t, new \in Names : Rename(t, u, i, j, name, new)

Next == sound' = FALSE \/ (UNCHANGED sound /\ Change(tree, tree'))

Init == sound = TRUE

Spec == Init /\ [][Next]_vars
=============================================================================
