-------------------------- MODULE DocumentRegister --------------------------
(***************************************************************************)
(* What numbering promises an accountant: the documents of a studio form a *)
(* register, in which the n-th entry carries number n.  Entries are added  *)
(* one at a time at the end; none is ever removed, moved or repeated.      *)
(***************************************************************************)
EXTENDS Naturals, Sequences

CONSTANT Docs       \* what may be entered

VARIABLE register   \* the documents, in the order of their numbers

Entered == {register[n] : n \in DOMAIN register}

Init == register = <<>>

Enter(d) ==
    /\ d \notin Entered
    /\ register' = Append(register, d)

Next == \E d \in Docs : Enter(d)

Spec == Init /\ [][Next]_register
=============================================================================
