----------------------- MODULE MC_AccountRegistration -----------------------
(* Small instances of AccountRegistration.                                  *)
EXTENDS AccountRegistration, TLC

CONSTANTS f1, f2, e1, e2, a1, a2, a3, s1, s2

TwoPhones == {f1, f2}
TwoEmails == {e1, e2}
TwoSubs == {a1, a2}
ThreeSubs == {a1, a2, a3}
OneSlot == {s1}
TwoSlots == {s1, s2}

(* Phones, e-mails, subs and slots are interchangeable.                     *)
Symmetry == Permutations(Phones) \cup Permutations(Emails)
                \cup Permutations(Subs) \cup Permutations(Slots)
=============================================================================
