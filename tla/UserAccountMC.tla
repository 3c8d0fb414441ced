---------------------------- MODULE UserAccountMC ----------------------------
(* Small instances of UserAccount. *)
EXTENDS UserAccount, TLC

CONSTANTS u1, u2, w1, w2, t1, t2, p1, p2, p3

OneUser == {u1}
TwoUsers == {u1, u2}
TwoPasswords == {w1, w2}
OneToken == {t1}
TwoTokens == {t1, t2}
TwoProcs == {p1, p2}
ThreeProcs == {p1, p2, p3}

ResetOps == {"register", "login", "reset"}

Symmetry == Permutations(Users) \cup Permutations(Passwords) \cup Permutations(Tokens)
              \cup Permutations(Procs)
==============================================================================
