---------------------------- MODULE MCClientCache ----------------------------
(* The instance of ClientCache that TLC checks. *)
EXTENDS ClientCache, TLC

CONSTANTS t1, t2, l1, l2, ch1, s1, s2, c1, c2

TheTasks == {t1, t2}
TheLoops == {l1, l2}
TheChains == {ch1}
TheSettings == {s1, s2}
TheAddresses == {c1, c2}

(* Nothing tells tasks, loops, settings or addresses apart. *)
CacheSymmetry ==
  Permutations(TheTasks) \cup Permutations(TheLoops)
    \cup Permutations(TheSettings) \cup Permutations(TheAddresses)

=============================================================================
