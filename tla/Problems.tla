------------------------------- MODULE Problems -------------------------------
(***************************************************************************)
(* What a build links behind witness.h and mpc.h: the functions of the     *)
(* scheme P, from AlgebraicProtocols or RankProtocols.                     *)
(***************************************************************************)
EXTENDS RankProtocols

ProblemKey(P, draw) ==
  LET name == P.name
  IN CASE name = "biscuit"    -> BiscuitKey(P, draw)
       [] name = "mqom"       -> MqomKey(P, draw)
       [] name = "sdith"      -> SdithKey(P, draw)
       [] name = "aimer"      -> AimerKey(P, draw)
       [] name = "rd"         -> RdKey(P, draw)
       [] name = "minrank_lp" -> MinrankLpKey(P, draw)
       [] name = "mira"       -> MiraKey(P, draw)
       [] name = "mirith"     -> MirithKey(P, draw)
       [] name = "ranksd_lp"  -> RanksdLpKey(P, draw)
       [] name = "ranksd_rd"  -> RanksdRdKey(P, draw)
       [] name = "ryde"       -> RydeKey(P, draw)
ProblemIsCorrect(P, inst, sol) ==
  LET name == P.name
  IN CASE name = "biscuit"    -> BiscuitIsCorrect(P, inst, sol)
       [] name = "mqom"       -> MqomIsCorrect(P, inst, sol)
       [] name = "sdith"      -> SdithIsCorrect(P, inst, sol)
       [] name = "aimer"      -> AimerIsCorrect(P, inst, sol)
       [] name = "rd"         -> RdIsCorrect(P, inst, sol)
       [] name = "minrank_lp" -> MinrankLpIsCorrect(P, inst, sol)
       [] name = "mira"       -> MiraIsCorrect(P, inst, sol)
       [] name = "mirith"     -> MirithIsCorrect(P, inst, sol)
       [] name = "ranksd_lp"  -> RanksdLpIsCorrect(P, inst, sol)
       [] name = "ranksd_rd"  -> RanksdRdIsCorrect(P, inst, sol)
       [] name = "ryde"       -> RydeIsCorrect(P, inst, sol)
ProblemCorrelated(P, ch, wit, unif, inst) ==
  LET name == P.name
  IN CASE name = "biscuit"    -> BiscuitCorrelated(P, wit, unif, inst)
       [] name = "mqom"       -> MqomHint(P, ch, wit, unif, inst)
       [] name = "sdith"      -> SdithCorrelated(P, wit, unif, inst)
       [] name = "aimer"      -> AimerCorrelated(P, wit, unif, inst)
       [] name = "rd"         -> RdCorrelated(P, wit, unif, inst)
       [] name = "minrank_lp" -> LpCorrelated(P, wit, unif, inst)
       [] name = "mira"       -> MiraCorrelated(P, wit, unif, inst)
       [] name = "mirith"     -> MirithCorrelated(P, wit, unif, inst)
       [] name = "ranksd_lp"  -> RanksdLpCorrelated(P, wit, unif, inst)
       [] name = "ranksd_rd"  -> RanksdRdCorrelated(P, wit, unif, inst)
       [] name = "ryde"       -> RydeCorrelated(P, wit, unif, inst)
ProblemRun(P, ch, share, br, inst, offset, entire) ==
  LET name == P.name
  IN CASE name = "biscuit"    -> BiscuitRun(P, ch, share, br, inst, offset, entire)
       [] name = "mqom"       -> MqomRun(P, [ch EXCEPT !.r = MqomPoint(P, @, 1)], share, br, inst, offset, entire)
       [] name = "sdith"      -> SdithRun(P, ch, share, br, inst, offset, entire)
       [] name = "aimer"      -> AimerRun(P, ch, share, br, inst, offset, entire)
       [] name = "rd"         -> RdRun(P, ch, share, br, inst, offset, entire)
       [] name = "minrank_lp" -> MinrankLpRun(P, ch, share, br, inst, offset, entire)
       [] name = "mira"       -> MiraRun(P, ch, share, br, inst, offset, entire)
       [] name = "mirith"     -> MirithRun(P, ch, share, br, inst, offset, entire)
       [] name = "ranksd_lp"  -> RanksdLpRun(P, ch, share, br, inst, offset, entire)
       [] name = "ranksd_rd"  -> RanksdRdRun(P, ch, share, br, inst, offset, entire)
       [] name = "ryde"       -> RydeRun(P, ch, share, br, inst, offset, entire)
\* The schemes whose mpc_compute_communications_inverse is written.
ProblemHasInverse(P) == P.name \in {"sdith", "rd", "minrank_lp"}
ProblemInverse(P, ch, share, broadcast, plain, inst, offset) ==
  LET name == P.name
  IN CASE name = "sdith"      -> SdithInverse(P, ch, share, broadcast, plain, inst, offset)
       [] name = "rd"         -> RdInverse(P, ch, share, broadcast, plain, inst, offset)
       [] name = "minrank_lp" -> MinrankLpInverse(P, ch, share, broadcast, plain, inst, offset)
=============================================================================
