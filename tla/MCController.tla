---------------------------- MODULE MCController ----------------------------
(***************************************************************************)
(* The parts of the controller that share no state, for TLC: a behaviour    *)
(* follows one of them and leaves the others at rest.                       *)
(***************************************************************************)
EXTENDS VulnScan, ControllerRestore, Sessions, Notifications, LoginLimiter,
        PathRules, SecretResolve, TLC

VARIABLE focus

(* Path rules: every segment of up to three characters, alone or after a    *)
(* folder; every path of up to three characters, alone or in a folder.      *)
Strings(chars, n) == UNION {[1 .. k -> chars] : k \in 1 .. n}
RuleChar == {"a", "-", "_", "*", "%", Stack}
Rules == {<<s>> : s \in Strings(RuleChar, 3)} \union
         {<<f, s>> : f \in {<<"*">>, <<"a">>, <<Stack>>}, s \in Strings(RuleChar, 2)}
Paths == {<<s>> : s \in Strings({"a", "-", "_"}, 3)} \union
         {<<f, s>> : f \in {<<"a">>, <<"a", "-", "a">>}, s \in Strings({"a", "-", "_"}, 2)}
Ids == {<<"a">>, <<"a", "-">>, <<"a", "-", "a">>, <<"-">>}

ARule == <<<<"a">>>>
RuleAtRest ==
    /\ rule = ARule /\ stackId = <<"a">> /\ path = ARule /\ want = <<>> /\ rulePc = "parse"
    /\ seg = 1 /\ px = 1 /\ sx = 1 /\ star = 0 /\ mark = 0

Init ==
    /\ VulnInit /\ RestoreInit /\ SessionsInit /\ NotifyInit /\ LimiterInit /\ ResolveInit
    /\ focus \in {"scan", "restore", "session", "notify", "login", "rule", "resolve"}
    /\ IF focus = "rule" THEN RuleInit ELSE RuleAtRest

Next ==
    /\ UNCHANGED focus
    /\ \/ /\ focus = "scan" /\ VulnNext
          /\ UNCHANGED <<restoreVars, sessionVars, notifyVars, limiterVars, ruleVars, resolveVars>>
       \/ /\ focus = "restore" /\ RestoreNext
          /\ UNCHANGED <<vulnVars, sessionVars, notifyVars, limiterVars, ruleVars, resolveVars>>
       \/ /\ focus = "session" /\ SessionsNext
          /\ UNCHANGED <<vulnVars, restoreVars, notifyVars, limiterVars, ruleVars, resolveVars>>
       \/ /\ focus = "notify" /\ NotifyNext
          /\ UNCHANGED <<vulnVars, restoreVars, sessionVars, limiterVars, ruleVars, resolveVars>>
       \/ /\ focus = "login" /\ LimiterNext
          /\ UNCHANGED <<vulnVars, restoreVars, sessionVars, notifyVars, ruleVars, resolveVars>>
       \/ /\ focus = "rule" /\ RuleNext
          /\ UNCHANGED <<vulnVars, restoreVars, sessionVars, notifyVars, limiterVars, resolveVars>>
       \/ /\ focus = "resolve" /\ ResolveNext
          /\ UNCHANGED <<vulnVars, restoreVars, sessionVars, notifyVars, limiterVars, ruleVars>>

vars == <<vulnVars, restoreVars, sessionVars, notifyVars, limiterVars, ruleVars, resolveVars, focus>>

Spec == Init /\ [][Next]_vars

(* The parts use the same model values, so that one permutation renames     *)
(* them in all of them.                                                     *)
Symmetric == Permutations(Scanner) \union Permutations(VulnReq) \union Permutations(VulnJob)
=============================================================================
