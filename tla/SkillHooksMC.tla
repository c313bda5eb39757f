------------------------------ MODULE SkillHooksMC ------------------------------
(***************************************************************************)
(* Two callers, two skills, two asynchronous hooks with one place each.    *)
(***************************************************************************)
EXTENDS SkillHooks

TwoCallers == {"c1", "c2"}
TwoSkills == {"s1", "s2"}
TwoHooks == <<"h1", "h2">>
==============================================================================
