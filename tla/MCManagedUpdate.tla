--------------------------- MODULE MCManagedUpdate ---------------------------
(* Instances of ManagedUpdate: a skill of two files and a discovery guide.  *)
EXTENDS ManagedUpdate, TLC

CONSTANTS p, q, skill, guide

SkillAndGuide ==
    << [file |-> "SKILL.md", of |-> skill], [file |-> "recipe.md", of |-> skill],
       [file |-> "guide", of |-> guide] >>

OneAgain == (p :> 2) @@ (q :> 1)
=============================================================================
