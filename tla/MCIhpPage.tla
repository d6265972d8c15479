------------------------------ MODULE MCIhpPage ------------------------------
(* Two users.  Each budget lets some of the hazards meet; all of them at once *)
(* are too many states.                                                       *)
EXTENDS IhpPage

Budget(clicks, saves, updates, opens, fails) ==
  [clicks |-> clicks, saves |-> saves, updates |-> updates, opens |-> opens, fails |-> fails]

MCBudgets ==
  {Budget(2, 0, 0, 3, 1), Budget(1, 1, 0, 2, 1), Budget(1, 2, 1, 1, 0)}
=============================================================================
