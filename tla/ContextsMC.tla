----------------------------- MODULE ContextsMC -----------------------------
(* An instance for TLC of the two providers of the web UI that keep a      *)
(* socket of their own, side by side: the connection to the hub and the    *)
(* intercom.  They share no state, so a behaviour is about one of them,    *)
(* and the other rests.                                                    *)
EXTENDS HaContext, CommContext

(* What the users of two phones may do.                                    *)
Can(f) == [c \in Chores |-> IF c \in DOMAIN f THEN f[c] ELSE 0]
MCBudgets ==
    {Can([connect |-> 3, drop |-> 1, text |-> 1]), Can([connect |-> 2, text |-> 2]),
     Can([connect |-> 2, text |-> 1, panel |-> 1]), Can([connect |-> 2, text |-> 1, voice |-> 1]),
     Can([connect |-> 3, drop |-> 1, file |-> 1]), Can([connect |-> 3, drop |-> 2, push |-> 1]),
     Can([connect |-> 2, drop |-> 1, group |-> 2]), Can([connect |-> 2, call |-> 2, hangup |-> 1])}
Swap == Permutations(Phones)

VARIABLE provider

contextsVars == <<provider, vars, commVars>>

ContextsInit ==
    /\ provider \in {"connection", "intercom"}
    /\ Init /\ CommInit
    /\ provider = "connection" => budget = CHOOSE b \in Budgets : TRUE
    /\ provider = "intercom"   => token = 0

ContextsNext ==
    /\ UNCHANGED provider
    /\ \/ provider = "connection" /\ Next     /\ UNCHANGED commVars
       \/ provider = "intercom"   /\ CommNext /\ UNCHANGED vars

ContextsSpec == ContextsInit /\ [][ContextsNext]_contextsVars
=============================================================================
