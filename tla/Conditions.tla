----------------------------- MODULE Conditions -----------------------------
(***************************************************************************)
(* The condition expressions of a node: evalConditions, evalCondition and  *)
(* matchGlob of internal/pipeline/scheduler.go, on the RunContexts that    *)
(* the webhook (cmd/master/main.go, internal/webhook/handler.go) and       *)
(* SubmitPipeline (internal/api/server.go) pass to Start.                  *)
(*                                                                         *)
(* Names and patterns are sequences of characters, of which only "*"       *)
(* matters. A condition is what SplitN and TrimSpace leave of the string:  *)
(* its parts, and the key and the value when there are two.                *)
(***************************************************************************)
EXTENDS Naturals, Sequences, SequencesExt

CONSTANTS
    Char,       \* characters; the words "push" and "manual" count as one
    Name,       \* nonempty names of pushed branches and tags
    Pattern,    \* values of conditions
    MaxConditions \* bound: conditions of a node

Star == "*"

ASSUME NameAssumption == Name \subseteq Seq(Char) \ {<<>>}
ASSUME PatternAssumption == Pattern \subseteq Seq(Char \cup {Star})
ASSUME MaxConditionsAssumption == MaxConditions \in Nat

\* What OnBranch, OnTag and OnEvent of the SDK make: "key == p".
On(key, p) == [parts |-> 2, key |-> key, val |-> p]

\* Condition strings, with a known key, another one, or no " == ".
Cond == {On(key, p) : key \in {"branch", "tag", "event", "other"}, p \in Pattern}
        \cup {[parts |-> 1]}

\* parseEvent: refs/heads/, refs/tags/ and other refs of a push; anything but
\* a push triggers nothing.
Ref == [kind : {"heads", "tags", "other"}, name : Name]

parseEvent(ref) ==
    [branch |-> IF ref.kind = "heads" THEN ref.name ELSE <<>>,
     tag    |-> IF ref.kind = "tags" THEN ref.name ELSE <<>>,
     event  |-> <<"push">>]

\* RunContext{Event: "manual"} of SubmitPipeline.
manualContext == [branch |-> <<>>, tag |-> <<>>, event |-> <<"manual">>]

VARIABLES
    ref,        \* the pushed ref, or the manual submission
    conditions, \* node.Conditions
    passes      \* what evalConditions returned

cvars == <<ref, conditions, passes>>

Manual == [kind |-> "manual", name |-> <<>>]
runContext == IF ref = Manual THEN manualContext ELSE parseEvent(ref)

Starts(p) == p # <<>> /\ p[1] = Star
Ends(p) == p # <<>> /\ p[Len(p)] = Star

\* Prefix and suffix are mixed up.
MutMatchGlob(p, s) ==
    \/ p = <<Star>>
    \/ Ends(p) /\ IsSuffix(Front(p), s)
    \/ ~Ends(p) /\ Starts(p) /\ IsPrefix(Tail(p), s)
    \/ ~Ends(p) /\ ~Starts(p) /\ p = s

\* Only one star is taken off, the last one first.
matchGlob(p, s) ==
    \/ p = <<Star>>
    \/ Ends(p) /\ IsPrefix(Front(p), s)
    \/ ~Ends(p) /\ Starts(p) /\ IsSuffix(Tail(p), s)
    \/ ~Ends(p) /\ ~Starts(p) /\ p = s

evalCondition(cond, rc) ==
    /\ cond.parts = 2
    /\ \/ cond.key = "branch" /\ rc.branch = cond.val
       \/ cond.key = "tag" /\ matchGlob(cond.val, rc.tag)
       \/ cond.key = "event" /\ rc.event = cond.val

evalConditions(conds, rc) == \A i \in 1..Len(conds) : evalCondition(conds[i], rc)

ConditionsInit ==
    /\ ref \in Ref \cup {Manual}
    /\ conditions \in SeqOf(Cond, MaxConditions)
    /\ passes = "unknown"

Evaluate ==
    /\ passes = "unknown"
    /\ passes' = IF evalConditions(conditions, runContext) THEN "yes" ELSE "no"
    /\ UNCHANGED <<ref, conditions>>

ConditionsSpec == ConditionsInit /\ [][Evaluate]_cvars

-----------------------------------------------------------------------------
(* Properties *)

\* Reference: each star stands for any run of characters. cut[i] is how much of
\* s the first i characters of p stand for.
Glob(p, s) ==
    \E cut \in [0..Len(p) -> 0..Len(s)] :
      /\ cut[0] = 0 /\ cut[Len(p)] = Len(s)
      /\ \A i \in 1..Len(p) :
           IF p[i] = Star THEN cut[i - 1] <= cut[i]
           ELSE cut[i] = cut[i - 1] + 1 /\ p[i] = s[cut[i]]

Stars(p) == {i \in 1..Len(p) : p[i] = Star}

\* The patterns the comment of matchGlob announces: "simple prefix/suffix
\* wildcard matching".
Simple(p) == \/ Stars(p) = {} \/ Stars(p) = {1} \/ Stars(p) = {Len(p)}

\* TagsSelect: for a pushed tag, a node with simple tag patterns runs exactly
\* when its tag is matched by all of them, wherever the star is, and when the
\* star stands for nothing (scheduler.go:138-150).
TagsSelect ==
    /\ passes # "unknown"
    /\ ref # Manual /\ ref.kind = "tags"
    /\ \A i \in 1..Len(conditions) :
         conditions[i].parts = 2 /\ conditions[i].key = "tag" /\ Simple(conditions[i].val)
    => (passes = "yes" <=> \A i \in 1..Len(conditions) : Glob(conditions[i].val, ref.name))
=============================================================================
