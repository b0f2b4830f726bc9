------------------------------- MODULE MCStores -------------------------------
(* The stores that share nothing: a behaviour is about one of them.          *)
(* Auth: two requests about one session and one key, with half milliseconds. *)
(* Secrets: a job with two secrets, one of them also a variable of its spec, *)
(* and a variable listed twice.  SecretBackends: two callers, one name and   *)
(* two values: a write that comes late or again can follow, or fall into,    *)
(* another one.  Artifacts: an upload of two chunks, two of one, and two     *)
(* paths in two directories or pages.                                        *)
EXTENDS Auth, Secrets, SecretBackends, Artifacts

CONSTANTS token, home, path, x, y, u1, u2, u3

MCJobSecrets == <<token, home>>
MCSpecEnv == <<[key |-> home, value |-> y], [key |-> path, value |-> x],
               [key |-> path, value |-> y]>>
MCDir == (1 :> 1) @@ (2 :> 2)
MCChunks == (u1 :> 2) @@ (u2 :> 1) @@ (u3 :> 1)

VARIABLE part

mcvars == <<vars, svars, bvars, avars, part>>

MCInit ==
    /\ Init /\ SecretsInit /\ BackendsInit /\ ArtifactsInit
    /\ part \in {"auth", "secrets", "backends", "artifacts"}
    /\ part # "auth" => enabled
    /\ part # "secrets" => master = CHOOSE m \in MasterKey : TRUE
    /\ part # "backends" => backend = "vault"
    /\ part # "artifacts" => store = "local"

MCNext ==
    /\ UNCHANGED part
    /\ \/ part = "auth" /\ Next /\ UNCHANGED <<svars, bvars, avars>>
       \/ part = "secrets" /\ SecretsNext /\ UNCHANGED <<vars, bvars, avars>>
       \/ part = "backends" /\ BackendsNext /\ UNCHANGED <<vars, svars, avars>>
       \/ part = "artifacts" /\ ArtifactsNext /\ UNCHANGED <<vars, svars, bvars>>

MCSpec == MCInit /\ [][MCNext]_mcvars

\* Requests are interchangeable, and so are callers, values and short uploads.
MCSymmetry ==
    Permutations(Req) \cup Permutations(Caller) \cup Permutations(Datum)
    \cup Permutations({u2, u3})
===============================================================================
