------------------------------- MODULE Secrets -------------------------------
(***************************************************************************)
(* The way of a secret to a command: the encrypted table                   *)
(* (internal/secrets/db.go), InjectSecrets (inject.go), which reads one    *)
(* secret after the other while others are set and deleted, and buildEnv   *)
(* (internal/executor/executor.go), which merges what was injected with    *)
(* the variables of the job's spec.  A ciphertext is known by the key it   *)
(* was made with and by its plaintext.                                     *)
(***************************************************************************)
EXTENDS Integers, Sequences, FiniteSets, SequencesExt

CONSTANTS
    Name,        \* names of secrets and variables
    Value,       \* their values
    MasterKey,   \* values of BRAZIER_SECRET_KEY, one for each process
    JobSecrets,  \* Spec.Secrets of the job
    SpecEnv      \* Spec.Env of the job

EnvVar == [key : Name, value : Value]

ASSUME JobSecretsAssumption == JobSecrets \in Seq(Name)
ASSUME SpecEnvAssumption == SpecEnv \in Seq(EnvVar)

VARIABLES
    table,      \* rows of secrets: a function of the names that have one
    master,     \* key of the backend
    inject,     \* a call of InjectSecrets: "idle", "get", "failed" or "ready"
    env,        \* dispatch.Env
    cmdEnv,     \* cmd.Env, or <<>> before a command is made
    held        \* history: what could be read during the call

svars == <<table, master, inject, env, cmdEnv, held>>

\* A row decrypts under the key it was made with only.
decrypt(row) == IF row.key = master THEN {row.value} ELSE {}

\* What a Get of n can return; nothing where it fails.
Readable(n) == IF n \in DOMAIN table THEN decrypt(table[n]) ELSE {}

HeldNow == {v \in EnvVar : v.value \in Readable(v.key)}

SecretsInit ==
    /\ table = << >> /\ master \in MasterKey
    /\ inject = "idle" /\ env = << >> /\ cmdEnv = << >> /\ held = {}

-----------------------------------------------------------------------------
(* The backend *)

\* What is stored is observed by a call in progress.
Observed == held' = IF inject = "get" THEN held \cup HeldNow' ELSE held

\* INSERT ... ON CONFLICT DO UPDATE of the new ciphertext.
Set(n, v) ==
    /\ table' = [m \in DOMAIN table \cup {n} |->
                   IF m = n THEN [key |-> master, value |-> v] ELSE table[m]]
    /\ UNCHANGED <<master, inject, env, cmdEnv>>
    /\ Observed

DeleteSecret(n) ==
    /\ n \in DOMAIN table
    /\ table' = [m \in DOMAIN table \ {n} |-> table[m]]
    /\ UNCHANGED <<master, inject, env, cmdEnv>>
    /\ Observed

\* The next process, on the same table: NewDBSecretBackend leaves the rows.
Restart ==
    /\ master' \in MasterKey \ {master}
    /\ inject' = "idle" /\ env' = << >> /\ cmdEnv' = << >> /\ held' = {}
    /\ UNCHANGED table

-----------------------------------------------------------------------------
(* InjectSecrets and buildEnv *)

InjectSecrets ==
    /\ inject = "idle"
    /\ inject' = IF JobSecrets = << >> THEN "ready" ELSE "get"
    /\ held' = HeldNow
    /\ UNCHANGED <<table, master, env, cmdEnv>>

\* One backend.Get and the append; an error ends the call and the job is not
\* sent.
Get ==
    /\ inject = "get"
    /\ LET n == JobSecrets[Len(env) + 1] IN
         \/ /\ \E v \in Readable(n) : env' = Append(env, [key |-> n, value |-> v])
            /\ inject' = IF Len(env') = Len(JobSecrets) THEN "ready" ELSE "get"
         \/ inject' = "failed" /\ UNCHANGED env
    /\ UNCHANGED <<table, master, cmdEnv, held>>

Keys(vs) == {vs[i].key : i \in 1..Len(vs)}

\* The variables of the spec are appended without a look at the others.
MutUnseen(jobEnv) == SpecEnv

\* The first of each name in Spec.Env that jobEnv does not have, in the order of
\* Spec.Env: the k-th has k of them up to itself.
Unseen(jobEnv) ==
    LET new == {i \in 1..Len(SpecEnv) :
                  SpecEnv[i].key \notin Keys(jobEnv) \cup Keys(SubSeq(SpecEnv, 1, i - 1))}
        nth(k) == CHOOSE i \in new : Cardinality({j \in new : j <= i}) = k
    IN [k \in 1..Cardinality(new) |-> SpecEnv[nth(k)]]

\* job.Env as it is, then what is new in Spec.Env.
buildEnv ==
    /\ inject = "ready" /\ cmdEnv = << >>
    /\ cmdEnv' = env \o Unseen(env)
    /\ UNCHANGED <<table, master, inject, env, held>>

\* os/exec: of several entries of one name the last counts.
Effective(vs, n) == {vs[i].value : i \in {k \in 1..Len(vs) :
                       vs[k].key = n /\ n \notin Keys(SubSeq(vs, k + 1, Len(vs)))}}

SecretsNext ==
    \/ \E n \in Name : DeleteSecret(n) \/ \E v \in Value : Set(n, v)
    \/ Restart \/ InjectSecrets \/ Get \/ buildEnv

SecretsSpec == SecretsInit /\ [][SecretsNext]_svars

-----------------------------------------------------------------------------
(* Properties *)

\* SecretsReach: a command that is started has each secret of its job, with a
\* value the table had under the key of the backend at some moment of the
\* injection; a variable of the same name in the spec does not hide it
\* (inject.go:18-25, executor.go:103-115).
SecretsReach ==
    cmdEnv # << >> => \A n \in ToSet(JobSecrets) :
      \E v \in Effective(cmdEnv, n) : [key |-> n, value |-> v] \in held

==============================================================================
