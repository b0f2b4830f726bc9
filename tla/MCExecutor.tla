----------------------------- MODULE MCExecutor -----------------------------
(* One job with a command and its two pipes. *)
EXTENDS Executor, TLC

CONSTANTS out, err

MCJobID == {"build"}
MCJobOf == (out :> "build") @@ (err :> "build")
MCErrOf == "build" :> err
MCSkew == "build" :> 0
MCCommands == "build" :> 1
=============================================================================
