------------------------------- MODULE Tools -------------------------------
(***************************************************************************)
(* The commands doctor and backup (cmd/telegram-bot-mux/main.go), which    *)
(* run in a process of their own beside the service.  Both load the        *)
(* configuration file as it is now and open the database with it; opening  *)
(* reconciles the clients, on the database the service is using.           *)
(***************************************************************************)
EXTENDS Poller

(* loadRuntime under configuration k.  What follows only reads: the        *)
(* integrity check, and VACUUM INTO a new file.                            *)
RunTool(k) ==
    /\ Reconcile(k)
    /\ UNCHANGED <<cfg, pollerVars, telegramVars>>

ToolsNext == PollerNext \/ \E k \in Configs : RunTool(k)

ToolsSpec == PollerInit /\ [][ToolsNext]_allPollerVars

----------------------------------------------------------------------------
(* Properties *)

(* The clients of the running service stay registered until it is          *)
(* restarted (CONFIGURATION.md: restart the runtime to apply changes).     *)
RestartApplies == poller # "down" => cfg.clients \subseteq clients
=============================================================================
