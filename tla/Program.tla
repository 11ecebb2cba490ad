------------------------------- MODULE Program -------------------------------
(***************************************************************************)
(* main: the objects of the program are made one after the other on the    *)
(* stack, one of four modes runs, the engine is reset, the device is       *)
(* destroyed, and the objects follow in the reverse order.  In server mode *)
(* the thread of the WebServer uses the engine while main sleeps.          *)
(***************************************************************************)
EXTENDS WebServer

VARIABLES
  main,      \* where main is
  mode,      \* what the command line asks for
  g_running, \* cleared by SIGINT and SIGTERM
  device,    \* ctx.device
  made,      \* the objects constructed and not destroyed, in this order
  engine     \* state of the VulkanComputeEngine of the InferenceRunner

mainVars    == <<main, mode, g_running, device, made, engine>>
programVars == <<webVars, mainVars>>

Modes   == {"server", "benchmark", "interactive", "single"}
Objects == <<"memory_tier", "shader_lib", "allocator", "desc_mgr", "model_mgr",
             "router", "inference", "agent_node", "server">>
ModelMgr == 5

ProgramInit ==
  /\ WebInit
  /\ main = "init" /\ mode \in Modes /\ g_running = TRUE
  /\ device = "none" /\ made = << >> /\ engine = "none"

(* SIGINT or SIGTERM, at any moment.                                       *)
SignalHandler ==
  /\ g_running /\ main # "ended"
  /\ g_running' = FALSE
  /\ UNCHANGED <<webVars, main, mode, device, made, engine>>

Go(from, to) == main = from /\ main' = to /\ UNCHANGED <<mode, g_running>>

-----------------------------------------------------------------------------
(* ctx.init may fail; then there is nothing to destroy.                    *)
InitContext ==
  /\ \/ Go("init", "load") /\ device' = "live"
     \/ Go("init", "ended") /\ UNCHANGED device
  /\ UNCHANGED <<webVars, made, engine>>

(* The infrastructure and the models.  Without a model, and with nothing   *)
(* else to do, the program gives up.                                       *)
LoadModels ==
  /\ \/ Go("load", "setup")
     \/ Go("load", "cleanup") /\ mode # "server"
  /\ made' = SubSeq(Objects, 1, ModelMgr)
  /\ UNCHANGED <<webVars, device, engine>>

SetUp ==
  /\ Go("setup", mode)
  /\ made' = IF mode = "server" THEN Objects ELSE Front(Objects)
  /\ UNCHANGED <<webVars, device, engine>>

StartServer ==
  /\ \/ Go("server", "serving") /\ Start
     \/ Go("server", "reset") /\ UNCHANGED webVars
  /\ UNCHANGED <<device, made, engine>>

(* The loop of one second notices the signal; Stop is called.              *)
StopServer ==
  /\ Go("serving", "joining") /\ ~g_running
  /\ Stop
  /\ UNCHANGED <<device, made, engine>>

(* Mutant: Stop leaves the thread to itself.                               *)
JoinServerNot ==
  /\ Go("joining", "reset")
  /\ UNCHANGED <<webVars, device, made, engine>>

JoinServer ==
  /\ Go("joining", "reset") /\ Joined
  /\ UNCHANGED <<webVars, device, made, engine>>

(* RunBenchmark and RunSingleShot generate and end; RunInteractiveMode     *)
(* looks at g_running between two inputs, and need not get one.            *)
RunOnce ==
  /\ main \in {"benchmark", "single"} /\ Go(main, "reset")
  /\ engine' \in {engine, "made"}
  /\ UNCHANGED <<webVars, device, made>>

Interact ==
  /\ \/ Go("interactive", "interactive") /\ g_running
     \/ Go("interactive", "reset")
  /\ engine' \in {engine, "made"}
  /\ UNCHANGED <<webVars, device, made>>

-----------------------------------------------------------------------------
(* inference.Reset() puts the engine back to its first phase; what the     *)
(* engine holds of the device is freed by its destructor.                  *)
ResetEngine ==
  /\ Go("reset", "cleanup")
  /\ UNCHANGED <<webVars, device, made, engine>>

CleanupContext ==
  /\ Go("cleanup", "return")
  /\ device' = "gone"
  /\ UNCHANGED <<webVars, made, engine>>

(* The destructors.  ~WebServer calls Stop again, on a thread that ended.  *)
Destroy ==
  /\ main = "return" /\ made # << >>
  /\ made' = Front(made)
  /\ engine' = IF Last(made) = "inference" THEN "none" ELSE engine
  /\ IF Last(made) = "server" THEN Stop ELSE UNCHANGED webVars
  /\ UNCHANGED <<main, mode, g_running, device>>

Return == made = << >> /\ Go("return", "ended") /\ UNCHANGED <<webVars, device, made, engine>>

MainThread ==
  \/ InitContext \/ LoadModels \/ SetUp \/ StartServer \/ StopServer \/ JoinServer
  \/ RunOnce \/ ResetEngine \/ CleanupContext \/ Destroy \/ Return

(* SetupModel makes the engine before the first completion is generated.   *)
WebThread ==
  /\ Serve
  /\ engine' = IF loop' = "generating" THEN "made" ELSE engine
  /\ UNCHANGED <<main, mode, g_running, device, made>>

Outside == (Client \/ PollFails) /\ UNCHANGED mainVars

ProgramNext == MainThread \/ Interact \/ WebThread \/ SignalHandler \/ Outside

ProgramSpec == ProgramInit /\ [][ProgramNext]_programVars

(* Both threads run on; nothing makes a user type or a client connect.     *)
FairProgramSpec ==
  ProgramSpec /\ WF_programVars(MainThread) /\ WF_programVars(WebThread)

-----------------------------------------------------------------------------
(* The thread of the server is out of the engine, and of every object it   *)
(* was given, before main resets or destroys them; a completion in the     *)
(* middle of a Stop is finished first.                                     *)
EngineQuiet == main \in {"reset", "cleanup", "return", "ended"} => loop \in Idle

(* A server that gets a signal ends, whatever its clients do, also when    *)
(* its thread waits for a client or generates.                             *)
SignalEnds == (mode = "server" /\ ~g_running) ~> main = "ended"

-----------------------------------------------------------------------------
(* "Destroy Vulkan resources before ctx.cleanup()": no Vulkan object of    *)
(* the engine is left when the device goes.                                *)
ResourcesBeforeDevice == device = "gone" => engine = "none"
=============================================================================
