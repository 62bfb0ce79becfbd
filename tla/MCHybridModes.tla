---------------------------- MODULE MCHybridModes ----------------------------
(* One run over the ways generate() decodes: the constants of the module     *)
(* describe the speculative mode; --ar, and pruning that allows no depth     *)
(* (every round verifies its root alone), are the same module under other    *)
(* options, over every short prompt.                                         *)
EXTENDS MCHybridDriver

VARIABLE mode

Plain    == INSTANCE HybridDriver WITH Ar <- TRUE, ProbeAt <- MCProbe
RootOnly == INSTANCE HybridDriver WITH MaxDepth <- 0

modeVars == << mode, vars >>

ModesInit ==
  /\ Init
  /\ mode \in {"speculative", "ar", "rootonly"}
  /\ mode = "speculative" => prompt \in MCPrompts

(* An action of generate() under the options of the behaviour's mode. *)
Step(speculative, ar, rootonly) ==
  /\ UNCHANGED mode
  /\ \/ mode = "speculative" /\ speculative
     \/ mode = "ar" /\ ar
     \/ mode = "rootonly" /\ rootonly

ModesGenerate ==
  \/ Step(Start, Plain!Start, RootOnly!Start)
  \/ Step(Prefill, Plain!Prefill, RootOnly!Prefill)
  \/ Step(FirstRoot, Plain!FirstRoot, RootOnly!FirstRoot)
  \/ Step(EmitRoot, Plain!EmitRoot, RootOnly!EmitRoot)
  \/ Step(LoopEnds, Plain!LoopEnds, RootOnly!LoopEnds)
  \/ Step(ArProbe, Plain!ArProbe, RootOnly!ArProbe)
  \/ Step(ArStep, Plain!ArStep, RootOnly!ArStep)
  \/ Step(StartRound, Plain!StartRound, RootOnly!StartRound)
  \/ Step(SkipNode, Plain!SkipNode, RootOnly!SkipNode)
  \/ Step(Expand, Plain!Expand, RootOnly!Expand)
  \/ Step(VisitChild, Plain!VisitChild, RootOnly!VisitChild)
  \/ Step(LeaveNode, Plain!LeaveNode, RootOnly!LeaveNode)
  \/ Step(EndDraft, Plain!EndDraft, RootOnly!EndDraft)
  \/ Step(ExtendPath, Plain!ExtendPath, RootOnly!ExtendPath)
  \/ Step(Verify, Plain!Verify, RootOnly!Verify)
  \/ Step(ScanNode, Plain!ScanNode, RootOnly!ScanNode)
  \/ Step(CommitAndSwitch, Plain!CommitAndSwitch, RootOnly!CommitAndSwitch)
  \/ Step(CommitAndEnd, Plain!CommitAndEnd, RootOnly!CommitAndEnd)

ModesNext ==
  \/ ModesGenerate
  \/ Throws /\ UNCHANGED mode
  \/ Terminated /\ UNCHANGED mode

ModesSpec == ModesInit /\ [][ModesNext]_modeVars /\ WF_modeVars(ModesGenerate)
=============================================================================
