--------------------------------- MODULE Home ---------------------------------
(* The comrade processes of one user and the files they share: the commands   *)
(* of Stores, Updates, RcFile, Doctor, Fix and Chat side by side. No file has *)
(* a lock, so steps interleave freely; a step of one family leaves the files  *)
(* of the others alone.                                                       *)
EXTENDS Doctor, Fix, Chat

vars == <<cmd, pc, storeVars, updateVars, rcVars, fixVars, chatVars, doctorVars>>

(* The rest of the initial state, once the commands and the contents of the   *)
(* files are chosen.                                                          *)
HomeInit ==
    /\ pc = [p \in Proc |-> "start"]
    /\ StoresInit /\ UpdatesInit /\ RcInit /\ FixInit /\ ChatInit /\ DoctorInit

StoresNext == (\E p \in Proc : StoresStep(p)) /\ UNCHANGED <<updateVars, rcVars, fixVars, chatVars, doctorVars>>

UpdatesNext ==
    /\ Publish \/ Tick \/ \E p \in Proc : UpdatesStep(p)
    /\ UNCHANGED <<storeVars, rcVars, fixVars, chatVars, doctorVars>>

RcNext ==
    /\ (\E f \in RcFiles : Edit(f)) \/ \E p \in Proc : RcStep(p)
    /\ UNCHANGED <<storeVars, updateVars, fixVars, chatVars, doctorVars>>

FixNext ==
    /\ HookRecord \/ Minute \/ \E p \in Proc : FixStep(p)
    /\ UNCHANGED <<storeVars, updateVars, rcVars, chatVars, doctorVars>>

ChatNext == (\E p \in Proc : ChatStep(p)) /\ UNCHANGED <<storeVars, updateVars, rcVars, fixVars, doctorVars>>

DoctorNext == (\E p \in Proc : DoctorStep(p)) /\ UNCHANGED <<rcVars, fixVars, chatVars>>

Next == DoctorNext \/ StoresNext \/ UpdatesNext \/ RcNext \/ FixNext \/ ChatNext
=============================================================================
