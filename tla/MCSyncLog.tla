------------------------------ MODULE MCSyncLog ------------------------------
(* What an account keeps in files of its own, for TLC: a file that is replaced as *)
(* a whole, and the log of updates for the other replicas.  A behaviour is one of *)
(* either, so that one run checks both; FilesNext lists the actions of their       *)
(* next-state relations.                                                          *)
EXTENDS SyncLog, StoreFile

VARIABLE part
filesVars == <<part, vars, syncVars>>

S(A) == part = "file" /\ A /\ UNCHANGED <<part, syncVars>>
L(A) == part = "log" /\ A /\ UNCHANGED <<part, vars>>

FilesInit == /\ part \in {"file", "log"} /\ Init /\ SyncInit
             /\ part # "log" => syncFault = "seen"
FilesNext ==
  \/ \E v \in Value : S(Create(v))
  \/ S(WriteData) \/ S(SyncDir) \/ S(RemovePath) \/ S(Rename)
  \/ S(Fail) \/ S(Kill) \/ S(PowerLoss) \/ S(LinkTemp) \/ S(RemoveTemp) \/ S(NoTemp)
  \/ \E u \in Update : L(UpdateStart(u))
  \/ L(UpdateNamed) \/ L(RunUpdate) \/ L(OpenLog) \/ L(LinkLog) \/ L(CreateLog) \/ L(WriteEntry)
  \/ L(EndEntry) \/ L(TimerStart) \/ L(UpdateEnd) \/ L(UpdatePanics)
  \/ \E n \in LogId : L(TimerFires(n))
  \/ L(TakeLog) \/ L(SendMissing)
  \/ \E err \in BOOLEAN : L(SendLog(err))
  \/ L(Resend)
  \/ \E a \in acks : L(ReadSyncAck(a))
  \/ L(DropRecord) \/ L(DropLog) \/ L(DropAck)
  \/ L(SyncCrash) \/ L(SyncRestart) \/ L(SyncStarted)
FilesSpec == FilesInit /\ [][FilesNext]_filesVars

(* The goroutines of the log go on, a process that ended is started, and a timer    *)
(* fires.                                                                          *)
FilesLiveSpec ==
  /\ FilesSpec
  /\ WF_filesVars(L(Writing)) /\ WF_filesVars(L(Sending)) /\ WF_filesVars(L(Acking)) /\ WF_filesVars(L(Starting))
  /\ \A n \in LogId : WF_filesVars(L(TimerFires(n)))
=============================================================================
