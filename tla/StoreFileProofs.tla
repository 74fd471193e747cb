--------------------------- MODULE StoreFileProofs ---------------------------
(* Theorems about StoreFile, for any set of values. *)
EXTENDS StoreFile, TLAPS

\* What holds at each place of storeFile and of the recovery.  The file is there
\* until it is removed, which happens only when its replacement is complete and
\* on the disk.
AtPlace ==
    /\ pc \in {"created", "written", "synced", "linked"} => dir.path # None
    /\ pc \in {"created", "written", "synced"} => dir.tmp.val \in Value
    /\ pc = "created" => dir.tmp.whole = FALSE
    /\ pc \in {"written", "synced", "removed"} => dir.tmp.whole = TRUE
    /\ pc = "synced" => may = {dir}
    /\ pc = "removed" => dir.path = None

Inv ==
    /\ TypeOK /\ AlwaysWhole /\ AtPlace
    /\ \A d \in may : d.path # None => d.path.whole = TRUE

LEMMA ContentType ==
    ASSUME NEW v \in Value \cup {Empty}, NEW w \in BOOLEAN
    PROVE  Content(v, w) \in Contents /\ Content(v, w) # None
<1>1. Content(v, w) \in Contents
  BY DEF Content, Contents
<1>2. None \notin Contents
  BY NoneAssumption DEF Contents
<1> QED
  BY <1>1, <1>2

\* A change of the directory keeps the invariant when the new state is sound.
LEMMA ChangeKeeps ==
    ASSUME Inv, NEW d, Change(d), d \in Dirs, Sound(d), d.path # None => d.path.whole = TRUE
    PROVE  /\ dir' \in Dirs /\ may' \subseteq Dirs /\ dir' \in may'
           /\ AlwaysWhole'
           /\ \A e \in may' : e.path # None => e.path.whole = TRUE
BY DEF Inv, TypeOK, AlwaysWhole, Change, Sound, Recovered

\* Writing the data changes nothing but the completeness of the new file.
LEMMA CompletedSame ==
    ASSUME Inv, pc = "created", NEW d \in may
    PROVE  /\ Completed(d) \in Dirs
           /\ Completed(d).path = d.path
           /\ d.path = None => Completed(d) = d
           /\ Recovered(Completed(d)).val = Recovered(d).val
           /\ Sound(Completed(d))
<1>1. d \in Dirs /\ dir \in Dirs /\ dir.tmp # None /\ dir.tmp.whole = FALSE
  BY DEF Inv, TypeOK, AtPlace
<1>2. dir.tmp \in Contents
  BY <1>1 DEF Dirs
<1>3. d.path = None => d.tmp # None /\ d.tmp.whole
  BY DEF Inv, AlwaysWhole, Sound, Recovered
<1>4. d.path = None => Completed(d) = d
  BY <1>1, <1>3 DEF Completed
<1>5. Completed(d) \in Dirs /\ Completed(d).path = d.path
  BY <1>1, <1>2 DEF Completed, Dirs, Contents, Content
<1>6. d.path # None => Sound(Completed(d)) /\ Recovered(Completed(d)).val = Recovered(d).val
  BY <1>5 DEF Inv, AlwaysWhole, Sound, Recovered
<1>7. Sound(d)
  BY DEF Inv, AlwaysWhole
<1> QED
  BY <1>4, <1>5, <1>6, <1>7

LEMMA InitInv == Init => Inv
<1> SUFFICES ASSUME Init PROVE Inv
  OBVIOUS
<1>1. Content(Empty, TRUE) \in Contents /\ Content(Empty, TRUE) # None
  BY ContentType
<1>2. Content(Empty, TRUE).whole = TRUE
  BY DEF Content
<1>3. dir.path = Content(Empty, TRUE) /\ dir.tmp = None /\ may = {dir} /\ pc = "idle"
  BY DEF Init
<1>4. dir \in Dirs
  BY <1>1 DEF Init, Dirs
<1>5. Sound(dir)
  BY <1>1, <1>2, <1>3 DEF Sound, Recovered
<1> QED
  BY <1>2, <1>3, <1>4, <1>5 DEF Inv, TypeOK, AlwaysWhole, AtPlace

LEMMA NextInv == Inv /\ [Next]_vars => Inv'
<1> SUFFICES ASSUME Inv, [Next]_vars PROVE Inv'
  OBVIOUS
<1> USE DEF Inv
<1>0. dir \in Dirs /\ Sound(dir) /\ (dir.path # None => dir.path.whole = TRUE)
  BY DEF TypeOK, AlwaysWhole
<1>1. ASSUME NEW v \in Value, Create(v) PROVE Inv'
  <2> DEFINE d == [dir EXCEPT !.tmp = Content(v, FALSE)]
  <2>1. Content(v, FALSE) \in Contents /\ Content(v, FALSE) # None
    BY ContentType
  <2>2. dir.path # None
    BY <1>0, <1>1 DEF Create, Sound, Recovered
  <2>3. d \in Dirs /\ d.path = dir.path /\ d.tmp = Content(v, FALSE)
    BY <1>0, <2>1 DEF Dirs
  <2>4. Sound(d)
    BY <1>0, <2>2, <2>3 DEF Sound, Recovered
  <2>5. Change(d) /\ dir' = d /\ pc' = "created"
    BY <1>1 DEF Create, Change
  <2>6. /\ dir' \in Dirs /\ may' \subseteq Dirs /\ dir' \in may' /\ AlwaysWhole'
        /\ \A e \in may' : e.path # None => e.path.whole = TRUE
    BY <1>0, <2>3, <2>4, <2>5, ChangeKeeps
  <2> QED
    BY <2>1, <2>2, <2>3, <2>5, <2>6 DEF TypeOK, AtPlace, Content
<1>2. CASE WriteData
  <2>1. \A d \in may : /\ Completed(d) \in Dirs /\ Completed(d).path = d.path
                       /\ Sound(Completed(d))
    BY <1>2, CompletedSame DEF WriteData
  <2>2. dir' = Completed(dir) /\ may' = {Completed(d) : d \in may} /\ pc' = "written"
    BY <1>2 DEF WriteData
  <2>3. dir'.tmp = Content(dir.tmp.val, TRUE) /\ dir'.tmp \in Contents /\ dir'.path = dir.path
    BY <1>0, <1>2, <2>2 DEF WriteData, Completed, TypeOK, Dirs, Contents, Content
  <2>4. dir'.tmp # None
    BY <2>3, NoneAssumption DEF Contents
  <2>5. TypeOK'
    BY <2>1, <2>2, <2>4 DEF TypeOK
  <2>6. AlwaysWhole'
    BY <2>1, <2>2 DEF AlwaysWhole, Sound, Recovered
  <2>7. AtPlace'
    BY <1>2, <2>2, <2>3 DEF AtPlace, WriteData, Content
  <2>8. \A e \in may' : e.path # None => e.path.whole = TRUE
    BY <2>1, <2>2
  <2> QED
    BY <2>5, <2>6, <2>7, <2>8
<1>3. CASE SyncDir
  BY <1>0, <1>3 DEF SyncDir, TypeOK, AlwaysWhole, AtPlace, Sound, Recovered
<1>4. CASE RemovePath
  <2> DEFINE d == [dir EXCEPT !.path = None]
  <2>1. dir.tmp # None /\ dir.tmp.whole = TRUE
    BY <1>4 DEF RemovePath, TypeOK, AtPlace
  <2>2. d \in Dirs /\ d.path = None /\ d.tmp = dir.tmp
    BY <1>0 DEF Dirs
  <2>3. Sound(d)
    BY <2>1, <2>2 DEF Sound, Recovered
  <2>4. Change(d) /\ dir' = d /\ pc' = "removed"
    BY <1>4 DEF RemovePath, Change
  <2>5. /\ dir' \in Dirs /\ may' \subseteq Dirs /\ dir' \in may' /\ AlwaysWhole'
        /\ \A e \in may' : e.path # None => e.path.whole = TRUE
    BY <2>2, <2>3, <2>4, ChangeKeeps
  <2> QED
    BY <2>1, <2>2, <2>4, <2>5 DEF TypeOK, AtPlace
<1>5. CASE Rename
  <2> DEFINE d == [path |-> dir.tmp, tmp |-> None]
  <2>1. dir.tmp # None /\ dir.tmp.whole = TRUE
    BY <1>5 DEF Rename, TypeOK, AtPlace
  <2>2. d \in Dirs
    BY <1>0 DEF Dirs
  <2>3. Sound(d)
    BY <2>1 DEF Sound, Recovered
  <2>4. Change(d) /\ dir' = d /\ pc' = "idle"
    BY <1>5 DEF Rename, Change
  <2>5. /\ dir' \in Dirs /\ may' \subseteq Dirs /\ dir' \in may' /\ AlwaysWhole'
        /\ \A e \in may' : e.path # None => e.path.whole = TRUE
    BY <2>1, <2>2, <2>3, <2>4, ChangeKeeps
  <2> QED
    BY <2>4, <2>5 DEF TypeOK, AtPlace
<1>6. CASE Fail
  <2> DEFINE d == [dir EXCEPT !.tmp = None]
  <2>1. dir.path # None
    BY <1>6 DEF Fail, AtPlace
  <2>2. d \in Dirs /\ d.path = dir.path
    BY <1>0 DEF Dirs
  <2>3. Sound(d)
    BY <1>0, <2>1, <2>2 DEF Sound, Recovered
  <2>4. Change(d) /\ pc' = "down"
    BY <1>6 DEF Fail
  <2>5. /\ dir' \in Dirs /\ may' \subseteq Dirs /\ dir' \in may' /\ AlwaysWhole'
        /\ \A e \in may' : e.path # None => e.path.whole = TRUE
    BY <1>0, <2>2, <2>3, <2>4, ChangeKeeps
  <2> QED
    BY <2>4, <2>5 DEF TypeOK, AtPlace
<1>7. CASE Kill
  BY <1>7 DEF Kill, TypeOK, AlwaysWhole, AtPlace, Sound, Recovered
<1>8. CASE PowerLoss
  <2>1. dir' \in may /\ may' = {dir'} /\ pc' = "down"
    BY <1>8 DEF PowerLoss
  <2> QED
    BY <2>1 DEF TypeOK, AlwaysWhole, AtPlace, Sound, Recovered
<1>9. CASE LinkTemp
  <2>1. CASE dir.path = None
    <3> DEFINE d == [dir EXCEPT !.path = dir.tmp]
    <3>1. dir.tmp # None /\ dir.tmp.whole
      BY <1>0, <2>1 DEF Sound, Recovered
    <3>2. d \in Dirs /\ d.path = dir.tmp /\ d.tmp = dir.tmp /\ dir.tmp \in Contents
      BY <1>0, <3>1 DEF Dirs
    <3>3. dir.tmp.whole = TRUE
      BY <3>1, <3>2 DEF Contents
    <3>4. Sound(d)
      BY <3>1, <3>2 DEF Sound, Recovered
    <3>5. Change(d) /\ dir' = d /\ pc' = "linked"
      BY <1>9, <2>1 DEF LinkTemp, Change
    <3>6. /\ dir' \in Dirs /\ may' \subseteq Dirs /\ dir' \in may' /\ AlwaysWhole'
          /\ \A e \in may' : e.path # None => e.path.whole = TRUE
      BY <3>2, <3>3, <3>4, <3>5, ChangeKeeps
    <3> QED
      BY <3>1, <3>2, <3>5, <3>6 DEF TypeOK, AtPlace
  <2>2. CASE dir.path # None
    BY <1>9, <2>2 DEF LinkTemp, TypeOK, AlwaysWhole, AtPlace, Sound, Recovered
  <2> QED
    BY <2>1, <2>2
<1>10. CASE RemoveTemp
  <2> DEFINE d == [dir EXCEPT !.tmp = None]
  <2>1. dir.path # None
    BY <1>10 DEF RemoveTemp, AtPlace
  <2>2. d \in Dirs /\ d.path = dir.path /\ d.tmp = None
    BY <1>0 DEF Dirs
  <2>3. Sound(d)
    BY <1>0, <2>1, <2>2 DEF Sound, Recovered
  <2>4. Change(d) /\ dir' = d /\ pc' = "idle"
    BY <1>10 DEF RemoveTemp, Change
  <2>5. /\ dir' \in Dirs /\ may' \subseteq Dirs /\ dir' \in may' /\ AlwaysWhole'
        /\ \A e \in may' : e.path # None => e.path.whole = TRUE
    BY <1>0, <2>2, <2>3, <2>4, ChangeKeeps
  <2> QED
    BY <2>2, <2>4, <2>5 DEF TypeOK, AtPlace
<1>11. CASE NoTemp
  BY <1>11 DEF NoTemp, TypeOK, AlwaysWhole, AtPlace, Sound, Recovered
<1>12. CASE UNCHANGED vars
  BY <1>12 DEF vars, TypeOK, AlwaysWhole, AtPlace, Sound, Recovered
<1> QED
  BY <1>1, <1>2, <1>3, <1>4, <1>5, <1>6, <1>7, <1>8, <1>9, <1>10, <1>11, <1>12 DEF Next

\* The types hold, and a new temporary file never meets an old one: storeFile
\* does not fail for its own leftovers.
THEOREM TypeCorrect == Spec => []TypeOK
<1>1. Inv => TypeOK
  BY DEF Inv
<1> QED
  BY <1>1, InitInv, NextInv, PTL DEF Spec

\* At every moment, and after a power failure at any moment, there is a complete
\* value to be read.
THEOREM NeverTorn == Spec => []AlwaysWhole
<1>1. Inv => AlwaysWhole
  BY DEF Inv
<1> QED
  BY <1>1, InitInv, NextInv, PTL DEF Spec

-----------------------------------------------------------------------------
(* The refinement. *)

\* What a change of the directory does to the abstract file.
LEMMA ChangeMaps ==
    ASSUME NEW d, Change(d)
    PROVE  /\ Recovered(dir)' = Recovered(d)
           /\ {Recovered(e).val : e \in may}' =
                  {Recovered(e).val : e \in may} \cup {Recovered(d).val}
BY DEF Change, Recovered

LEMMA InitMaps == Init => Abstract!Init
BY NoneAssumption DEF Init, Abstract!Init, Recovered, Content

\* A change that keeps what the recovery finds is a stutter.
LEMMA ChangeStutters ==
    ASSUME Inv, NEW d, Change(d), Recovered(d).val = Recovered(dir).val
    PROVE  UNCHANGED Abstract!vars
<1>1. Recovered(dir).val \in {Recovered(e).val : e \in may}
  BY DEF Inv, TypeOK
<1> QED
  BY <1>1, ChangeMaps DEF Abstract!vars

LEMMA NextMaps == Inv /\ [Next]_vars => [Abstract!Next]_(Abstract!vars)
<1> SUFFICES ASSUME Inv, [Next]_vars PROVE Abstract!Next \/ UNCHANGED Abstract!vars
  OBVIOUS
<1>0. dir \in Dirs /\ dir \in may
  BY DEF Inv, TypeOK
<1>1. ASSUME NEW v \in Value, Create(v) PROVE UNCHANGED Abstract!vars
  <2> DEFINE d == [dir EXCEPT !.tmp = Content(v, FALSE)]
  <2>1. dir.path # None
    BY <1>0, <1>1 DEF Inv, AlwaysWhole, Sound, Create, Recovered
  <2>2. Recovered(d) = Recovered(dir)
    BY <1>0, <2>1 DEF Recovered, Dirs
  <2>3. Change(d)
    BY <1>1 DEF Create
  <2> QED
    BY <2>2, <2>3, ChangeStutters
<1>2. CASE WriteData
  <2>1. dir' = Completed(dir) /\ may' = {Completed(d) : d \in may}
    BY <1>2 DEF WriteData
  <2>2. \A d \in may : Recovered(Completed(d)).val = Recovered(d).val
    BY <1>2, CompletedSame DEF WriteData
  <2>3. Recovered(dir)'.val = Recovered(dir).val
    BY <1>0, <2>1, <2>2 DEF Recovered
  <2>4. {Recovered(d).val : d \in may}' = {Recovered(d).val : d \in may}
    BY <2>1, <2>2 DEF Recovered
  <2> QED
    BY <2>3, <2>4 DEF Abstract!vars
<1>3. CASE SyncDir
  BY <1>3 DEF SyncDir, Recovered, Abstract!Next, Abstract!Settle
<1>4. CASE RemovePath
  <2> DEFINE d == [dir EXCEPT !.path = None]
  <2>1. may = {dir} /\ dir.path # None /\ dir.tmp.val \in Value /\ dir.tmp # None
    BY <1>4 DEF RemovePath, Inv, AtPlace, TypeOK
  <2>2. Recovered(d) = dir.tmp
    BY <1>0 DEF Recovered, Dirs
  <2>3. Change(d)
    BY <1>4 DEF RemovePath
  <2>4. Abstract!Write(dir.tmp.val)
    BY <2>1, <2>2, <2>3, ChangeMaps DEF Abstract!Write, Recovered
  <2> QED
    BY <2>1, <2>4 DEF Abstract!Next
<1>5. CASE Rename
  <2> DEFINE d == [path |-> dir.tmp, tmp |-> None]
  <2>1. dir.path = None /\ dir.tmp # None
    BY <1>5 DEF Rename, Inv, AtPlace, TypeOK
  <2>2. Recovered(d) = Recovered(dir)
    BY <2>1 DEF Recovered
  <2>3. Change(d)
    BY <1>5 DEF Rename
  <2> QED
    BY <2>2, <2>3, ChangeStutters
<1>6. CASE Fail \/ RemoveTemp
  <2> DEFINE d == [dir EXCEPT !.tmp = None]
  <2>1. dir.path # None
    BY <1>6 DEF Fail, RemoveTemp, Inv, AtPlace
  <2>2. Recovered(d) = Recovered(dir)
    BY <1>0, <2>1 DEF Recovered, Dirs
  <2>3. Change(d)
    BY <1>6 DEF Fail, RemoveTemp
  <2> QED
    BY <2>2, <2>3, ChangeStutters
<1>7. CASE Kill \/ NoTemp \/ UNCHANGED vars
  BY <1>7 DEF Kill, NoTemp, vars, Abstract!vars, Recovered
<1>8. CASE PowerLoss
  BY <1>8 DEF PowerLoss, Recovered, Abstract!Next, Abstract!PowerLoss
<1>9. CASE LinkTemp
  <2>1. CASE dir.path = None
    <3> DEFINE d == [dir EXCEPT !.path = dir.tmp]
    <3>1. Recovered(d) = Recovered(dir)
      BY <1>0, <1>9, <2>1 DEF Recovered, Dirs, LinkTemp
    <3>2. Change(d)
      BY <1>9, <2>1 DEF LinkTemp
    <3> QED
      BY <3>1, <3>2, ChangeStutters
  <2>2. CASE dir.path # None
    BY <1>9, <2>2 DEF LinkTemp, Abstract!vars, Recovered
  <2> QED
    BY <2>1, <2>2
<1> QED
  BY <1>1, <1>2, <1>3, <1>4, <1>5, <1>6, <1>7, <1>8, <1>9 DEF Next

\* storeFile with its recovery is an atomic file: whatever fails and whenever,
\* the file has the last value, or after a power failure the one before.
THEOREM FileRefines == Spec => ImplementsFile
<1>1. Spec => []Inv
  BY InitInv, NextInv, PTL DEF Spec
<1> QED
  BY <1>1, InitMaps, NextMaps, PTL DEF Spec, ImplementsFile, Abstract!Spec
=============================================================================
