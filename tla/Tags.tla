------------------------------- MODULE Tags -------------------------------
(* The tags of a user (src/slib/tag.go): a process keeps the names of all its      *)
(* accounts in memory, name -> id, and each account a file of those it uses; a tag  *)
(* marks messages by its id.  A name that is taken by another id gets a suffix.     *)
(* Two processes hold the account "A": here from the start, there once it is        *)
(* copied; here is also "B", there "C".  An update of an account is written to a    *)
(* record, run, logged for the other replica, and the record removed                *)
(* (node.go, syncUpdtNode; SyncLog has its steps).                                 *)
(* A behaviour may have one fault:                                                 *)
(* late: a tag is added there between the copying of "A" and its start.            *)
(* second: two tags are made within a second.    crash: a process ends and starts  *)
(* again, between updates.    redo: and in the middle of one.                      *)
EXTENDS Naturals, Sequences, FiniteSets, SequencesExt

CONSTANTS TagName,    \* names a user gives
          TagFaults,  \* those of AllTagFaults that are considered
          MaxTags, MaxMarks, MaxTagCrashes, MaxSuffix   \* bounds

AllTagFaults == {"late", "second", "crash", "redo"}

ASSUME TagsAssumption ==
  /\ TagFaults \subseteq AllTagFaults
  /\ {MaxTags, MaxMarks, MaxTagCrashes} \subseteq Nat /\ MaxSuffix \in 1..9

Place == {"here", "there"}
Account == {"A", "B", "C"}
OtherPlace(p) == IF p = "here" THEN "there" ELSE "here"

VARIABLES tagFault,   \* the fault of this behaviour
          running,    \* place -> up, starting, or quit
          sTags,      \* place -> set of <<name, id>>
          sTagCopies, \* place -> set of <<id, account>>
          tagFile,    \* place -> account -> set of <<name, id>>
          opened,     \* place -> the accounts that are open
          holds,      \* place -> the accounts that are there
          marks,      \* place -> account -> ids that mark a message
          updating,   \* place -> account -> the record of its update, and its step
          tagMail,    \* place -> updates of "A" on their way to it
          copied,     \* "A" as it was copied, not yet started
          tagCount, markCount, tagCrashes
tagStore == <<tagFile, holds, marks, updating>>
tagVars == <<tagFault, running, sTags, sTagCopies, tagStore, opened, tagMail, copied, tagCount, markCount, tagCrashes>>

Todo == <<<<"Todo">>, 0>>
NoName == <<>>
NoRec == [name |-> NoName, id |-> 0, mark |-> FALSE, step |-> "none"]
NoCopied == [there |-> FALSE, file |-> {}, marks |-> {}]

TagsInit ==
  /\ tagFault \in TagFaults
  /\ running = [p \in Place |-> "up"]
  /\ sTags = [p \in Place |-> {Todo}] /\ sTagCopies = [p \in Place |-> {}]
  /\ tagFile = [p \in Place |-> [a \in Account |-> {}]]
  /\ holds = [p \in Place |-> IF p = "here" THEN {"A", "B"} ELSE {"C"}] /\ opened = holds
  /\ marks = [p \in Place |-> [a \in Account |-> {}]]
  /\ updating = [p \in Place |-> [a \in Account |-> NoRec]]
  /\ tagMail = [p \in Place |-> <<>>] /\ copied = NoCopied
  /\ tagCount = 0 /\ markCount = 0 /\ tagCrashes = 0

NamesOf(S) == {e[1] : e \in S}
IdsOf(S) == {e[2] : e \in S}
-----------------------------------------------------------------------------
(* A name another id has gets the account and a number; without a free one there   *)
(* is none.                                                                        *)
Taken(S, n, id) == \E e \in S : e[1] = n /\ e[2] # id
AltTagName(S, n, id, a) ==
  LET alt(k) == Append(n, <<a, k>>)
      free == {k \in 1..MaxSuffix : ~Taken(S, alt(k), id)}
  IN  IF ~Taken(S, n, id) THEN n
      ELSE IF free = {} THEN NoName
      ELSE alt(CHOOSE k \in free : \A j \in free : k <= j)

\* Mutant: any account's copy will do.
HasCopy_Anywhere(p, a, id) == id = 0 \/ \E c \in sTagCopies[p] : c[1] = id

(* mustCopyTag: must the tag be put into the account's file first? *)
HasCopy(p, a, id) == id = 0 \/ <<id, a>> \in sTagCopies[p]

(* addTag *)
AddTag(p, a, name, id) ==
  LET n == AltTagName(sTags[p], name, id, a)
  IN  IF HasCopy(p, a, id) THEN UNCHANGED <<running, sTags, sTagCopies>> /\ tagFile' = tagFile
      ELSE IF n = NoName
      THEN running' = [running EXCEPT ![p] = "quit"] /\ UNCHANGED <<sTags, sTagCopies, tagFile>>
      ELSE /\ sTags' = [sTags EXCEPT ![p] = @ \union {<<n, id>>}]
           /\ sTagCopies' = [sTagCopies EXCEPT ![p] = @ \union {<<id, a>>}]
           /\ tagFile' = [tagFile EXCEPT ![p][a] = {e \in @ : e[1] # n} \union {<<n, id>>}]
           /\ UNCHANGED running

Marks(p, a, r) == marks' = IF r.mark THEN [marks EXCEPT ![p][a] = @ \union {r.id}] ELSE marks

(* What a "tag_add" or a "thread_tag" does, wherever it comes from. *)
Applies(p, a, r) ==
  /\ IF r.name = NoName THEN UNCHANGED <<running, sTags, sTagCopies, tagFile>> ELSE AddTag(p, a, r.name, r.id)
  /\ Marks(p, a, r)
-----------------------------------------------------------------------------
Record(p, a, r) ==
  /\ running[p] = "up" /\ a \in holds[p] /\ updating[p][a] = NoRec
  /\ updating' = [updating EXCEPT ![p][a] = r]

(* "tag_add": the id is the time, in seconds. *)
TagAdd(p, a, n) ==
  /\ tagCount < MaxTags /\ tagCount' = tagCount + 1
  /\ tagFault = "late" \/ ~(copied.there /\ p = "there")
  /\ \E id \in {tagCount + 1} \union (IF tagFault = "second" /\ tagCount > 0 THEN {tagCount} ELSE {}) :
       /\ Record(p, a, [name |-> <<n>>, id |-> id, mark |-> FALSE, step |-> "kept"])
  /\ UNCHANGED <<tagFault, running, sTags, sTagCopies, tagFile, holds, marks, opened, tagMail, copied,
                 markCount, tagCrashes>>

(* "thread_tag" names the tag if the account has no copy of it. *)
ThreadTag(p, a, e) ==
  /\ e \in sTags[p] /\ markCount < MaxMarks /\ e[2] \notin marks[p][a]
  /\ Record(p, a, [name |-> IF HasCopy(p, a, e[2]) THEN NoName ELSE e[1], id |-> e[2], mark |-> TRUE, step |-> "kept"])
  /\ markCount' = markCount + 1
  /\ UNCHANGED <<tagFault, running, sTags, sTagCopies, tagFile, holds, marks, opened, tagMail, copied,
                 tagCount, tagCrashes>>

(* The update is made, now or again at a start; *)
TagRun(p, a) ==
  /\ running[p] \in {"up", "starting"} /\ a \in opened[p] /\ updating[p][a].step = "kept"
  /\ Applies(p, a, updating[p][a])
  /\ updating' = [updating EXCEPT ![p][a].step = "made"]
  /\ UNCHANGED <<tagFault, holds, opened, tagMail, copied, tagCount, markCount, tagCrashes>>

(* and logged: the replica gets it, once there is one. *)
TagLogged(p, a) ==
  /\ running[p] \in {"up", "starting"} /\ a \in opened[p] /\ updating[p][a].step = "made"
  /\ updating' = [updating EXCEPT ![p][a] = NoRec]
  /\ LET r == updating[p][a]
     IN  tagMail' = IF a # "A" \/ ~(copied.there \/ "A" \in holds[OtherPlace(p)]) THEN tagMail
                    ELSE [tagMail EXCEPT ![OtherPlace(p)] =
                            Append(@, [name |-> r.name, id |-> r.id, mark |-> r.mark])]
  /\ UNCHANGED <<tagFault, running, sTags, sTagCopies, tagFile, holds, marks, opened, copied,
                 tagCount, markCount, tagCrashes>>

(* An update from the other replica. *)
TagSync(p) ==
  /\ running[p] = "up" /\ "A" \in holds[p] /\ tagMail[p] # <<>>
  /\ Applies(p, "A", Head(tagMail[p]))
  /\ tagMail' = [tagMail EXCEPT ![p] = Tail(@)]
  /\ UNCHANGED <<tagFault, holds, updating, opened, copied, tagCount, markCount, tagCrashes>>
-----------------------------------------------------------------------------
\* Mutant: names are copied as they are.
FixConflict_Not(s, S, a) == ToSet(s)

(* fixConflictTag goes through the names in some order. *)
FixConflict(s, S, a) ==
  FoldLeft(LAMBDA T, e : T \union {<<AltTagName(S \union T, e[1], e[2], a), e[2]>>}, {}, s)

(* MakeNode there: "A" does not change meanwhile. *)
CopyTags ==
  /\ running = [p \in Place |-> "up"] /\ "A" \notin holds["there"] /\ ~copied.there
  /\ updating["here"]["A"] = NoRec /\ (tagFault = "late" \/ updating["there"]["C"] = NoRec)
  /\ \E s \in SetToSeqs(tagFile["here"]["A"]) :
       copied' = [there |-> TRUE, file |-> FixConflict(s, sTags["there"], "A"), marks |-> marks["here"]["A"]]
  /\ UNCHANGED <<tagFault, running, sTags, sTagCopies, tagStore, opened, tagMail, tagCount, markCount, tagCrashes>>

Duplicates(p, file) == \E e \in file : Taken(sTags[p], e[1], e[2])

(* _openService, initTag: a name with two ids ends the process. *)
OpenTags(p, a, file) ==
  IF Duplicates(p, file)
  THEN running' = [running EXCEPT ![p] = "quit"] /\ UNCHANGED <<sTags, sTagCopies, opened>>
  ELSE /\ sTags' = [sTags EXCEPT ![p] = @ \union file]
       /\ sTagCopies' = [sTagCopies EXCEPT ![p] = @ \union {<<id, a>> : id \in IdsOf(file)}]
       /\ opened' = [opened EXCEPT ![p] = @ \union {a}]
       /\ UNCHANGED running

(* StartNode *)
StartCopied ==
  /\ running["there"] = "up" /\ copied.there
  /\ copied' = NoCopied
  /\ tagFile' = [tagFile EXCEPT !["there"]["A"] = copied.file]
  /\ marks' = [marks EXCEPT !["there"]["A"] = copied.marks]
  /\ holds' = [holds EXCEPT !["there"] = @ \union {"A"}]
  /\ OpenTags("there", "A", copied.file)
  /\ UNCHANGED <<tagFault, updating, tagMail, tagCount, markCount, tagCrashes>>

(* A process ends, and starts: *)
TagCrash(p) ==
  /\ running[p] \in {"up", "starting"} /\ tagCrashes < MaxTagCrashes
  /\ tagFault = "redo" \/ (tagFault = "crash" /\ updating[p] = [a \in Account |-> NoRec])
  /\ tagCrashes' = tagCrashes + 1
  /\ running' = [running EXCEPT ![p] = "starting"]
  /\ sTags' = [sTags EXCEPT ![p] = {Todo}] /\ sTagCopies' = [sTagCopies EXCEPT ![p] = {}]
  /\ opened' = [opened EXCEPT ![p] = {}]
  /\ updating' = [updating EXCEPT ![p] = [a \in Account |-> IF @[a] = NoRec THEN NoRec ELSE [@[a] EXCEPT !.step = "kept"]]]
  /\ UNCHANGED <<tagFault, tagFile, holds, marks, tagMail, copied, tagCount, markCount>>

(* initServices opens one account after the other, and ends its update first. *)
OpenAccountTags(p, a) ==
  /\ running[p] = "starting" /\ a \in holds[p] \ opened[p]
  /\ \A b \in opened[p] : updating[p][b] = NoRec
  /\ OpenTags(p, a, tagFile[p][a])
  /\ UNCHANGED <<tagFault, tagStore, tagMail, copied, tagCount, markCount, tagCrashes>>

TagsOpened(p) ==
  /\ running[p] = "starting" /\ opened[p] = holds[p]
  /\ \A b \in opened[p] : updating[p][b] = NoRec
  /\ running' = [running EXCEPT ![p] = "up"]
  /\ UNCHANGED <<tagFault, sTags, sTagCopies, tagStore, opened, tagMail, copied, tagCount, markCount, tagCrashes>>

TagsNext ==
  \/ \E p \in Place, a \in Account : \/ \E n \in TagName : TagAdd(p, a, n)
                                     \/ \E e \in sTags[p] : ThreadTag(p, a, e)
                                     \/ TagRun(p, a) \/ TagLogged(p, a) \/ OpenAccountTags(p, a)
  \/ \E p \in Place : TagSync(p) \/ TagCrash(p) \/ TagsOpened(p)
  \/ CopyTags \/ StartCopied
TagsSpec == TagsInit /\ [][TagsNext]_tagVars
-----------------------------------------------------------------------------
Files(p) == UNION {tagFile[p][a] : a \in holds[p]}

(* What is in memory is what a start reads from the files: no name and no copy      *)
(* that one account has is forgotten, or taken for another's, by a restart.         *)
TagTypeOK ==
  /\ running \in [Place -> {"up", "starting", "quit"}]
  /\ \A p \in Place : running[p] = "up" =>
       /\ sTags[p] = {Todo} \union Files(p)
       /\ sTagCopies[p] = UNION {{<<id, a>> : id \in IdsOf(tagFile[p][a])} : a \in holds[p]}

(* A name never has two ids, in memory or in the files of one process, so that it   *)
(* opens its accounts ("tag duplicated", tag.go:30); and a name is found for each    *)
(* new tag (tag.go:80).                                                             *)
TagNoQuit == tagFault \notin {"late", "redo"} =>
  \A p \in Place : running[p] # "quit" /\ Cardinality(NamesOf(Files(p))) = Cardinality(Files(p))

(* So it is when a process ends in the middle of an update. *)
TagsReopen == tagFault # "late" => \A p \in Place : running[p] # "quit"

(* A message is marked only with tags of its account's file: a replica made from    *)
(* the account, and one that gets its updates, have a name for it, and so does a    *)
(* copy into another account (tag.go:69, "id not found in sTags").                  *)
MarkedHasName ==
  /\ \A p \in Place, a \in Account : marks[p][a] \subseteq {0} \union IdsOf(tagFile[p][a])
  /\ copied.marks \subseteq {0} \union IdsOf(copied.file)

(* A tag has one name in a process, with the same id in all its accounts. *)
OneName == tagFault # "second" =>
  \A p \in Place : Cardinality(IdsOf(sTags[p])) = Cardinality(sTags[p])

(* When nothing is on its way, the replicas of "A" have the same tags and marks,    *)
(* whatever the tags are called.                                                    *)
TagsAgree ==
  (/\ "A" \in holds["there"] /\ tagMail = [p \in Place |-> <<>>] /\ \A p \in Place : updating[p]["A"] = NoRec
   /\ running = [p \in Place |-> "up"]) =>
    /\ IdsOf(tagFile["here"]["A"]) = IdsOf(tagFile["there"]["A"])
    /\ marks["here"]["A"] = marks["there"]["A"]

(* A process can always open its accounts: memory is what their files say, and no   *)
(* name in them has two ids.                                                        *)
TagsSound == TagTypeOK /\ TagNoQuit

(* Accounts and replicas share the ids of tags, under whatever name: each mark has   *)
(* its tag, each tag one name, and replicas have the same.                          *)
TagsShared == MarkedHasName /\ OneName /\ TagsAgree
=============================================================================
