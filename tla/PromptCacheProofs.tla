-------------------------- MODULE PromptCacheProofs --------------------------
(***************************************************************************)
(* Theorems about PromptCache: the manifest and the directories agree, a   *)
(* crash finds a manifest that is whole and complete, eviction spares what *)
(* is in use, pins keep within their budget but for a manifest that mixes  *)
(* old and new ones, and a clean exit persists.                            *)
(***************************************************************************)
EXTENDS PromptCache, FiniteSetTheorems, WellFoundedInduction, TLAPS

----------------------------------------------------------------------------
(* Control: where the threads stand and what they hold there.              *)

Prefilling == {"hit", "pinsave", "protect", "verify", "grave", "quarsave", "fresh", "capture"}

WriterInv ==
  /\ wpc \in {"write", "resave", "renamed", "save", "undo", "unlist", "grave"} => wkey \in Key
  /\ at["writer"] # "no" <=> wpc \in {"resave", "save", "evictsave"}

DaemonInv ==
  /\ at["daemon"] # "no" <=> dpc \in {"bootsave", "pinsave", "quarsave", "flushsave", "latesave"}
  /\ dpc \in {"hit", "pinsave", "protect", "verify"} => hit \in Key
  /\ dpc \in Prefilling => goal \in Key
  /\ dpc \in {"boot", "bootsave"} => wq = << >> /\ wpc = "idle"
  /\ graves # {} => dpc = "grave"

OpenInv == \A t \in Thread : on[t] # "gone" => at[t] \in {"write", "swap"}

Ctl == TypeOK /\ WriterInv /\ DaemonInv /\ OpenInv

(* Copies of the manifest and files.                                       *)
LEMMA NoCopyType == NoCopy \in Copy /\ AFile("none") \in File /\ AFile("empty") \in File
                    /\ AFile("torn") \in File /\ \A c \in Copy : Full(c) \in File
BY DEF NoCopy, Copy, AFile, File, Full

(* The initial state.                                                      *)
LEMMA InitCtl == Init => Ctl
<1> SUFFICES ASSUME Init PROVE Ctl
  OBVIOUS
<1>1. << >> \in Seq(Key)
  OBVIOUS
<1>2. MemoryType /\ WriterType /\ DaemonType
  BY <1>1, SMT DEF Init, MemoryType, WriterType, DaemonType, WriterPc, DaemonPc
<1>3. SavingType
  BY NoCopyType, SMT DEF Init, SavingType, Thread
<1>4. DiskType
  <2>1. PICK c \in Earlier : /\ dir = [k \in Key |-> IF k \in c.ent THEN "whole" ELSE "none"]
                             /\ mfile = IF c.ent = {} THEN AFile("none") ELSE Full(c)
    BY Zenon DEF Init
  <2>2. c \in Copy
    BY EarlierAssumption, Zenon DEF Copy
  <2>3. mfile \in File /\ tfile \in File
    BY <2>1, <2>2, NoCopyType, Zenon DEF Init
  <2> QED
    BY <2>1, <2>3, SMT DEF DiskType
<1>5. HistoryType
  BY Zenon DEF Init, HistoryType
<1>6. BudgetType
  BY SMT DEF Init, BudgetType
<1>7. WriterInv /\ DaemonInv /\ OpenInv
  BY SMT DEF Init, WriterInv, DaemonInv, OpenInv, Thread, Prefilling
<1> QED
  BY <1>2, <1>3, <1>4, <1>5, <1>6, <1>7 DEF Ctl, TypeOK

(* The parts of the type that an action leaves alone.                      *)
LEMMA SameTypes ==
  /\ MemoryType /\ UNCHANGED memory => MemoryType'
  /\ WriterType /\ UNCHANGED writer => WriterType'
  /\ DaemonType /\ UNCHANGED daemon => DaemonType'
  /\ SavingType /\ UNCHANGED saving => SavingType'
  /\ DiskType /\ UNCHANGED <<dir, files>> => DiskType'
  /\ HistoryType /\ UNCHANGED history => HistoryType'
  /\ BudgetType /\ UNCHANGED budgets => BudgetType'
<1>1. MemoryType /\ UNCHANGED memory => MemoryType'
  BY Zenon DEF MemoryType, memory
<1>2. WriterType /\ UNCHANGED writer => WriterType'
  BY Zenon DEF WriterType, writer
<1>3. DaemonType /\ UNCHANGED daemon => DaemonType'
  BY Zenon DEF DaemonType, daemon
<1>4. SavingType /\ UNCHANGED saving => SavingType'
  BY Zenon DEF SavingType, saving
<1>5. DiskType /\ UNCHANGED <<dir, files>> => DiskType'
  BY Zenon DEF DiskType, files
<1>6. HistoryType /\ UNCHANGED history => HistoryType'
  BY Zenon DEF HistoryType, history
<1>7. BudgetType /\ UNCHANGED budgets => BudgetType'
  BY Zenon DEF BudgetType, budgets
<1> QED
  BY <1>1, <1>2, <1>3, <1>4, <1>5, <1>6, <1>7

(* What an action leaves alone keeps its control invariant.                *)
LEMMA SameCtl ==
  /\ WriterInv /\ UNCHANGED <<wpc, wkey, saving>> => WriterInv'
  /\ DaemonInv /\ UNCHANGED <<writer, daemon, saving>> => DaemonInv'
  /\ OpenInv /\ UNCHANGED saving => OpenInv'
<1>1. WriterInv /\ UNCHANGED <<wpc, wkey, saving>> => WriterInv'
  BY Zenon DEF WriterInv, saving
<1>2. DaemonInv /\ UNCHANGED <<writer, daemon, saving>> => DaemonInv'
  BY Zenon DEF DaemonInv, writer, daemon, saving
<1>3. OpenInv /\ UNCHANGED saving => OpenInv'
  BY Zenon DEF OpenInv, saving
<1> QED
  BY <1>1, <1>2, <1>3

(* A chain is a set of keys and contains its end.                          *)
LEMMA ChainFacts ==
  \A k \in Key : Chain[k] \subseteq Key /\ k \in Chain[k]
<1> SUFFICES ASSUME NEW k \in Key PROVE Chain[k] \subseteq Key /\ k \in Chain[k]
  OBVIOUS
<1>1. Chain[k] \in SUBSET Key
  BY ChainAssumption, Zenon
<1>2. k \in Chain[k]
  BY ChainAssumption, SMT
<1> QED
  BY <1>1, <1>2

(* What the lookup protects and what it finds are keys of the prompt.      *)
LEMMA LookupFacts ==
  ASSUME NEW g \in Key, NEW k \in Deepest(Complete(g))
  PROVE  k \in Chain[g] /\ k \in Key /\ Chain[k] \subseteq man
<1>1. k \in Complete(g)
  BY DEF Deepest
<1> QED
  BY <1>1, ChainFacts, Zenon DEF Complete

(* A node handed to the writer.                                            *)
LEMMA WriteNodeFacts ==
  ASSUME Ctl, NEW k \in Key, WriteNode(k)
  PROVE  wq' \in Seq(Key) /\ last' = k /\ protect' = protect \cup {k} /\ protect' \subseteq Key
<1>1. wq' \in Seq(Key)
  BY SMT DEF WriteNode, Ctl, TypeOK, WriterType
<1>2. protect' \subseteq Key
  BY Zenon DEF WriteNode, Ctl, TypeOK, MemoryType
<1> QED
  BY <1>1, <1>2, Zenon DEF WriteNode

(* What is loaded is a set of keys.                                        *)
LEMMA LoadedType == DiskType => Loaded \in Copy
<1> SUFFICES ASSUME DiskType PROVE Loaded \in Copy
  OBVIOUS
<1>1. mfile.copy \in Copy
  BY SMT DEF DiskType, File
<1> QED
  BY <1>1, NoCopyType, Zenon DEF Loaded

(* Taking a node from the queue.                                           *)
LEMMA TakeCtl == Ctl /\ Take => Ctl'
<1> SUFFICES ASSUME Ctl, Take PROVE Ctl'
  OBVIOUS
<1> USE DEF memory, writer, daemon, saving, files, history, budgets
<1>1. /\ MemoryType' /\ DaemonType' /\ SavingType' /\ DiskType' /\ HistoryType'
      /\ BudgetType' /\ OpenInv'
  BY SameTypes, SameCtl, Zenon DEF Take, Ctl, TypeOK
<1>2. WriterType'
  BY SMT DEF Take, Ctl, TypeOK, WriterType, WriterPc
<1>3. WriterInv'
  BY SMT DEF Take, Ctl, TypeOK, WriterInv, WriterType
<1>4. DaemonInv'
  BY SMT DEF Take, Ctl, TypeOK, DaemonInv
<1> QED
  BY <1>1, <1>2, <1>3, <1>4 DEF Ctl, TypeOK

(* A write that fails in the staging directory.                            *)
LEMMA StageFailCtl == Ctl /\ StageFail => Ctl'
<1> SUFFICES ASSUME Ctl, StageFail PROVE Ctl'
  OBVIOUS
<1> USE DEF memory, writer, daemon, saving, files, history, budgets
<1>1. /\ MemoryType' /\ DaemonType' /\ SavingType' /\ DiskType' /\ HistoryType'
      /\ OpenInv'
  BY SameTypes, SameCtl, Zenon DEF StageFail, Ctl, TypeOK
<1>2. WriterType'
  BY SMT DEF StageFail, Ctl, TypeOK, WriterType, WriterPc
<1>3. BudgetType'
  BY SMT DEF StageFail, Ctl, TypeOK, BudgetType
<1>4. WriterInv'
  BY SMT DEF StageFail, Ctl, TypeOK, WriterInv
<1>5. DaemonInv'
  BY SMT DEF StageFail, Ctl, TypeOK, DaemonInv
<1> QED
  BY <1>1, <1>2, <1>3, <1>4, <1>5 DEF Ctl, TypeOK

(* A node that is there already.                                           *)
LEMMA WriteAgainCtl == Ctl /\ WriteAgain => Ctl'
<1> SUFFICES ASSUME Ctl, WriteAgain PROVE Ctl'
  OBVIOUS
<1> USE DEF memory, writer, daemon, saving, files, history, budgets
<1>1. MemoryType' /\ DaemonType' /\ DiskType' /\ HistoryType' /\ BudgetType'
  BY SameTypes, SameCtl, Zenon DEF WriteAgain, Ctl, TypeOK
<1>2. WriterType'
  BY SMT DEF WriteAgain, Ctl, TypeOK, WriterType, WriterPc
<1>3. SavingType'
  BY SMT DEF WriteAgain, Ctl, TypeOK, SavingType, StartSave, Thread
<1>4. WriterInv'
  BY SMT DEF WriteAgain, Ctl, TypeOK, WriterInv, SavingType, StartSave, Thread
<1>5. DaemonInv'
  BY SMT DEF WriteAgain, Ctl, TypeOK, DaemonInv, SavingType, StartSave, Thread
<1>6. OpenInv'
  BY SMT DEF WriteAgain, Ctl, TypeOK, OpenInv, SavingType, StartSave, Thread, WriterInv
<1> QED
  BY <1>1, <1>2, <1>3, <1>4, <1>5, <1>6 DEF Ctl, TypeOK

(* The staged directory takes the node's name.                             *)
LEMMA RenameCtl == Ctl /\ Rename => Ctl'
<1> SUFFICES ASSUME Ctl, Rename PROVE Ctl'
  OBVIOUS
<1> USE DEF memory, writer, daemon, saving, files, history, budgets
<1>1. /\ MemoryType' /\ DaemonType' /\ SavingType' /\ HistoryType' /\ BudgetType'
      /\ OpenInv'
  BY SameTypes, SameCtl, Zenon DEF Rename, Ctl, TypeOK
<1>2. WriterType'
  BY SMT DEF Rename, Ctl, TypeOK, WriterType, WriterPc
<1>3. DiskType'
  BY SMT DEF Rename, Ctl, TypeOK, DiskType, WriterInv
<1>4. WriterInv'
  BY SMT DEF Rename, Ctl, TypeOK, WriterInv
<1>5. DaemonInv'
  BY SMT DEF Rename, Ctl, TypeOK, DaemonInv
<1> QED
  BY <1>1, <1>2, <1>3, <1>4, <1>5 DEF Ctl, TypeOK

(* The entry is made and its save begins.                                  *)
LEMMA InsertCtl == Ctl /\ Insert => Ctl'
<1> SUFFICES ASSUME Ctl, Insert PROVE Ctl'
  OBVIOUS
<1> USE DEF memory, writer, daemon, saving, files, history, budgets
<1>1. DaemonType' /\ DiskType' /\ HistoryType' /\ BudgetType'
  BY SameTypes, SameCtl, Zenon DEF Insert, Ctl, TypeOK
<1>2. MemoryType'
  BY SMT DEF Insert, Ctl, TypeOK, MemoryType, WriterInv
<1>3. WriterType'
  BY SMT DEF Insert, Ctl, TypeOK, WriterType, WriterPc
<1>4. SavingType'
  BY SMT DEF Insert, Ctl, TypeOK, SavingType, StartSave, Thread
<1>5. WriterInv'
  BY SMT DEF Insert, Ctl, TypeOK, WriterInv, SavingType, StartSave, Thread
<1>6. DaemonInv'
  BY SMT DEF Insert, Ctl, TypeOK, DaemonInv, SavingType, StartSave, Thread
<1>7. OpenInv'
  BY SMT DEF Insert, Ctl, TypeOK, OpenInv, SavingType, StartSave, Thread, WriterInv
<1> QED
  BY <1>1, <1>2, <1>3, <1>4, <1>5, <1>6, <1>7 DEF Ctl, TypeOK

(* The directory of a node whose save failed.                              *)
LEMMA UndoDirCtl == Ctl /\ UndoDir => Ctl'
<1> SUFFICES ASSUME Ctl, UndoDir PROVE Ctl'
  OBVIOUS
<1> USE DEF memory, writer, daemon, saving, files, history, budgets
<1>1. /\ MemoryType' /\ DaemonType' /\ SavingType' /\ HistoryType' /\ BudgetType'
      /\ OpenInv'
  BY SameTypes, SameCtl, Zenon DEF UndoDir, Ctl, TypeOK
<1>2. WriterType'
  BY SMT DEF UndoDir, Ctl, TypeOK, WriterType, WriterPc
<1>3. DiskType'
  BY SMT DEF UndoDir, Ctl, TypeOK, DiskType, WriterInv
<1>4. WriterInv'
  BY SMT DEF UndoDir, Ctl, TypeOK, WriterInv
<1>5. DaemonInv'
  BY SMT DEF UndoDir, Ctl, TypeOK, DaemonInv
<1> QED
  BY <1>1, <1>2, <1>3, <1>4, <1>5 DEF Ctl, TypeOK

(* The entry of a node whose save failed.                                  *)
LEMMA UndoEntryCtl == Ctl /\ UndoEntry => Ctl'
<1> SUFFICES ASSUME Ctl, UndoEntry PROVE Ctl'
  OBVIOUS
<1> USE DEF memory, writer, daemon, saving, files, history, budgets
<1>1. /\ DaemonType' /\ SavingType' /\ DiskType' /\ HistoryType' /\ BudgetType'
      /\ OpenInv'
  BY SameTypes, SameCtl, Zenon DEF UndoEntry, Ctl, TypeOK
<1>2. MemoryType'
  BY SMT DEF UndoEntry, Ctl, TypeOK, MemoryType
<1>3. WriterType'
  BY SMT DEF UndoEntry, Ctl, TypeOK, WriterType, WriterPc
<1>4. WriterInv'
  BY SMT DEF UndoEntry, Ctl, TypeOK, WriterInv
<1>5. DaemonInv'
  BY SMT DEF UndoEntry, Ctl, TypeOK, DaemonInv
<1> QED
  BY <1>1, <1>2, <1>3, <1>4, <1>5 DEF Ctl, TypeOK

(* An eviction from the manifest.                                          *)
LEMMA EvictOneCtl == Ctl /\ EvictOne => Ctl'
<1> SUFFICES ASSUME Ctl, EvictOne PROVE Ctl'
  OBVIOUS
<1> USE DEF memory, writer, daemon, saving, files, history, budgets
<1>1. /\ DaemonType' /\ SavingType' /\ DiskType' /\ HistoryType' /\ BudgetType'
      /\ OpenInv'
  BY SameTypes, SameCtl, Zenon DEF EvictOne, Ctl, TypeOK
<1>2. MemoryType'
  BY SMT DEF EvictOne, Ctl, TypeOK, MemoryType
<1>3. WriterType'
  BY SMT DEF EvictOne, Ctl, TypeOK, WriterType, WriterPc, MemoryType, Victims, Candidates
<1>4. WriterInv'
  BY SMT DEF EvictOne, Ctl, TypeOK, WriterInv, MemoryType, Victims, Candidates
<1>5. DaemonInv'
  BY SMT DEF EvictOne, Ctl, TypeOK, DaemonInv
<1> QED
  BY <1>1, <1>2, <1>3, <1>4, <1>5 DEF Ctl, TypeOK

(* The directory of an evicted node.                                       *)
LEMMA EvictDirCtl == Ctl /\ EvictDir => Ctl'
<1> SUFFICES ASSUME Ctl, EvictDir PROVE Ctl'
  OBVIOUS
<1> USE DEF memory, writer, daemon, saving, files, history, budgets
<1>1. MemoryType' /\ DaemonType' /\ HistoryType' /\ BudgetType'
  BY SameTypes, SameCtl, Zenon DEF EvictDir, Ctl, TypeOK
<1>2. WriterType'
  BY SMT DEF EvictDir, Ctl, TypeOK, WriterType, WriterPc
<1>3. SavingType'
  BY SMT DEF EvictDir, Ctl, TypeOK, SavingType, StartSave, Thread
<1>4. DiskType'
  BY SMT DEF EvictDir, Ctl, TypeOK, DiskType, WriterInv
<1>5. WriterInv'
  BY SMT DEF EvictDir, Ctl, TypeOK, WriterInv, SavingType, StartSave, Thread
<1>6. DaemonInv'
  BY SMT DEF EvictDir, Ctl, TypeOK, DaemonInv, SavingType, StartSave, Thread
<1>7. OpenInv'
  BY SMT DEF EvictDir, Ctl, TypeOK, OpenInv, SavingType, StartSave, Thread, WriterInv
<1> QED
  BY <1>1, <1>2, <1>3, <1>4, <1>5, <1>6, <1>7 DEF Ctl, TypeOK

(* The end of an eviction.                                                 *)
LEMMA EvictEndCtl == Ctl /\ EvictEnd => Ctl'
<1> SUFFICES ASSUME Ctl, EvictEnd PROVE Ctl'
  OBVIOUS
<1> USE DEF memory, writer, daemon, saving, files, history, budgets
<1>1. /\ MemoryType' /\ DaemonType' /\ SavingType' /\ DiskType' /\ HistoryType'
      /\ BudgetType' /\ OpenInv'
  BY SameTypes, SameCtl, Zenon DEF EvictEnd, Ctl, TypeOK
<1>2. WriterType'
  BY SMT DEF EvictEnd, Ctl, TypeOK, WriterType, WriterPc
<1>3. WriterInv'
  BY SMT DEF EvictEnd, Ctl, TypeOK, WriterInv
<1>4. DaemonInv'
  BY SMT DEF EvictEnd, Ctl, TypeOK, DaemonInv
<1> QED
  BY <1>1, <1>2, <1>3, <1>4 DEF Ctl, TypeOK

(* A prefill and its lookup.                                               *)
LEMMA RequestCtl == Ctl /\ Request => Ctl'
<1> SUFFICES ASSUME Ctl, Request PROVE Ctl'
  OBVIOUS
<1> USE DEF memory, writer, daemon, saving, files, history, budgets
<1>a. /\ dpc = "idle" /\ goal' \in Key
      /\ \/ dpc' = "fresh" /\ UNCHANGED <<hit, protect>>
         \/ /\ dpc' = "hit"
            /\ \E k \in Key : hit' = k /\ protect' = protect \cup Chain[k]
  BY LookupFacts, Zenon DEF Request, LookupHit
<1>b. UNCHANGED <<man, pins, last, graves, at, wq, wpc>>
  BY Zenon DEF Request
<1>1. /\ WriterType' /\ SavingType' /\ DiskType' /\ HistoryType' /\ WriterInv'
      /\ OpenInv'
  BY SameTypes, SameCtl, Zenon DEF Request, Ctl, TypeOK
<1>2. MemoryType'
  BY <1>a, <1>b, ChainFacts, Zenon DEF Ctl, TypeOK, MemoryType
<1>3. DaemonType'
  <2>1. dpc' \in DaemonPc
    BY <1>a, SMT DEF DaemonPc
  <2>2. hit' \in Key \cup {NoKey} /\ goal' \in Key \cup {NoKey}
    BY <1>a, Zenon DEF Ctl, TypeOK, DaemonType
  <2> QED
    BY <1>b, <2>1, <2>2, Zenon DEF Ctl, TypeOK, DaemonType
<1>4. BudgetType'
  BY SMT DEF Request, Ctl, TypeOK, BudgetType
<1>5. DaemonInv'
  BY <1>a, <1>b, SMT DEF Ctl, DaemonInv
<1> QED
  BY <1>1, <1>2, <1>3, <1>4, <1>5 DEF Ctl, TypeOK

(* A pin leaves the entries of every copy, and a copy that is written.     *)
LEMMA PinCopies ==
  ASSUME Ctl, Pin
  PROVE  /\ snap' \in [Thread -> Copy]
         /\ \A t \in Thread : /\ snap'[t].ent = snap[t].ent
                              /\ at[t] = "swap" => snap'[t] = snap[t]
<1> DEFINE c == snap["writer"]
           d == Shared(c, pins')
<1>1. /\ snap \in [Thread -> Copy] /\ c \in Copy
      /\ snap' = snap \/ (snap' = [snap EXCEPT !["writer"] = d] /\ at["writer"] # "swap")
  BY SMT DEF Pin, Ctl, TypeOK, SavingType, Thread
<1>2. d.ent = c.ent /\ d \in Copy
  <2> DEFINE X == c.pin \cup (pins' \cap c.ent)
             Y == c.mixed \/ ~(pins' \cap c.ent \subseteq c.pin)
  <2>1. d = [[c EXCEPT !.pin = X] EXCEPT !.mixed = Y]
    BY <1>1 DEF Shared, Copy
  <2>2. X \in SUBSET Key /\ Y \in BOOLEAN
    BY <1>1 DEF Copy
  <2> HIDE DEF X, Y
  <2>3. [c EXCEPT !.pin = X] \in Copy /\ [c EXCEPT !.pin = X].ent = c.ent
    BY <1>1, <2>2 DEF Copy
  <2> QED
    BY <2>1, <2>2, <2>3 DEF Copy
<1> HIDE DEF d
<1> QED
  BY <1>1, <1>2, SMT DEF Thread

(* Pins of the chain that was found.                                       *)
LEMMA PinCtl == Ctl /\ Pin => Ctl'
<1> SUFFICES ASSUME Ctl, Pin PROVE Ctl'
  OBVIOUS
<1> USE DEF memory, writer, daemon, saving, files, history, budgets
<1>a. pins' \subseteq pins \cup man
  BY Zenon DEF Pin, AfterPin
<1>1. WriterType' /\ DiskType' /\ HistoryType' /\ BudgetType'
  BY SameTypes, SameCtl, Zenon DEF Pin, Ctl, TypeOK
<1>2. MemoryType'
  BY <1>a, Zenon DEF Pin, Ctl, TypeOK, MemoryType
<1>3. DaemonType'
  BY SMT DEF Pin, Ctl, TypeOK, DaemonType, DaemonPc
<1>4. SavingType'
  <2>1. snap' \in [Thread -> Copy]
    BY PinCopies
  <2> QED
    BY <2>1, SMT DEF Pin, Ctl, TypeOK, SavingType, StartSave, Thread
<1>5. WriterInv'
  BY SMT DEF Pin, Ctl, TypeOK, WriterInv, SavingType, StartSave, Thread
<1>6. DaemonInv'
  BY SMT DEF Pin, Ctl, TypeOK, DaemonInv, SavingType, StartSave, Thread, Prefilling
<1>7. OpenInv'
  BY SMT DEF Pin, Ctl, TypeOK, OpenInv, SavingType, StartSave, Thread, DaemonInv
<1> QED
  BY <1>1, <1>2, <1>3, <1>4, <1>5, <1>6, <1>7 DEF Ctl, TypeOK

(* The chain replaces what was protected.                                  *)
LEMMA SetProtectCtl == Ctl /\ SetProtect => Ctl'
<1> SUFFICES ASSUME Ctl, SetProtect PROVE Ctl'
  OBVIOUS
<1> USE DEF memory, writer, daemon, saving, files, history, budgets
<1>a. hit \in Key /\ dpc = "protect"
  BY SMT DEF SetProtect, Ctl, DaemonInv
<1>1. /\ WriterType' /\ SavingType' /\ DiskType' /\ HistoryType' /\ BudgetType'
      /\ WriterInv' /\ OpenInv'
  BY SameTypes, SameCtl, Zenon DEF SetProtect, Ctl, TypeOK
<1>2. MemoryType'
  BY <1>a, ChainFacts, Zenon DEF SetProtect, Ctl, TypeOK, MemoryType
<1>3. DaemonType'
  BY SMT DEF SetProtect, Ctl, TypeOK, DaemonType, DaemonPc
<1>4. DaemonInv'
  BY SMT DEF SetProtect, Ctl, TypeOK, DaemonInv, Prefilling
<1> QED
  BY <1>1, <1>2, <1>3, <1>4 DEF Ctl, TypeOK

(* The end of a restore.                                                   *)
LEMMA RestoreCtl == Ctl /\ Restore => Ctl'
<1> SUFFICES ASSUME Ctl, Restore PROVE Ctl'
  OBVIOUS
<1> USE DEF memory, writer, daemon, saving, files, history, budgets
<1>1. /\ MemoryType' /\ WriterType' /\ SavingType' /\ DiskType' /\ HistoryType'
      /\ BudgetType' /\ WriterInv' /\ OpenInv'
  BY SameTypes, SameCtl, Zenon DEF Restore, Ctl, TypeOK
<1>2. DaemonType'
  BY SMT DEF Restore, Ctl, TypeOK, DaemonType, DaemonPc
<1>3. DaemonInv'
  BY SMT DEF Restore, Ctl, TypeOK, DaemonInv, Prefilling
<1> QED
  BY <1>1, <1>2, <1>3 DEF Ctl, TypeOK

(* A quarantine's entries.                                                 *)
LEMMA QuarantineCtl == Ctl /\ Quarantine => Ctl'
<1> SUFFICES ASSUME Ctl, Quarantine PROVE Ctl'
  OBVIOUS
<1> USE DEF memory, writer, daemon, saving, files, history, budgets
<1>a. dpc = "verify" /\ graves' \subseteq man /\ hit' = NoKey /\ dpc' \in {"fresh", "grave"}
      /\ (graves' # {} => dpc' = "grave")
      /\ goal' = goal /\ last' = last /\ at' = at
  BY SMT DEF Quarantine, Subtree
<1>1. /\ WriterType' /\ SavingType' /\ DiskType' /\ HistoryType' /\ BudgetType'
      /\ WriterInv' /\ OpenInv'
  BY SameTypes, SameCtl, Zenon DEF Quarantine, Ctl, TypeOK
<1>2. MemoryType'
  BY SMT DEF Quarantine, Ctl, TypeOK, MemoryType
<1>3. DaemonType'
  BY <1>a, SMT DEF Ctl, TypeOK, DaemonType, MemoryType, DaemonPc
<1>4. DaemonInv'
  BY SMT DEF Quarantine, Ctl, TypeOK, DaemonInv, Prefilling
<1> QED
  BY <1>1, <1>2, <1>3, <1>4 DEF Ctl, TypeOK

(* A quarantine's directories.                                             *)
LEMMA QuarantineDirCtl == Ctl /\ QuarantineDir => Ctl'
<1> SUFFICES ASSUME Ctl, QuarantineDir PROVE Ctl'
  OBVIOUS
<1> USE DEF memory, writer, daemon, saving, files, history, budgets
<1>a. PICK k \in graves : /\ dir' = [dir EXCEPT ![k] = "none"]
                          /\ graves' = graves \ {k}
                          /\ lost' = lost \cup ({k} \cap Listed)
  BY Zenon DEF QuarantineDir
<1>b. k \in Key
  BY <1>a, Zenon DEF Ctl, TypeOK, DaemonType
<1>1. MemoryType' /\ WriterType' /\ BudgetType'
  BY SameTypes, SameCtl, Zenon DEF QuarantineDir, Ctl, TypeOK
<1>2. DaemonType'
  BY SMT DEF QuarantineDir, Ctl, TypeOK, DaemonType, DaemonPc
<1>3. SavingType'
  BY SMT DEF QuarantineDir, Ctl, TypeOK, SavingType, StartSave, Thread
<1>4. DiskType'
  BY <1>a, <1>b, SMT DEF QuarantineDir, Ctl, TypeOK, DiskType
<1>5. HistoryType'
  BY <1>a, <1>b, Zenon DEF QuarantineDir, Ctl, TypeOK, HistoryType
<1>6. WriterInv'
  BY SMT DEF QuarantineDir, Ctl, TypeOK, WriterInv, SavingType, StartSave, Thread
<1>7. DaemonInv'
  BY SMT DEF QuarantineDir, Ctl, TypeOK, DaemonInv, SavingType, StartSave, Thread, Prefilling
<1>8. OpenInv'
  BY SMT DEF QuarantineDir, Ctl, TypeOK, OpenInv, SavingType, StartSave, Thread, DaemonInv
<1> QED
  BY <1>1, <1>2, <1>3, <1>4, <1>5, <1>6, <1>7, <1>8 DEF Ctl, TypeOK

(* The reset before a FRESH prefill.                                       *)
LEMMA FreshCtl == Ctl /\ Fresh => Ctl'
<1> SUFFICES ASSUME Ctl, Fresh PROVE Ctl'
  OBVIOUS
<1> USE DEF memory, writer, daemon, saving, files, history, budgets
<1>1. /\ WriterType' /\ SavingType' /\ DiskType' /\ HistoryType' /\ BudgetType'
      /\ WriterInv' /\ OpenInv'
  BY SameTypes, SameCtl, Zenon DEF Fresh, Ctl, TypeOK
<1>2. MemoryType'
  BY SMT DEF Fresh, Ctl, TypeOK, MemoryType
<1>3. DaemonType'
  BY SMT DEF Fresh, Ctl, TypeOK, DaemonType, DaemonPc
<1>4. DaemonInv'
  BY SMT DEF Fresh, Ctl, TypeOK, DaemonInv, Prefilling
<1> QED
  BY <1>1, <1>2, <1>3, <1>4 DEF Ctl, TypeOK

(* A node captured at a boundary.                                          *)
LEMMA CaptureCtl == Ctl /\ Capture => Ctl'
<1> SUFFICES ASSUME Ctl, Capture PROVE Ctl'
  OBVIOUS
<1> USE DEF memory, writer, daemon, saving, files, history, budgets
<1>a. dpc = "capture" /\ goal \in Key
  BY SMT DEF Capture, Ctl, DaemonInv, Prefilling
<1>b. PICK k \in Chain[goal] : /\ WriteNode(k)
                               /\ IF k = goal THEN dpc' = "idle" /\ goal' = NoKey
                                  ELSE UNCHANGED <<dpc, goal>>
  BY Zenon DEF Capture
<1>c. k \in Key
  BY <1>a, <1>b, ChainFacts, Zenon
<1>d. /\ wq' \in Seq(Key) /\ last' = k /\ protect' \subseteq Key
      /\ goal' \in {goal, NoKey} /\ dpc' \in {dpc, "idle"} /\ (dpc' # "idle" => goal' = goal)
  BY <1>a, <1>b, <1>c, WriteNodeFacts, Zenon
<1>1. /\ SavingType' /\ DiskType' /\ HistoryType' /\ BudgetType' /\ WriterInv'
      /\ OpenInv'
  BY SameTypes, SameCtl, Zenon DEF Capture, Ctl, TypeOK
<1>2. MemoryType'
  BY <1>d, Zenon DEF Capture, Ctl, TypeOK, MemoryType
<1>3. WriterType'
  BY <1>d, Zenon DEF Capture, Ctl, TypeOK, WriterType
<1>4. DaemonType'
  <2>1. hit' = hit /\ graves' = graves
    BY Zenon DEF Capture
  <2> QED
    BY <2>1, <1>c, <1>d, SMT DEF Ctl, TypeOK, DaemonType, DaemonPc
<1>5. DaemonInv'
  <2>1. hit' = hit /\ graves' = graves /\ at' = at
    BY Zenon DEF Capture
  <2>2. dpc' \in {"capture", "idle"} /\ (dpc' = "capture" => goal' \in Key)
    BY <1>a, <1>d, Zenon
  <2> QED
    BY <1>a, <2>1, <2>2, SMT DEF Ctl, DaemonInv, Prefilling
<1> QED
  BY <1>1, <1>2, <1>3, <1>4, <1>5 DEF Ctl, TypeOK

(* A cancelled prefill.                                                    *)
LEMMA CancelPrefillCtl == Ctl /\ CancelPrefill => Ctl'
<1> SUFFICES ASSUME Ctl, CancelPrefill PROVE Ctl'
  OBVIOUS
<1> USE DEF memory, writer, daemon, saving, files, history, budgets
<1>1. /\ MemoryType' /\ WriterType' /\ SavingType' /\ DiskType' /\ HistoryType'
      /\ BudgetType' /\ WriterInv' /\ OpenInv'
  BY SameTypes, SameCtl, Zenon DEF CancelPrefill, Ctl, TypeOK
<1>2. DaemonType'
  BY SMT DEF CancelPrefill, Ctl, TypeOK, DaemonType, DaemonPc
<1>3. DaemonInv'
  BY SMT DEF CancelPrefill, Ctl, TypeOK, DaemonInv, Prefilling
<1> QED
  BY <1>1, <1>2, <1>3 DEF Ctl, TypeOK

(* A node captured at the end of a turn.                                   *)
LEMMA TurnEndCtl == Ctl /\ TurnEnd => Ctl'
<1> SUFFICES ASSUME Ctl, TurnEnd PROVE Ctl'
  OBVIOUS
<1> USE DEF memory, writer, daemon, saving, files, history, budgets
<1>a. PICK k \in Key : WriteNode(k)
  BY Zenon DEF TurnEnd
<1>b. wq' \in Seq(Key) /\ last' = k /\ protect' \subseteq Key
  BY <1>a, WriteNodeFacts, Zenon
<1>1. SavingType' /\ DiskType' /\ HistoryType' /\ WriterInv' /\ OpenInv'
  BY SameTypes, SameCtl, Zenon DEF TurnEnd, Ctl, TypeOK
<1>2. MemoryType'
  BY <1>b, Zenon DEF TurnEnd, Ctl, TypeOK, MemoryType
<1>3. WriterType'
  BY <1>b, Zenon DEF TurnEnd, Ctl, TypeOK, WriterType
<1>4. DaemonType'
  BY <1>b, Zenon DEF TurnEnd, Ctl, TypeOK, DaemonType
<1>5. BudgetType'
  BY SMT DEF TurnEnd, Ctl, TypeOK, BudgetType
<1>6. DaemonInv'
  BY SMT DEF TurnEnd, Ctl, TypeOK, DaemonInv
<1> QED
  BY <1>1, <1>2, <1>3, <1>4, <1>5, <1>6 DEF Ctl, TypeOK

(* The manifest is loaded.                                                 *)
LEMMA LoadCtl == Ctl /\ Load => Ctl'
<1> SUFFICES ASSUME Ctl, Load PROVE Ctl'
  OBVIOUS
<1> USE DEF memory, writer, daemon, saving, files, history, budgets
<1>a. Loaded \in Copy
  BY LoadedType DEF Ctl, TypeOK
<1>b. Loaded.ent \subseteq Key
  BY <1>a, SMT DEF Copy
<1>c. man' \subseteq Key
  BY <1>b, Zenon DEF Load, Kept
<1>d. pins' \subseteq man'
  BY Zenon DEF Load
<1>1. WriterType' /\ BudgetType'
  BY SameTypes, SameCtl, Zenon DEF Load, Ctl, TypeOK
<1>e. mixed' \in BOOLEAN /\ overlap' = overlap /\ lost' = lost
  BY Zenon DEF Load
<1>f. HistoryType'
  BY <1>e, Zenon DEF Ctl, TypeOK, HistoryType
<1>2. MemoryType'
  BY <1>c, <1>d, Zenon DEF Load, Ctl, TypeOK, MemoryType
<1>3. DaemonType'
  BY SMT DEF Load, Ctl, TypeOK, DaemonType, DaemonPc
<1>4. SavingType'
  BY SMT DEF Load, Ctl, TypeOK, SavingType, StartSave, Thread
<1>5. DiskType'
  BY SMT DEF Load, Ctl, TypeOK, DiskType
<1>6. WriterInv'
  BY SMT DEF Load, Ctl, TypeOK, WriterInv, SavingType, StartSave, Thread
<1>7. DaemonInv'
  BY SMT DEF Load, Ctl, TypeOK, DaemonInv, SavingType, StartSave, Thread, Prefilling
<1>8. OpenInv'
  BY SMT DEF Load, Ctl, TypeOK, OpenInv, SavingType, StartSave, Thread, DaemonInv
<1> QED
  BY <1>1, <1>f, <1>2, <1>3, <1>4, <1>5, <1>6, <1>7, <1>8 DEF Ctl, TypeOK

(* The boot conversation's node.                                           *)
LEMMA BootIngestCtl == Ctl /\ BootIngest => Ctl'
<1> SUFFICES ASSUME Ctl, BootIngest PROVE Ctl'
  OBVIOUS
<1> USE DEF memory, writer, daemon, saving, files, history, budgets
<1>a. Base \in Key
  BY BaseAssumption
<1>b. wq' \in Seq(Key) /\ last' = Base /\ protect' \subseteq Key
  BY <1>a, WriteNodeFacts, Zenon DEF BootIngest
<1>1. /\ SavingType' /\ DiskType' /\ HistoryType' /\ BudgetType' /\ WriterInv'
      /\ OpenInv'
  BY SameTypes, SameCtl, Zenon DEF BootIngest, Ctl, TypeOK
<1>2. MemoryType'
  BY <1>b, Zenon DEF BootIngest, Ctl, TypeOK, MemoryType
<1>3. WriterType'
  BY <1>b, Zenon DEF BootIngest, Ctl, TypeOK, WriterType
<1>4. DaemonType'
  <2>1. dpc' = "idle" /\ hit' = hit /\ goal' = goal /\ graves' = graves
    BY Zenon DEF BootIngest
  <2> QED
    BY <2>1, <1>a, <1>b, SMT DEF Ctl, TypeOK, DaemonType, DaemonPc
<1>5. DaemonInv'
  <2>1. dpc = "ingest" /\ dpc' = "idle" /\ hit' = hit /\ goal' = goal /\ graves' = graves /\ at' = at
    BY Zenon DEF BootIngest
  <2> QED
    BY <2>1, SMT DEF Ctl, DaemonInv, Prefilling
<1> QED
  BY <1>1, <1>2, <1>3, <1>4, <1>5 DEF Ctl, TypeOK

(* A clean exit begins.                                                    *)
LEMMA ShutdownCtl == Ctl /\ Shutdown => Ctl'
<1> SUFFICES ASSUME Ctl, Shutdown PROVE Ctl'
  OBVIOUS
<1> USE DEF memory, writer, daemon, saving, files, history, budgets
<1>1. /\ MemoryType' /\ WriterType' /\ SavingType' /\ DiskType' /\ HistoryType'
      /\ BudgetType' /\ WriterInv' /\ OpenInv'
  BY SameTypes, SameCtl, Zenon DEF Shutdown, Ctl, TypeOK
<1>2. DaemonType'
  BY SMT DEF Shutdown, Ctl, TypeOK, DaemonType, DaemonPc
<1>3. DaemonInv'
  BY SMT DEF Shutdown, Ctl, TypeOK, DaemonInv, Prefilling
<1> QED
  BY <1>1, <1>2, <1>3 DEF Ctl, TypeOK

(* The last save begins.                                                   *)
LEMMA FlushCtl == Ctl /\ Flush => Ctl'
<1> SUFFICES ASSUME Ctl, Flush PROVE Ctl'
  OBVIOUS
<1> USE DEF memory, writer, daemon, saving, files, history, budgets
<1>1. MemoryType' /\ WriterType' /\ DiskType' /\ HistoryType' /\ BudgetType'
  BY SameTypes, SameCtl, Zenon DEF Flush, Ctl, TypeOK
<1>2. DaemonType'
  BY SMT DEF Flush, Ctl, TypeOK, DaemonType, DaemonPc
<1>3. SavingType'
  BY SMT DEF Flush, Ctl, TypeOK, SavingType, StartSave, Thread
<1>4. WriterInv'
  BY SMT DEF Flush, Ctl, TypeOK, WriterInv, SavingType, StartSave, Thread
<1>5. DaemonInv'
  BY SMT DEF Flush, Ctl, TypeOK, DaemonInv, SavingType, StartSave, Thread, Prefilling
<1>6. OpenInv'
  BY SMT DEF Flush, Ctl, TypeOK, OpenInv, SavingType, StartSave, Thread, DaemonInv
<1> QED
  BY <1>1, <1>2, <1>3, <1>4, <1>5, <1>6 DEF Ctl, TypeOK

(* The process ends.                                                       *)
LEMMA RestartCtl == Ctl /\ Restart => Ctl'
<1> SUFFICES ASSUME Ctl, Restart PROVE Ctl'
  OBVIOUS
<1> USE DEF memory, writer, daemon, saving, files, history, budgets
<1>1. DiskType'
  BY SameTypes, SameCtl, Zenon DEF Restart, Ctl, TypeOK
<1>2. MemoryType'
  BY SMT DEF Restart, Ctl, TypeOK, MemoryType
<1>3. WriterType'
  BY SMT DEF Restart, Ctl, TypeOK, WriterType, WriterPc
<1>4. DaemonType'
  BY SMT DEF Restart, Ctl, TypeOK, DaemonType, DaemonPc
<1>5. SavingType'
  BY NoCopyType, SMT DEF Restart, SavingType, Thread
<1>6. HistoryType'
  BY Zenon DEF Restart, Ctl, TypeOK, HistoryType
<1>7. BudgetType'
  BY SMT DEF Restart, Ctl, TypeOK, BudgetType
<1>8. WriterInv'
  BY SMT DEF Restart, Ctl, TypeOK, WriterInv, Thread
<1>9. DaemonInv'
  BY SMT DEF Restart, Ctl, TypeOK, DaemonInv, Thread, Prefilling
<1>10. OpenInv'
  BY SMT DEF Restart, Ctl, TypeOK, OpenInv, Thread
<1> QED
  BY <1>1, <1>2, <1>3, <1>4, <1>5, <1>6, <1>7, <1>8, <1>9, <1>10 DEF Ctl, TypeOK

(* A node is damaged.                                                      *)
LEMMA RotCtl == Ctl /\ Rot => Ctl'
<1> SUFFICES ASSUME Ctl, Rot PROVE Ctl'
  OBVIOUS
<1> USE DEF memory, writer, daemon, saving, files, history, budgets
<1>a. PICK k \in Key : dir' = [dir EXCEPT ![k] = "rotten"]
  BY Zenon DEF Rot, OnDisk
<1>1. /\ MemoryType' /\ WriterType' /\ DaemonType' /\ SavingType' /\ HistoryType'
      /\ WriterInv' /\ DaemonInv' /\ OpenInv'
  BY SameTypes, SameCtl, Zenon DEF Rot, Ctl, TypeOK
<1>2. DiskType'
  <2>1. dir' \in [Key -> {"none", "whole", "rotten"}]
    BY <1>a, SMT DEF Ctl, TypeOK, DiskType
  <2>2. mfile' = mfile /\ tfile' = tfile
    BY Zenon DEF Rot
  <2> QED
    BY <2>1, <2>2, Zenon DEF Ctl, TypeOK, DiskType
<1>3. BudgetType'
  BY SMT DEF Rot, Ctl, TypeOK, BudgetType
<1> QED
  BY <1>1, <1>2, <1>3 DEF Ctl, TypeOK

(* A pin lapses.                                                           *)
LEMMA LapseCtl == Ctl /\ Lapse => Ctl'
<1> SUFFICES ASSUME Ctl, Lapse PROVE Ctl'
  OBVIOUS
<1> USE DEF memory, writer, daemon, saving, files, history, budgets
<1>1. /\ WriterType' /\ DaemonType' /\ SavingType' /\ DiskType' /\ HistoryType'
      /\ BudgetType' /\ WriterInv' /\ DaemonInv' /\ OpenInv'
  BY SameTypes, SameCtl, Zenon DEF Lapse, Ctl, TypeOK
<1>2. MemoryType'
  BY SMT DEF Lapse, Ctl, TypeOK, MemoryType
<1> QED
  BY <1>1, <1>2 DEF Ctl, TypeOK

(* Where the end of a save leaves the two threads.                         *)
LEMMA ReturnStands ==
  ASSUME Ctl, NEW t \in Thread, NEW ok \in BOOLEAN, at[t] # "no", Return(t, ok)
  PROVE  \/ /\ t = "writer" /\ wpc \in {"resave", "save", "evictsave"} /\ dpc' = dpc
            /\ wpc' \in {"idle", "evict", "undo"} /\ wkey' \in {wkey, NoKey}
            /\ (wpc' = "undo" => wpc = "save" /\ ~ok /\ wkey' = wkey)
            /\ (wpc = "resave" => wpc' = "idle")
         \/ /\ t = "daemon" /\ wpc' = wpc /\ wkey' = wkey
            /\ dpc \in {"bootsave", "pinsave", "quarsave", "flushsave", "latesave"}
            /\ dpc' \in {"ingest", "protect", "fresh", "exit"}
            /\ (dpc' = "ingest" <=> dpc = "bootsave") /\ (dpc' = "protect" <=> dpc = "pinsave")
            /\ (dpc' = "fresh" <=> dpc = "quarsave")
<1>1. CASE t = "writer"
  BY <1>1, SMT DEF Return, WriterAfter, Ctl, WriterInv
<1>2. CASE t = "daemon"
  BY <1>2, SMT DEF Return, DaemonAfter, Ctl, DaemonInv
<1> QED
  BY <1>1, <1>2 DEF Thread

(* The end of a save: the thread goes on and holds nothing.                *)
LEMMA ReturnFacts ==
  ASSUME Ctl, NEW t \in Thread, NEW ok \in BOOLEAN, at[t] # "no", Return(t, ok),
         UNCHANGED <<wq, goal, hit, last, graves>>
  PROVE  /\ WriterType' /\ DaemonType' /\ WriterInv' /\ DaemonInv'
         /\ at' \in [Thread -> {"no", "copy", "open", "write", "swap"}]
         /\ snap' \in [Thread -> Copy]
         /\ at' = [at EXCEPT ![t] = "no"]
<1>1. /\ at' = [at EXCEPT ![t] = "no"]
      /\ at' \in [Thread -> {"no", "copy", "open", "write", "swap"}]
      /\ at'[t] = "no" /\ \A u \in Thread \ {t} : at'[u] = at[u]
  BY SMT DEF Return, Ctl, TypeOK, SavingType
<1>2. snap' \in [Thread -> Copy]
  BY NoCopyType, SMT DEF Return, Ctl, TypeOK, SavingType
<1>3. CASE t = "writer"
  <2>1. /\ wpc \in {"resave", "save", "evictsave"} /\ dpc' = dpc
        /\ wpc' \in {"idle", "evict", "undo"} /\ (wpc' = "undo" => wpc = "save" /\ wkey' = wkey)
        /\ wkey' \in {wkey, NoKey} /\ (wpc = "resave" => wpc' = "idle")
    BY <1>3, ReturnStands, Zenon
  <2>2. WriterType'
    BY <2>1, SMT DEF Ctl, TypeOK, WriterType, WriterPc
  <2>3. WriterInv'
    BY <1>1, <1>3, <2>1, SMT DEF Ctl, WriterInv
  <2>4. DaemonType'
    BY <2>1, SMT DEF Ctl, TypeOK, DaemonType
  <2>5. DaemonInv'
    BY <1>1, <1>3, <2>1, SMT DEF Ctl, DaemonInv, Thread
  <2> QED
    BY <1>1, <1>2, <2>2, <2>3, <2>4, <2>5
<1>4. CASE t = "daemon"
  <2>1. /\ dpc \in {"bootsave", "pinsave", "quarsave", "flushsave", "latesave"}
        /\ wpc' = wpc /\ wkey' = wkey
    BY <1>4, ReturnStands, Zenon
  <2>2. /\ dpc' \in {"ingest", "protect", "fresh", "exit"}
        /\ (dpc' = "protect" => dpc = "pinsave") /\ (dpc' = "fresh" => dpc = "quarsave")
    BY <1>4, ReturnStands, Zenon
  <2>3. DaemonType'
    BY <2>2, SMT DEF Ctl, TypeOK, DaemonType, DaemonPc
  <2>4. DaemonInv'
    BY <1>1, <1>4, <2>1, <2>2, SMT DEF Ctl, DaemonInv, Prefilling
  <2>5. WriterType'
    BY <2>1, SMT DEF Ctl, TypeOK, WriterType
  <2>6. WriterInv'
    BY <1>1, <1>4, <2>1, SMT DEF Ctl, WriterInv, Thread
  <2> QED
    BY <1>1, <1>2, <2>3, <2>4, <2>5, <2>6
<1> QED
  BY <1>3, <1>4 DEF Thread

(* The files a save may write.                                             *)
LEMMA WrittenType == \A f \in File, c \in Copy : Written(f, c) \subseteq File
BY NoCopyType, Zenon DEF Written

(* Copying the entries.                                                    *)
LEMMA SaveCopyCtl == \A t \in Thread : Ctl /\ SaveCopy(t) => Ctl'
<1> SUFFICES ASSUME NEW t \in Thread, Ctl, SaveCopy(t) PROVE Ctl'
  OBVIOUS
<1> USE DEF memory, writer, daemon, saving, files, history, budgets
<1>1. MemoryType' /\ WriterType' /\ DaemonType' /\ DiskType' /\ BudgetType'
  BY SameTypes, Zenon DEF SaveCopy, Ctl, TypeOK
<1>2. HistoryType'
  <2>1. overlap' \in BOOLEAN
    BY Zenon DEF SaveCopy
  <2> QED
    BY <2>1, Zenon DEF SaveCopy, Ctl, TypeOK, HistoryType
<1>3. SavingType'
  <2>1. [ent |-> man, pin |-> pins, mixed |-> FALSE] \in Copy
    BY SMT DEF Ctl, TypeOK, MemoryType, Copy
  <2> QED
    BY <2>1, SMT DEF SaveCopy, Ctl, TypeOK, SavingType
<1>4. WriterInv'
  BY SMT DEF SaveCopy, Ctl, WriterInv, TypeOK, SavingType
<1>5. DaemonInv'
  BY SMT DEF SaveCopy, Ctl, DaemonInv, TypeOK, SavingType
<1>6. OpenInv'
  BY SMT DEF SaveCopy, Ctl, OpenInv, TypeOK, SavingType
<1> QED
  BY <1>1, <1>2, <1>3, <1>4, <1>5, <1>6 DEF Ctl, TypeOK

(* Opening the temporary file.                                             *)
LEMMA SaveOpenCtl == \A t \in Thread : Ctl /\ SaveOpen(t) => Ctl'
<1> SUFFICES ASSUME NEW t \in Thread, Ctl, SaveOpen(t) PROVE Ctl'
  OBVIOUS
<1> USE DEF memory, writer, daemon, saving, files, history, budgets
<1>1. MemoryType' /\ WriterType' /\ DaemonType' /\ HistoryType' /\ BudgetType'
  BY SameTypes, Zenon DEF SaveOpen, Ctl, TypeOK
<1>2. DiskType'
  BY NoCopyType, Zenon DEF SaveOpen, Ctl, TypeOK, DiskType
<1>3. SavingType'
  BY SMT DEF SaveOpen, Ctl, TypeOK, SavingType
<1>4. WriterInv'
  BY SMT DEF SaveOpen, Ctl, WriterInv, TypeOK, SavingType
<1>5. DaemonInv'
  BY SMT DEF SaveOpen, Ctl, DaemonInv, TypeOK, SavingType
<1>6. OpenInv'
  BY SMT DEF SaveOpen, Ctl, OpenInv, TypeOK, SavingType
<1> QED
  BY <1>1, <1>2, <1>3, <1>4, <1>5, <1>6 DEF Ctl, TypeOK

(* Writing to it.                                                          *)
LEMMA SaveWriteCtl == \A t \in Thread : Ctl /\ SaveWrite(t) => Ctl'
<1> SUFFICES ASSUME NEW t \in Thread, Ctl, SaveWrite(t) PROVE Ctl'
  OBVIOUS
<1> USE DEF memory, writer, daemon, saving, files, history, budgets
<1>1. MemoryType' /\ WriterType' /\ DaemonType' /\ HistoryType' /\ BudgetType'
  BY SameTypes, Zenon DEF SaveWrite, Ctl, TypeOK
<1>2. DiskType'
  <2>1. snap[t] \in Copy
    BY SMT DEF Ctl, TypeOK, SavingType
  <2>2. Written(tfile, snap[t]) \subseteq File /\ Written(mfile, snap[t]) \subseteq File
    BY <2>1, WrittenType, Zenon DEF Ctl, TypeOK, DiskType
  <2> QED
    BY <2>2, Zenon DEF SaveWrite, Ctl, TypeOK, DiskType
<1>3. SavingType'
  BY SMT DEF SaveWrite, Ctl, TypeOK, SavingType
<1>4. WriterInv'
  BY SMT DEF SaveWrite, Ctl, WriterInv, TypeOK, SavingType
<1>5. DaemonInv'
  BY SMT DEF SaveWrite, Ctl, DaemonInv, TypeOK, SavingType
<1>6. OpenInv'
  BY SMT DEF SaveWrite, Ctl, OpenInv, TypeOK, SavingType
<1> QED
  BY <1>1, <1>2, <1>3, <1>4, <1>5, <1>6 DEF Ctl, TypeOK

(* Replacing the manifest.                                                 *)
LEMMA SaveSwapCtl == \A t \in Thread : Ctl /\ SaveSwap(t) => Ctl'
<1> SUFFICES ASSUME NEW t \in Thread, Ctl, SaveSwap(t) PROVE Ctl'
  OBVIOUS
<1> USE DEF memory, files, history, budgets
<1>1. MemoryType' /\ HistoryType' /\ BudgetType'
  BY SameTypes, Zenon DEF SaveSwap, Ctl, TypeOK
<1>2. DiskType'
  BY NoCopyType, Zenon DEF SaveSwap, Ctl, TypeOK, DiskType
<1>3. (tfile.state # "none") \in BOOLEAN /\ at[t] # "no"
  BY SMT DEF SaveSwap
<1>4. /\ WriterType' /\ DaemonType' /\ WriterInv' /\ DaemonInv'
      /\ at' \in [Thread -> {"no", "copy", "open", "write", "swap"}]
      /\ snap' \in [Thread -> Copy]
      /\ at' = [at EXCEPT ![t] = "no"]
  <2>1. Return(t, tfile.state # "none") /\ UNCHANGED <<wq, goal, hit, last, graves>>
    BY Zenon DEF SaveSwap
  <2> QED
    BY <1>3, <2>1, ReturnFacts
<1>5. on' \in [Thread -> {"tmp", "man", "gone"}]
  BY SMT DEF SaveSwap, Ctl, TypeOK, SavingType
<1>6. on'[t] = "gone" /\ \A u \in Thread : on'[u] # "gone" => on[u] # "gone"
  BY SMT DEF SaveSwap, Ctl, TypeOK, SavingType
<1>7. OpenInv'
  BY <1>4, <1>6, SMT DEF Ctl, OpenInv, TypeOK, SavingType
<1> QED
  BY <1>1, <1>2, <1>4, <1>5, <1>7, Zenon DEF Ctl, TypeOK, SavingType

(* A save that fails.                                                      *)
LEMMA SaveFailCtl == \A t \in Thread : Ctl /\ SaveFail(t) => Ctl'
<1> SUFFICES ASSUME NEW t \in Thread, Ctl, SaveFail(t) PROVE Ctl'
  OBVIOUS
<1> USE DEF memory, files, history, budgets
<1>1. MemoryType' /\ DiskType' /\ HistoryType'
  BY SameTypes, Zenon DEF SaveFail, Ctl, TypeOK
<1>2. BudgetType'
  BY SMT DEF SaveFail, Ctl, TypeOK, BudgetType
<1>3. at[t] # "no"
  BY SMT DEF SaveFail
<1>4. /\ WriterType' /\ DaemonType' /\ WriterInv' /\ DaemonInv'
      /\ at' \in [Thread -> {"no", "copy", "open", "write", "swap"}]
      /\ snap' \in [Thread -> Copy]
      /\ at' = [at EXCEPT ![t] = "no"]
  <2>1. Return(t, FALSE) /\ UNCHANGED <<wq, goal, hit, last, graves>>
    BY Zenon DEF SaveFail
  <2> QED
    BY <1>3, <2>1, ReturnFacts
<1>5. on' = [on EXCEPT ![t] = "gone"]
  BY Zenon DEF SaveFail
<1>6. on' \in [Thread -> {"tmp", "man", "gone"}]
  BY <1>5, SMT DEF Ctl, TypeOK, SavingType
<1>7. OpenInv'
  BY <1>4, <1>5, SMT DEF Ctl, OpenInv, TypeOK, SavingType
<1> QED
  BY <1>1, <1>2, <1>4, <1>6, <1>7, Zenon DEF Ctl, TypeOK, SavingType

(* Every step keeps the types and the control of both threads.             *)
LEMMA NextCtl == Ctl /\ [Next]_vars => Ctl'
<1> SUFFICES ASSUME Ctl, [Next]_vars PROVE Ctl'
  OBVIOUS
<1>1. CASE WriterStep
  BY <1>1, TakeCtl, WriteAgainCtl, RenameCtl, InsertCtl, UndoDirCtl, UndoEntryCtl, EvictOneCtl,
     EvictDirCtl, EvictEndCtl, SaveCopyCtl, SaveOpenCtl, SaveWriteCtl, SaveSwapCtl, Zenon
     DEF WriterStep, SaveStep, Thread
<1>2. CASE DaemonStep
  BY <1>2, RequestCtl, PinCtl, SetProtectCtl, RestoreCtl, QuarantineCtl, QuarantineDirCtl, FreshCtl,
     CaptureCtl, CancelPrefillCtl, TurnEndCtl, LoadCtl, BootIngestCtl, ShutdownCtl, FlushCtl,
     SaveCopyCtl, SaveOpenCtl, SaveWriteCtl, SaveSwapCtl, Zenon
     DEF DaemonStep, SaveStep, Thread
<1>3. CASE Fault
  BY <1>3, RestartCtl, RotCtl, LapseCtl, StageFailCtl, SaveFailCtl, Zenon DEF Fault
<1>4. CASE UNCHANGED vars
  <2>1. UNCHANGED <<memory, writer, daemon, saving, dir, files, history, budgets>>
        /\ UNCHANGED <<wpc, wkey>>
    BY <1>4, Zenon DEF vars, memory, writer, daemon, saving, files, history, budgets
  <2> QED
    BY <2>1, SameTypes, SameCtl, Zenon DEF Ctl, TypeOK
<1> QED
  BY <1>1, <1>2, <1>3, <1>4 DEF Next

(* Every variable keeps its type, in every behaviour of the cache.         *)
THEOREM TypeCorrect == Spec => []TypeOK
<1>1. Ctl => TypeOK
  BY DEF Ctl
<1> QED
  BY <1>1, InitCtl, NextCtl, PTL DEF Spec

----------------------------------------------------------------------------
(* The manifest in memory and the directories.                             *)

NodeInv ==
  /\ wpc = "renamed" => dir[wkey] # "none" \/ wkey \in lost
  /\ wpc = "unlist" => dir[wkey] = "none"
  /\ wpc = "grave" => wkey \notin man

DirInv == EntriesHaveDirs /\ NoOrphanDirs /\ NodeInv

(* Steps that touch neither entries nor directories, nor what the writer   *)
(* and a quarantine hold.                                                  *)
LEMMA DirSame ==
  DirInv /\ UNCHANGED <<man, dir, lost, graves, wpc, wkey>> /\ (dpc = "boot" => dpc' = "boot")
    => DirInv'
BY Zenon DEF DirInv, EntriesHaveDirs, NoOrphanDirs, NodeInv

(* The writer's steps outside its saves.                                   *)
LEMMA DirWriter ==
  ASSUME Ctl, DirInv
  PROVE  Take \/ StageFail \/ WriteAgain \/ Rename \/ Insert \/ UndoDir \/ UndoEntry
         \/ EvictOne \/ EvictDir \/ EvictEnd => DirInv'
<1> USE DEF DirInv, NodeInv, Ctl, TypeOK, DiskType, memory, writer, daemon, files, history
<1>1. ASSUME Take PROVE DirInv'
  <2>1. EntriesHaveDirs'
    BY <1>1, SMT DEF Take, EntriesHaveDirs, MemoryType, WriterInv, DaemonInv
  <2>2. NoOrphanDirs'
    BY <1>1, SMT DEF Take, NoOrphanDirs, MemoryType, WriterInv, DaemonInv
  <2>3. NodeInv'
    BY <1>1, SMT DEF Take, WriterInv
  <2> QED
    BY <2>1, <2>2, <2>3
<1>2. ASSUME StageFail PROVE DirInv'
  <2>1. EntriesHaveDirs'
    BY <1>2, SMT DEF StageFail, EntriesHaveDirs, MemoryType, WriterInv, DaemonInv
  <2>2. NoOrphanDirs'
    BY <1>2, SMT DEF StageFail, NoOrphanDirs, MemoryType, WriterInv, DaemonInv
  <2>3. NodeInv'
    BY <1>2, SMT DEF StageFail, WriterInv
  <2> QED
    BY <2>1, <2>2, <2>3
<1>3. ASSUME WriteAgain PROVE DirInv'
  <2>1. EntriesHaveDirs'
    BY <1>3, SMT DEF WriteAgain, EntriesHaveDirs, MemoryType, WriterInv, DaemonInv
  <2>2. NoOrphanDirs'
    BY <1>3, SMT DEF WriteAgain, NoOrphanDirs, MemoryType, WriterInv, DaemonInv
  <2>3. NodeInv'
    BY <1>3, SMT DEF WriteAgain, WriterInv
  <2> QED
    BY <2>1, <2>2, <2>3
<1>4. ASSUME Rename PROVE DirInv'
  <2>1. EntriesHaveDirs'
    BY <1>4, SMT DEF Rename, EntriesHaveDirs, MemoryType, WriterInv, DaemonInv
  <2>2. NoOrphanDirs'
    BY <1>4, SMT DEF Rename, NoOrphanDirs, MemoryType, WriterInv, DaemonInv
  <2>3. NodeInv'
    BY <1>4, SMT DEF Rename, WriterInv
  <2> QED
    BY <2>1, <2>2, <2>3
<1>5. ASSUME Insert PROVE DirInv'
  <2>1. EntriesHaveDirs'
    BY <1>5, SMT DEF Insert, EntriesHaveDirs, MemoryType, WriterInv, DaemonInv
  <2>2. NoOrphanDirs'
    BY <1>5, SMT DEF Insert, NoOrphanDirs, MemoryType, WriterInv, DaemonInv
  <2>3. NodeInv'
    BY <1>5, SMT DEF Insert, WriterInv
  <2> QED
    BY <2>1, <2>2, <2>3
<1>6. ASSUME UndoDir PROVE DirInv'
  <2>1. EntriesHaveDirs'
    BY <1>6, SMT DEF UndoDir, EntriesHaveDirs, MemoryType, WriterInv, DaemonInv
  <2>2. NoOrphanDirs'
    BY <1>6, SMT DEF UndoDir, NoOrphanDirs, MemoryType, WriterInv, DaemonInv
  <2>3. NodeInv'
    BY <1>6, SMT DEF UndoDir, WriterInv
  <2> QED
    BY <2>1, <2>2, <2>3
<1>7. ASSUME UndoEntry PROVE DirInv'
  <2>1. EntriesHaveDirs'
    BY <1>7, SMT DEF UndoEntry, EntriesHaveDirs, MemoryType, WriterInv, DaemonInv
  <2>2. NoOrphanDirs'
    BY <1>7, SMT DEF UndoEntry, NoOrphanDirs, MemoryType, WriterInv, DaemonInv
  <2>3. NodeInv'
    BY <1>7, SMT DEF UndoEntry, WriterInv
  <2> QED
    BY <2>1, <2>2, <2>3
<1>8. ASSUME EvictOne PROVE DirInv'
  <2>1. EntriesHaveDirs'
    BY <1>8, SMT DEF EvictOne, EntriesHaveDirs, MemoryType, WriterInv, DaemonInv
  <2>2. NoOrphanDirs'
    BY <1>8, SMT DEF EvictOne, NoOrphanDirs, MemoryType, WriterInv, DaemonInv
  <2>3. NodeInv'
    BY <1>8, SMT DEF EvictOne, WriterInv
  <2> QED
    BY <2>1, <2>2, <2>3
<1>9. ASSUME EvictDir PROVE DirInv'
  <2>1. EntriesHaveDirs'
    BY <1>9, SMT DEF EvictDir, EntriesHaveDirs, MemoryType, WriterInv, DaemonInv
  <2>2. NoOrphanDirs'
    BY <1>9, SMT DEF EvictDir, NoOrphanDirs, MemoryType, WriterInv, DaemonInv
  <2>3. NodeInv'
    BY <1>9, SMT DEF EvictDir, WriterInv
  <2> QED
    BY <2>1, <2>2, <2>3
<1>10. ASSUME EvictEnd PROVE DirInv'
  <2>1. EntriesHaveDirs'
    BY <1>10, SMT DEF EvictEnd, EntriesHaveDirs, MemoryType, WriterInv, DaemonInv
  <2>2. NoOrphanDirs'
    BY <1>10, SMT DEF EvictEnd, NoOrphanDirs, MemoryType, WriterInv, DaemonInv
  <2>3. NodeInv'
    BY <1>10, SMT DEF EvictEnd, WriterInv
  <2> QED
    BY <2>1, <2>2, <2>3
<1> QED
  BY <1>1, <1>2, <1>3, <1>4, <1>5, <1>6, <1>7, <1>8, <1>9, <1>10, Zenon

(* Its saves and the daemon's.                                             *)
LEMMA DirSaves ==
  ASSUME Ctl, DirInv, NEW t \in Thread
  PROVE  SaveStep(t) \/ SaveFail(t) => DirInv'
<1> USE DEF memory, writer, daemon, files, history
<1>1. ASSUME SaveCopy(t) \/ SaveOpen(t) \/ SaveWrite(t) PROVE DirInv'
  BY <1>1, DirSame, Zenon DEF SaveCopy, SaveOpen, SaveWrite
<1>2. ASSUME SaveSwap(t) \/ SaveFail(t) PROVE DirInv'
  <2>0. at[t] # "no"
    BY <1>2, Zenon DEF SaveSwap, SaveFail
  <2>1. UNCHANGED <<man, dir, lost, graves>>
    BY <1>2, Zenon DEF SaveSwap, SaveFail
  <2>2. PICK ok \in BOOLEAN : Return(t, ok)
    BY <1>2, Zenon DEF SaveSwap, SaveFail
  <2>3. CASE t = "writer"
    <3>1. /\ dpc' = dpc /\ wpc \notin {"renamed", "unlist", "grave"}
          /\ wpc' \notin {"renamed", "unlist", "grave"}
      BY <2>0, <2>2, <2>3, ReturnStands, SMT
    <3> QED
      BY <2>1, <3>1, SMT DEF DirInv, EntriesHaveDirs, NoOrphanDirs, NodeInv
  <2>4. CASE t = "daemon"
    <3>1. wpc' = wpc /\ wkey' = wkey /\ dpc # "boot"
      BY <2>0, <2>2, <2>4, ReturnStands, SMT
    <3> QED
      BY <2>1, <3>1, DirSame, Zenon
  <2> QED
    BY <2>3, <2>4 DEF Thread
<1> QED
  BY <1>1, <1>2, Zenon DEF SaveStep

(* The daemon's steps outside its saves.                                   *)
LEMMA DirDaemon ==
  ASSUME Ctl, DirInv
  PROVE  Request \/ Pin \/ SetProtect \/ Restore \/ Quarantine \/ QuarantineDir \/ Fresh
         \/ Capture \/ CancelPrefill \/ TurnEnd \/ Load \/ BootIngest \/ Shutdown \/ Flush => DirInv'
<1> USE DEF memory, writer, daemon, files, history
<1>1. ASSUME Request \/ Pin \/ SetProtect \/ Restore \/ Fresh \/ Capture \/ CancelPrefill
             \/ TurnEnd \/ BootIngest \/ Shutdown \/ Flush
      PROVE  DirInv'
  <2>1. dpc # "boot"
    BY <1>1, SMT DEF Request, Pin, SetProtect, Restore, Fresh, Capture, CancelPrefill, TurnEnd,
       BootIngest, Shutdown, Flush
  <2>2. UNCHANGED <<man, dir, lost, graves, wpc, wkey>>
    BY <1>1, Zenon DEF Request, Pin, SetProtect, Restore, Fresh, Capture, CancelPrefill, TurnEnd,
       BootIngest, Shutdown, Flush
  <2> QED
    BY <2>1, <2>2, DirSame
<1>2. ASSUME Quarantine PROVE DirInv'
  <2>1. EntriesHaveDirs'
    BY <1>2, SMT DEF Quarantine, DirInv, EntriesHaveDirs
  <2>2. NoOrphanDirs'
    BY <1>2, SMT DEF Quarantine, DirInv, NoOrphanDirs, Ctl, DaemonInv
  <2>3. NodeInv'
    BY <1>2, SMT DEF Quarantine, DirInv, NodeInv
  <2> QED
    BY <2>1, <2>2, <2>3 DEF DirInv
<1>3. ASSUME QuarantineDir PROVE DirInv'
  <2>1. PICK b \in graves : /\ dir' = [dir EXCEPT ![b] = "none"]
                            /\ graves' = graves \ {b}
                            /\ lost' = lost \cup ({b} \cap Listed)
    BY <1>3, Zenon DEF QuarantineDir
  <2>2. /\ b \in Key /\ dir'[b] = "none" /\ \A k \in Key \ {b} : dir'[k] = dir[k]

    BY <2>1, SMT DEF Ctl, TypeOK, DaemonType, DiskType
  <2>3. /\ UNCHANGED <<man, wpc, wkey>> /\ dpc = "grave" /\ dpc' # "boot"
        /\ lost \subseteq lost' /\ (b \in man => b \in lost') /\ (wpc = "renamed" /\ b = wkey => b \in lost')
    BY <1>3, <2>1, SMT DEF QuarantineDir, Listed
  <2>4. man \subseteq Key /\ (wpc \in {"renamed", "unlist"} => wkey \in Key)
    BY SMT DEF Ctl, TypeOK, MemoryType, WriterInv
  <2>5. EntriesHaveDirs'
    <3>1. \A k \in man : dir[k] # "none" \/ k \in lost \/ (wpc = "unlist" /\ k = wkey)
      BY <2>3, SMT DEF DirInv, EntriesHaveDirs
    <3>2. \A k \in man : dir'[k] # "none" \/ k \in lost' \/ (wpc = "unlist" /\ k = wkey)
      BY <2>2, <2>3, <2>4, <3>1, SMT
    <3> QED
      BY <2>3, <3>2, Zenon DEF EntriesHaveDirs
  <2>6. NoOrphanDirs'
    BY <2>1, <2>2, <2>3, SMT DEF DirInv, NoOrphanDirs
  <2>7. NodeInv'
    BY <2>2, <2>3, <2>4, SMT DEF DirInv, NodeInv
  <2> QED
    BY <2>5, <2>6, <2>7 DEF DirInv
<1>4. ASSUME Load PROVE DirInv'
  <2>1. wpc = "idle" /\ wpc' = "idle"
    BY <1>4, SMT DEF Load, Ctl, DaemonInv
  <2>2. man' = Kept /\ dir' = [k \in Key |-> IF k \in Kept THEN dir[k] ELSE "none"]
    BY <1>4, Zenon DEF Load
  <2>3. \A k \in Key : (k \in man' => dir'[k] # "none") /\ (k \notin man' => dir'[k] = "none")
    BY <2>2, SMT DEF Kept
  <2>4. man' \subseteq Key
    BY <1>4, LoadCtl DEF Ctl, TypeOK, MemoryType
  <2> QED
    BY <2>1, <2>3, <2>4, SMT DEF DirInv, EntriesHaveDirs, NoOrphanDirs, NodeInv
<1> QED
  BY <1>1, <1>2, <1>3, <1>4, Zenon

(* The end of the process, damage and lapsed pins.                         *)
LEMMA DirFault ==
  ASSUME Ctl, DirInv
  PROVE  Restart \/ Rot \/ Lapse => DirInv'
<1> USE DEF memory, writer, daemon, files, history
<1>1. ASSUME Restart PROVE DirInv'
  BY <1>1, SMT DEF Restart, DirInv, EntriesHaveDirs, NoOrphanDirs, NodeInv
<1>2. ASSUME Rot PROVE DirInv'
  <2>1. PICK b \in OnDisk : dir' = [dir EXCEPT ![b] = "rotten"]
    BY <1>2, Zenon DEF Rot
  <2>2. \A k : k \in Key => (dir'[k] = "none" <=> dir[k] = "none")
    BY <2>1, SMT DEF Ctl, TypeOK, DiskType, OnDisk
  <2>3. UNCHANGED <<man, lost, graves, wpc, wkey, dpc>>
    BY <1>2, Zenon DEF Rot
  <2>4. man \subseteq Key /\ (wpc \in {"renamed", "unlist"} => wkey \in Key)
    BY SMT DEF Ctl, TypeOK, MemoryType, WriterInv
  <2> QED
    BY <2>2, <2>3, <2>4, SMT DEF DirInv, EntriesHaveDirs, NoOrphanDirs, NodeInv
<1>3. ASSUME Lapse PROVE DirInv'
  BY <1>3, DirSame, Zenon DEF Lapse
<1> QED
  BY <1>1, <1>2, <1>3, Zenon

(* Entries and directories agree in every reachable state.                 *)
LEMMA DirCorrect == Spec => [](EntriesHaveDirs /\ NoOrphanDirs)
<1>1. Init => DirInv
  BY SMT DEF Init, DirInv, EntriesHaveDirs, NoOrphanDirs, NodeInv
<1>2. Ctl /\ DirInv /\ [Next]_vars => DirInv'
  <2> SUFFICES ASSUME Ctl, DirInv, [Next]_vars PROVE DirInv'
    OBVIOUS
  <2>1. CASE UNCHANGED vars
    BY <2>1, DirSame, Zenon DEF vars
  <2>2. CASE Next
    BY <2>2, DirWriter, DirSaves, DirDaemon, DirFault, Zenon
       DEF Next, WriterStep, DaemonStep, Fault, Thread
  <2> QED
    BY <2>1, <2>2
<1>3. DirInv => EntriesHaveDirs /\ NoOrphanDirs
  BY DEF DirInv
<1> QED
  BY <1>1, <1>2, <1>3, InitCtl, NextCtl, PTL DEF Spec

(* While the process runs, what the manifest lists is on disk.             *)
THEOREM EntriesOnDisk == Spec => []EntriesHaveDirs
BY DirCorrect, PTL

(* While the process runs, what is on disk is listed.                      *)
THEOREM NothingOrphaned == Spec => []NoOrphanDirs
BY DirCorrect, PTL

----------------------------------------------------------------------------
(* The manifest on disk, while no two saves overlap.                       *)

InSave == {"open", "write", "swap"}

FileInv ==
  ~overlap =>
    /\ \A t \in Thread : at[t] \in InSave => at[Other(t)] \notin InSave
    /\ \A t \in Thread : on[t] # "man"
    /\ \A t \in Thread : at[t] = "write" => on[t] = "tmp" /\ tfile.state = "empty"
    /\ \A t \in Thread : at[t] = "swap" => on[t] = "tmp" /\ tfile = Full(snap[t])
    /\ mfile.state \in {"none", "full"}

(* A step that only begins saves or ends them.                             *)
LEMMA FileSame ==
  ASSUME FileInv, UNCHANGED <<overlap, files>>,
         \A t \in Thread : /\ at'[t] \in InSave => at'[t] = at[t] /\ on'[t] = on[t]
                           /\ at'[t] = "swap" => snap'[t] = snap[t]
                           /\ on'[t] # "man" \/ on'[t] = on[t]
  PROVE  FileInv'
<1>1. UNCHANGED <<overlap, mfile, tfile>>
  BY DEF files
<1>2. \A t \in Thread : Other(t) \in Thread
  BY SMT DEF Thread, Other
<1> SUFFICES ASSUME ~overlap' PROVE FileInv'
  BY DEF FileInv
<1>a. ~overlap
  BY <1>1
<1>3. /\ \A t \in Thread : at[t] \in InSave => at[Other(t)] \notin InSave
      /\ \A t \in Thread : on[t] # "man"
      /\ \A t \in Thread : at[t] = "write" => on[t] = "tmp" /\ tfile.state = "empty"
      /\ \A t \in Thread : at[t] = "swap" => on[t] = "tmp" /\ tfile = Full(snap[t])
      /\ mfile.state \in {"none", "full"}
  BY <1>a, Zenon DEF FileInv
<1>4. \A t \in Thread : at'[t] \in InSave => at'[Other(t)] \notin InSave
  <2> SUFFICES ASSUME NEW t \in Thread, at'[t] \in InSave, at'[Other(t)] \in InSave PROVE FALSE
    OBVIOUS
  <2>1. at'[t] = at[t] /\ at'[Other(t)] = at[Other(t)]
    BY <1>2, Zenon
  <2> QED
    BY <1>3, <2>1, Zenon
<1>5. \A t \in Thread : on'[t] # "man"
  BY <1>3, Zenon
<1>6. \A t \in Thread : /\ at'[t] = "write" => on'[t] = "tmp" /\ tfile'.state = "empty"
                        /\ at'[t] = "swap" => on'[t] = "tmp" /\ tfile' = Full(snap'[t])
  BY <1>1, <1>3, SMT DEF InSave
<1> QED
  BY <1>1, <1>3, <1>4, <1>5, <1>6, Zenon DEF FileInv

(* The steps of a save.                                                    *)
LEMMA FileSaves ==
  ASSUME Ctl, FileInv, NEW t \in Thread
  PROVE  SaveStep(t) \/ SaveFail(t) => FileInv'
<1>1. Other(t) \in Thread /\ Other(t) # t /\ Thread = {t, Other(t)} /\ Other(Other(t)) = t
  BY SMT DEF Thread, Other
<1>2. /\ at \in [Thread -> {"no", "copy", "open", "write", "swap"}]
      /\ on \in [Thread -> {"tmp", "man", "gone"}] /\ snap \in [Thread -> Copy]
  BY DEF Ctl, TypeOK, SavingType
<1>3. ASSUME SaveCopy(t), ~overlap' PROVE FileInv'
  <2>1. ~overlap /\ at[Other(t)] \in {"no", "copy"}
    BY <1>3, Zenon DEF SaveCopy
  <2>2. /\ at' = [at EXCEPT ![t] = "open"] /\ snap' = [snap EXCEPT ![t] = [ent |-> man, pin |-> pins, mixed |-> FALSE]]
        /\ UNCHANGED <<on, mfile, tfile>>
    BY <1>3, Zenon DEF SaveCopy, files
  <2>3. at'[t] = "open" /\ at'[Other(t)] \in {"no", "copy"}
    BY <1>1, <1>2, <2>1, <2>2, SMT
  <2> QED
    BY <1>1, <2>1, <2>2, <2>3, SMT DEF FileInv, InSave
<1>4. ASSUME SaveOpen(t), ~overlap' PROVE FileInv'
  <2>1. /\ ~overlap /\ at[t] = "open" /\ at' = [at EXCEPT ![t] = "write"]
        /\ on' = [on EXCEPT ![t] = "tmp"] /\ tfile' = AFile("empty") /\ UNCHANGED <<mfile, snap>>
    BY <1>4, Zenon DEF SaveOpen, history
  <2>2. /\ at'[t] = "write" /\ on'[t] = "tmp"
        /\ at'[Other(t)] = at[Other(t)] /\ on'[Other(t)] = on[Other(t)]
    BY <1>1, <1>2, <2>1, SMT
  <2>3. at[Other(t)] \notin InSave /\ on[Other(t)] # "man" /\ mfile.state \in {"none", "full"}
    BY <1>1, <2>1, SMT DEF FileInv, InSave
  <2>4. tfile'.state = "empty"
    BY <2>1 DEF AFile
  <2> QED
    BY <1>1, <2>1, <2>2, <2>3, <2>4, SMT DEF FileInv, InSave
<1>5. ASSUME SaveWrite(t), ~overlap' PROVE FileInv'
  <2>1. /\ ~overlap /\ at[t] = "write" /\ at' = [at EXCEPT ![t] = "swap"] /\ UNCHANGED <<on, snap>>
    BY <1>5, Zenon DEF SaveWrite, history
  <2>2. on[t] = "tmp" /\ tfile.state = "empty"
    BY <2>1, Zenon DEF FileInv
  <2>3. tfile' = Full(snap[t]) /\ mfile' = mfile
    BY <1>5, <2>2, SMT DEF SaveWrite, Written
  <2>4. at'[t] = "swap" /\ at'[Other(t)] = at[Other(t)]
    BY <1>1, <1>2, <2>1, SMT
  <2>5. at[Other(t)] \notin InSave /\ on[Other(t)] # "man" /\ mfile.state \in {"none", "full"}
    BY <1>1, <2>1, SMT DEF FileInv, InSave
  <2> QED
    BY <1>1, <2>1, <2>2, <2>3, <2>4, <2>5, SMT DEF FileInv, InSave
<1>6. ASSUME SaveSwap(t), ~overlap' PROVE FileInv'
  <2>1. /\ ~overlap /\ at[t] = "swap" /\ at' = [at EXCEPT ![t] = "no"]
        /\ snap' = [snap EXCEPT ![t] = NoCopy]
    BY <1>6, Zenon DEF SaveSwap, Return, history
  <2>2. /\ on[t] = "tmp" /\ tfile = Full(snap[t])
        /\ at[Other(t)] \notin InSave /\ on[Other(t)] # "man"
    BY <1>1, <2>1, SMT DEF FileInv, InSave
  <2>3. tfile.state = "full"
    BY <2>2 DEF Full
  <2>4. /\ mfile' = tfile
        /\ on' = [u \in Thread |-> IF u # t /\ on[u] = "tmp" THEN "man" ELSE "gone"]
    BY <1>6, <2>3, SMT DEF SaveSwap
  <2>5. on[Other(t)] # "tmp"
    BY <1>1, <2>2, SMT DEF Ctl, OpenInv, InSave
  <2>6. \A u \in Thread : on'[u] = "gone"
    BY <1>1, <2>4, <2>5, SMT
  <2>7. \A u \in Thread : at'[u] \notin InSave
    BY <1>1, <1>2, <2>1, <2>2, SMT DEF InSave
  <2> QED
    BY <2>3, <2>4, <2>6, <2>7, SMT DEF FileInv, InSave
<1>7. ASSUME SaveFail(t) PROVE FileInv'
  <2>1. /\ at' = [at EXCEPT ![t] = "no"] /\ snap' = [snap EXCEPT ![t] = NoCopy]
        /\ on' = [on EXCEPT ![t] = "gone"] /\ UNCHANGED <<overlap, files>>
    BY <1>7, Zenon DEF SaveFail, Return, history
  <2>2. /\ at'[t] = "no" /\ on'[t] = "gone"
        /\ \A u \in Thread \ {t} : at'[u] = at[u] /\ on'[u] = on[u] /\ snap'[u] = snap[u]
    BY <1>2, <2>1, SMT
  <2>3. \A u \in Thread : /\ at'[u] \in InSave => at'[u] = at[u] /\ on'[u] = on[u]
                          /\ at'[u] = "swap" => snap'[u] = snap[u]
                          /\ on'[u] # "man" \/ on'[u] = on[u]
    BY <2>2, SMT DEF InSave
  <2> QED
    BY <2>1, <2>3, FileSame
<1> QED
  BY <1>3, <1>4, <1>5, <1>6, <1>7, Zenon DEF SaveStep, FileInv

(* The steps that begin a save.                                            *)
LEMMA StartSaveFacts ==
  ASSUME Ctl, NEW t \in Thread, StartSave(t)
  PROVE  \A u \in Thread : at'[u] = at[u] \/ at'[u] = "copy"
BY SMT DEF StartSave, Ctl, TypeOK, SavingType

(* All other steps leave the files to the saves.                           *)
LEMMA FileOthers ==
  ASSUME Ctl, FileInv, [Next]_vars,
         ~\E t \in Thread : SaveStep(t) \/ SaveFail(t)
  PROVE  FileInv'
<1> USE DEF memory, writer, daemon, saving, files, history
<1>1. ASSUME Restart PROVE FileInv'
  <2>1. \A t \in Thread : at'[t] = "no" /\ on'[t] = "gone"
    BY <1>1, Zenon DEF Restart
  <2>2. UNCHANGED <<overlap, mfile>>
    BY <1>1, Zenon DEF Restart
  <2> QED
    BY <2>1, <2>2, SMT DEF FileInv, InSave
<1>2. ASSUME UNCHANGED <<overlap, files, on>>,
             \A t \in Thread : at'[t] = at[t] \/ at'[t] = "copy",
             snap' = snap \/ \A t \in Thread : at[t] = "swap" => snap'[t] = snap[t]
      PROVE  FileInv'
  <2>1. \A t \in Thread : /\ at'[t] \in InSave => at'[t] = at[t] /\ on'[t] = on[t]
                          /\ at'[t] = "swap" => snap'[t] = snap[t]
                          /\ on'[t] # "man" \/ on'[t] = on[t]
    BY <1>2, SMT DEF InSave
  <2> QED
    BY <1>2, <2>1, FileSame
<1>3. ASSUME WriteAgain \/ Insert \/ EvictDir PROVE FileInv'
  <2>1. StartSave("writer") /\ UNCHANGED <<overlap, files, snap, on>>
    BY <1>3, Zenon DEF WriteAgain, Insert, EvictDir
  <2> QED
    BY <1>2, <2>1, StartSaveFacts DEF Thread
<1>4. ASSUME Pin \/ QuarantineDir \/ Load \/ Flush PROVE FileInv'
  <2>1. at' = at \/ StartSave("daemon")
    BY <1>4, Zenon DEF Pin, QuarantineDir, Load, Flush
  <2>2. UNCHANGED <<overlap, files, on>>
    BY <1>4, Zenon DEF Pin, QuarantineDir, Load, Flush
  <2>3. snap' = snap \/ \A t \in Thread : at[t] = "swap" => snap'[t] = snap[t]
    BY <1>4, PinCopies, Zenon DEF QuarantineDir, Load, Flush
  <2>4. \A t \in Thread : at'[t] = at[t] \/ at'[t] = "copy"
    BY <2>1, StartSaveFacts DEF Thread
  <2> QED
    BY <1>2, <2>2, <2>3, <2>4
<1>5. ASSUME Take \/ StageFail \/ Rename \/ UndoDir \/ UndoEntry \/ EvictOne \/ EvictEnd
      PROVE  FileInv'
  <2>1. UNCHANGED <<overlap, files, snap, on, at>>
    BY <1>5, Zenon DEF Take, StageFail, Rename, UndoDir, UndoEntry, EvictOne, EvictEnd
  <2> QED
    BY <1>2, <2>1
<1>6. ASSUME Request \/ SetProtect \/ Restore \/ Quarantine \/ Fresh \/ Capture \/ CancelPrefill
             \/ TurnEnd \/ BootIngest \/ Shutdown \/ Rot \/ Lapse
      PROVE  FileInv'
  <2>1. UNCHANGED <<overlap, files, snap, on, at>>
    BY <1>6, Zenon DEF Request, SetProtect, Restore, Quarantine, Fresh, Capture, CancelPrefill,
       TurnEnd, BootIngest, Shutdown, Rot, Lapse
  <2> QED
    BY <1>2, <2>1
<1>7. CASE UNCHANGED vars
  <2>1. UNCHANGED <<overlap, files, snap, on, at>>
    BY <1>7, Zenon DEF vars
  <2> QED
    BY <1>2, <2>1
<1> QED
  BY <1>1, <1>3, <1>4, <1>5, <1>6, <1>7, Zenon DEF Next, WriterStep, DaemonStep, Fault, Thread

(* Files and saves agree at first.                                         *)
LEMMA InitFile == Init => FileInv
<1> SUFFICES ASSUME Init PROVE FileInv
  OBVIOUS
<1>1. mfile.state \in {"none", "full"}
  BY SMT DEF Init, AFile, Full
<1>2. \A t \in Thread : at[t] = "no" /\ on[t] = "gone"
  BY SMT DEF Init
<1> QED
  BY <1>1, <1>2, SMT DEF FileInv, InSave

(* Every step keeps them so.                                               *)
LEMMA NextFile == Ctl /\ FileInv /\ [Next]_vars => FileInv'
BY FileSaves, FileOthers, Zenon

(* Whenever the process dies, the manifest it leaves is a whole one, or    *)
(* none, unless two saves overlapped.                                      *)
THEOREM ManifestAlwaysWhole == Spec => []ManifestWhole
<1>1. FileInv => ManifestWhole
  BY Zenon DEF FileInv, ManifestWhole
<1> QED
  BY <1>1, InitFile, NextFile, InitCtl, NextCtl, PTL DEF Spec

----------------------------------------------------------------------------
(* What a crash would lose, while saves neither overlap nor fail.          *)

InHand(k) == wpc = "save" /\ k = wkey

StoredInv ==
  ~overlap /\ fails = 0 =>
    /\ wpc \notin {"undo", "unlist"}
    /\ dpc # "boot" =>
         /\ \A k \in man : InHand(k) \/ (mfile.state = "full" /\ k \in mfile.copy.ent)
         /\ at["writer"] \in InSave => man \subseteq snap["writer"].ent
         /\ at["daemon"] \in InSave =>
              \A k \in man : k \in snap["daemon"].ent \/ (InHand(k) /\ at["writer"] = "copy")

(* A step that adds no entry, takes no node out of the writer's hand and   *)
(* writes no file.                                                         *)
LEMMA StoredSame ==
  ASSUME StoredInv, UNCHANGED <<mfile, overlap>>, man' \subseteq man,
         \A t \in Thread : snap'[t].ent = snap[t].ent,
         fails' = 0 => fails = 0, dpc' # "boot" => dpc # "boot",
         wpc' \in {"undo", "unlist"} => wpc \in {"undo", "unlist"},
         wpc = "save" => UNCHANGED <<wpc, wkey>> /\ at'["writer"] = at["writer"],
         \A t \in Thread : at'[t] \in InSave => at'[t] = at[t]
  PROVE  StoredInv'
<1>1. CASE overlap' \/ fails' # 0
  BY <1>1, Zenon DEF StoredInv
<1>2. CASE ~overlap' /\ fails' = 0
  <2>1. ~overlap /\ fails = 0 /\ wpc' \notin {"undo", "unlist"}
    BY <1>2, Zenon DEF StoredInv
  <2>2. CASE dpc' = "boot"
    BY <2>1, <2>2, Zenon DEF StoredInv
  <2>3. CASE dpc' # "boot"
    <3>1. /\ \A k \in man : InHand(k) \/ (mfile.state = "full" /\ k \in mfile.copy.ent)
          /\ at["writer"] \in InSave => man \subseteq snap["writer"].ent
          /\ at["daemon"] \in InSave =>
               \A k \in man : k \in snap["daemon"].ent \/ (InHand(k) /\ at["writer"] = "copy")
      BY <2>1, <2>3, Zenon DEF StoredInv
    <3>2. \A k : InHand(k) => InHand(k)' /\ at'["writer"] = at["writer"]
      BY Zenon DEF InHand
    <3>3. \A k \in man' : InHand(k)' \/ (mfile'.state = "full" /\ k \in mfile'.copy.ent)
      BY <3>1, <3>2, Zenon
    <3>4. at'["writer"] \in InSave => man' \subseteq snap'["writer"].ent
      BY <3>1, Zenon DEF Thread
    <3>5. at'["daemon"] \in InSave =>
            \A k \in man' : k \in snap'["daemon"].ent \/ (InHand(k)' /\ at'["writer"] = "copy")
      BY <3>1, <3>2, Zenon DEF Thread
    <3> QED
      BY <2>1, <3>3, <3>4, <3>5, Zenon DEF StoredInv
  <2> QED
    BY <2>2, <2>3
<1> QED
  BY <1>1, <1>2

(* A new entry is in the writer's hand.                                    *)
LEMMA StoredInsert == Ctl /\ StoredInv /\ Insert => StoredInv'
<1> SUFFICES ASSUME Ctl, StoredInv, Insert PROVE StoredInv'
  OBVIOUS
<1>1. /\ wpc = "renamed" /\ man' = man \cup {wkey} /\ wpc' = "save" /\ wkey' = wkey
      /\ StartSave("writer") /\ UNCHANGED <<mfile, overlap, snap, dpc, fails>>
  BY Zenon DEF Insert, daemon, files, history, budgets
<1>2. at'["writer"] = "copy" /\ at'["daemon"] = at["daemon"]
  BY <1>1, SMT DEF StartSave, Ctl, TypeOK, SavingType, Thread
<1> QED
  BY <1>1, <1>2, SMT DEF StoredInv, InHand, InSave

(* The steps of a save.                                                    *)
LEMMA StoredSaves ==
  ASSUME Ctl, FileInv, StoredInv, NEW t \in Thread
  PROVE  SaveStep(t) \/ SaveFail(t) => StoredInv'
<1>1. Other(t) \in Thread /\ Other(t) # t /\ Thread = {t, Other(t)} /\ Other(Other(t)) = t
  BY SMT DEF Thread, Other
<1>2. /\ at \in [Thread -> {"no", "copy", "open", "write", "swap"}]
      /\ snap \in [Thread -> Copy] /\ fails \in Nat
  BY DEF Ctl, TypeOK, SavingType, BudgetType
<1>3. ASSUME SaveCopy(t), ~overlap', fails' = 0 PROVE StoredInv'
  <2>1. /\ ~overlap /\ fails = 0 /\ at[t] = "copy" /\ at[Other(t)] \in {"no", "copy"}
        /\ at' = [at EXCEPT ![t] = "open"]
        /\ snap' = [snap EXCEPT ![t] = [ent |-> man, pin |-> pins, mixed |-> FALSE]]
        /\ UNCHANGED <<man, wpc, wkey, dpc, mfile>>
    BY <1>3, Zenon DEF SaveCopy, memory, writer, daemon, files, budgets
  <2>2. snap'[t].ent = man /\ at'[Other(t)] \in {"no", "copy"}
    BY <1>1, <1>2, <2>1, SMT
  <2>3. at'[Other(t)] \notin InSave
    BY <2>2 DEF InSave
  <2>4. \A u \in Thread : at'[u] \in InSave => man \subseteq snap'[u].ent
    BY <1>1, <2>2, <2>3, Zenon
  <2> QED
    BY <2>1, <2>4, SMT DEF StoredInv, InHand, Thread
<1>4. ASSUME SaveOpen(t) \/ SaveWrite(t), ~overlap', fails' = 0 PROVE StoredInv'
  <2>b. UNCHANGED <<man, snap, wpc, wkey, dpc, overlap, fails>>
    BY <1>4, Zenon DEF SaveOpen, SaveWrite, memory, writer, daemon, history, budgets
  <2>c. at[t] = "open" \/ at[t] = "write"
    BY <1>4, Zenon DEF SaveOpen, SaveWrite
  <2>1. ~overlap /\ fails = 0
    BY <1>4, <2>b
  <2>a. at[t] \in InSave
    BY <2>c DEF InSave
  <2>2. mfile' = mfile
    BY <1>4, <2>1, Zenon DEF SaveOpen, SaveWrite, FileInv, files
  <2>3. at'[Other(t)] = at[Other(t)] /\ at[Other(t)] \notin InSave
    BY <1>1, <1>2, <1>4, <2>1, <2>a, SMT DEF SaveOpen, SaveWrite, FileInv
  <2>4. \A u \in Thread : at'[u] \in InSave => at[u] \in InSave
    BY <1>1, <2>a, <2>3, Zenon
  <2>5. CASE t = "writer"
    <3>1. at'["daemon"] \notin InSave
      BY <1>1, <2>3, <2>5, SMT DEF Thread
    <3> QED
      BY <2>1, <2>b, <2>2, <2>4, <3>1, SMT DEF StoredInv, InHand, Thread
  <2>6. CASE t = "daemon"
    <3>1. at'["writer"] = at["writer"] /\ at["writer"] \notin InSave
      BY <1>1, <2>3, <2>6, SMT DEF Thread
    <3> QED
      BY <2>1, <2>b, <2>2, <2>4, <3>1, SMT DEF StoredInv, InHand, Thread
  <2> QED
    BY <2>5, <2>6 DEF Thread
<1>5. ASSUME SaveSwap(t), ~overlap', fails' = 0 PROVE StoredInv'
  <2>1. /\ ~overlap /\ fails = 0 /\ at[t] = "swap" /\ at' = [at EXCEPT ![t] = "no"]
        /\ man' = man
    BY <1>5, Zenon DEF SaveSwap, Return, memory, history, budgets
  <2>2. tfile = Full(snap[t]) /\ at[Other(t)] \notin InSave
    BY <1>1, <2>1, SMT DEF FileInv, InSave
  <2>3. tfile.state = "full" /\ tfile.copy = snap[t]
    BY <2>2 DEF Full
  <2>4. mfile' = tfile /\ Return(t, TRUE)
    BY <1>5, <2>3, Zenon DEF SaveSwap
  <2>5. at[t] # "no" /\ TRUE \in BOOLEAN
    BY <2>1
  <2>6. \A u \in Thread : at'[u] \notin InSave
    BY <1>1, <1>2, <2>1, <2>2, SMT DEF InSave
  <2>7. CASE t = "writer"
    <3>1. wpc' \notin {"undo", "unlist"} /\ dpc' = dpc
      BY <2>4, <2>5, <2>7, ReturnStands, Zenon
    <3>2. dpc # "boot" => man \subseteq snap[t].ent
      BY <2>1, <2>7, Zenon DEF StoredInv, InSave
    <3> QED
      BY <2>1, <2>3, <2>4, <2>6, <3>1, <3>2, SMT DEF StoredInv, InHand, Thread
  <2>8. CASE t = "daemon"
    <3>1. wpc' = wpc /\ wkey' = wkey /\ (dpc' # "boot" => dpc # "boot")
      BY <2>4, <2>5, <2>8, ReturnStands, Zenon
    <3>2. dpc # "boot" => \A k \in man : k \in snap[t].ent \/ InHand(k)
      BY <2>1, <2>8, Zenon DEF StoredInv, InSave
    <3> QED
      BY <2>1, <2>3, <2>4, <2>6, <3>1, <3>2, SMT DEF StoredInv, InHand, Thread
  <2> QED
    BY <2>7, <2>8 DEF Thread
<1>6. ASSUME SaveFail(t) PROVE StoredInv'
  BY <1>2, <1>6, SMT DEF SaveFail, StoredInv
<1> QED
  BY <1>3, <1>4, <1>5, <1>6, Zenon DEF SaveStep, StoredInv

(* The manifest that is loaded lists what the process then has.            *)
LEMMA StoredLoad == Ctl /\ StoredInv /\ Load => StoredInv'
<1> SUFFICES ASSUME Ctl, StoredInv, Load PROVE StoredInv'
  OBVIOUS
<1>1. /\ man' = Kept /\ UNCHANGED <<mfile, overlap, fails, wpc>> /\ dpc = "boot"
      /\ at' = at \/ StartSave("daemon")
  BY Zenon DEF Load, writer, files, history, budgets
<1>2. wpc = "idle" /\ at["writer"] = "no" /\ at["daemon"] = "no"
  BY <1>1, SMT DEF Ctl, WriterInv, DaemonInv, TypeOK, SavingType
<1>3. at'["writer"] \notin InSave /\ at'["daemon"] \notin InSave
  BY <1>1, <1>2, StartSaveFacts, SMT DEF InSave, Thread
<1>4. \A k \in man' : mfile.state = "full" /\ k \in mfile.copy.ent
  BY <1>1, SMT DEF Kept, Loaded, NoCopy
<1> QED
  BY <1>1, <1>2, <1>3, <1>4, SMT DEF StoredInv

(* All other steps.                                                        *)
LEMMA StoredOthers ==
  ASSUME Ctl, StoredInv, [Next]_vars, ~Insert, ~Load,
         ~\E t \in Thread : SaveStep(t) \/ SaveFail(t)
  PROVE  StoredInv'
<1> USE DEF memory, writer, daemon, saving, files, history, budgets
<1>1. ASSUME Restart PROVE StoredInv'
  BY <1>1, Zenon DEF Restart, StoredInv
<1>2. fails \in Nat
  BY DEF Ctl, TypeOK, BudgetType
<1>3. ASSUME WriteAgain \/ EvictDir PROVE StoredInv'
  <2>1. /\ StartSave("writer") /\ UNCHANGED <<mfile, overlap, snap, man, fails, dpc>>
        /\ wpc' \notin {"undo", "unlist"} /\ wpc # "save"
    BY <1>3, SMT DEF WriteAgain, EvictDir
  <2> QED
    BY <2>1, StartSaveFacts, StoredSame, SMT DEF Thread, InSave
<1>4. ASSUME Pin \/ QuarantineDir \/ Flush PROVE StoredInv'
  <2>1. at' = at \/ StartSave("daemon")
    BY <1>4, Zenon DEF Pin, QuarantineDir, Flush
  <2>2. UNCHANGED <<mfile, overlap, man, fails, wpc, wkey>> /\ dpc # "boot"
    BY <1>4, SMT DEF Pin, QuarantineDir, Flush
  <2>a. \A t \in Thread : snap'[t].ent = snap[t].ent
    BY <1>4, PinCopies, Zenon DEF QuarantineDir, Flush
  <2>3. at'["writer"] = at["writer"]
    BY <2>1, SMT DEF StartSave, Ctl, TypeOK, SavingType, Thread
  <2> QED
    BY <2>1, <2>2, <2>a, <2>3, StartSaveFacts, StoredSame, SMT DEF Thread, InSave
<1>5. ASSUME Take \/ StageFail \/ Rename \/ UndoDir \/ UndoEntry \/ EvictOne \/ EvictEnd
      PROVE  StoredInv'
  <2>1. UNCHANGED <<mfile, overlap, snap, at, dpc>>
    BY <1>5, Zenon DEF Take, StageFail, Rename, UndoDir, UndoEntry, EvictOne, EvictEnd
  <2>2. man' \subseteq man
    BY <1>5, Zenon DEF Take, StageFail, Rename, UndoDir, UndoEntry, EvictOne, EvictEnd
  <2>3. /\ wpc # "save" /\ (wpc' \in {"undo", "unlist"} => wpc \in {"undo", "unlist"})
        /\ fails' \in {fails, fails + 1}
    BY <1>5, SMT DEF Take, StageFail, Rename, UndoDir, UndoEntry, EvictOne, EvictEnd
  <2>4. fails' = 0 => fails = 0
    BY <1>2, <2>3, SMT
  <2> QED
    BY <2>1, <2>2, <2>3, <2>4, StoredSame
<1>6. ASSUME Request \/ SetProtect \/ Restore \/ Quarantine \/ Fresh \/ Capture \/ CancelPrefill
             \/ TurnEnd \/ BootIngest \/ Shutdown
      PROVE  StoredInv'
  <2>1. UNCHANGED <<mfile, overlap, snap, at, wpc, wkey, fails>>
    BY <1>6, Zenon DEF Request, SetProtect, Restore, Quarantine, Fresh, Capture, CancelPrefill,
       TurnEnd, BootIngest, Shutdown, WriteNode
  <2>2. man' \subseteq man
    BY <1>6, Zenon DEF Request, SetProtect, Restore, Quarantine, Fresh, Capture, CancelPrefill,
       TurnEnd, BootIngest, Shutdown
  <2>3. dpc # "boot"
    BY <1>6, SMT DEF Request, SetProtect, Restore, Quarantine, Fresh, Capture, CancelPrefill,
       TurnEnd, BootIngest, Shutdown
  <2> QED
    BY <2>1, <2>2, <2>3, StoredSame
<1>7. ASSUME Rot \/ Lapse \/ UNCHANGED vars PROVE StoredInv'
  <2>1. UNCHANGED <<mfile, overlap, snap, at, wpc, wkey, fails, man, dpc>>
    BY <1>7, Zenon DEF Rot, Lapse, vars
  <2> QED
    BY <2>1, StoredSame
<1> QED
  BY <1>1, <1>3, <1>4, <1>5, <1>6, <1>7, Zenon DEF Next, WriterStep, DaemonStep, Fault, Thread

(* Unless saves overlapped or failed, a crash loses no cached node but the *)
(* one whose save is under way.                                            *)
THEOREM LossBounded == Spec => []CrashLosesOnlyInHand
<1>1. Init => StoredInv
  BY SMT DEF Init, StoredInv
<1>2. Ctl /\ FileInv /\ StoredInv /\ [Next]_vars => StoredInv'
  BY StoredInsert, StoredSaves, StoredLoad, StoredOthers, Zenon
<1>3. StoredInv => CrashLosesOnlyInHand
  BY Zenon DEF StoredInv, CrashLosesOnlyInHand, InHand
<1> QED
  BY <1>1, <1>2, <1>3, InitFile, NextFile, InitCtl, NextCtl, PTL DEF Spec

----------------------------------------------------------------------------
(* Pins.                                                                   *)

(* Among the keys of one chain there is a last one: all lie on its chain.  *)
LEMMA LastOfChain ==
  ASSUME NEW h \in Key, NEW S \in SUBSET Chain[h], S # {}
  PROVE  \E k \in S : S \subseteq Chain[k]
<1> DEFINE T == {Key \ Chain[k] : k \in S}
<1>1. S \subseteq Key
  BY ChainFacts
<1>2. T \subseteq FiniteSubsetsOf(Key) /\ T # {}
  <2>1. FiniteSubsetsOf(Key) = SUBSET Key
    BY KeyAssumption, FS_FiniteSubsetsOfFinite
  <2>2. PICK k \in S : TRUE
    OBVIOUS
  <2>3. Key \ Chain[k] \in T
    OBVIOUS
  <2>4. \A x \in T : x \subseteq Key
    OBVIOUS
  <2> QED
    BY <2>1, <2>3, <2>4, Zenon
<1>3. PICK x \in T : \A y \in T : <<y, x>> \notin StrictSubsetOrdering(Key)
  BY <1>2, KeyAssumption, FS_StrictSubsetOrderingWellFounded, WFMin, Zenon
<1>4. PICK k \in S : x = Key \ Chain[k]
  OBVIOUS
<1>5. ASSUME NEW j \in S PROVE j \in Chain[k]
  <2>1. j \in Key /\ k \in Key /\ j \in Chain[j] /\ Chain[j] \subseteq Key /\ Chain[k] \subseteq Key
    BY <1>1, ChainFacts
  <2>2. CASE j \notin Chain[k]
    <3>1. k \in Chain[j]
      BY <2>2, PrefixAssumption
    <3>2. Chain[k] \subseteq Chain[j]
      BY <2>1, <3>1, PrefixAssumption, Zenon
    <3>3. (Key \ Chain[j]) \subseteq (Key \ Chain[k]) /\ (Key \ Chain[j]) # (Key \ Chain[k])
      BY <2>1, <2>2, <3>2, SMT
    <3>4. <<Key \ Chain[j], x>> \in StrictSubsetOrdering(Key)
      BY <1>4, <3>3, SMT DEF StrictSubsetOrdering
    <3> QED
      BY <1>3, <3>4
  <2> QED
    BY <2>2
<1> QED
  BY <1>5

(* Fewer pins fit as well.                                                 *)
LEMMA FewerFit ==
  ASSUME NEW S \in SUBSET Key, NEW T \in SUBSET S, Fits(S)
  PROVE  Fits(T)
<1>1. IsFiniteSet(S)
  BY KeyAssumption, FS_Subset
<1>2. IsFiniteSet(T) /\ Cardinality(T) <= Cardinality(S)
  BY <1>1, FS_Subset
<1>3. Cardinality(S) \in Nat /\ Cardinality(T) \in Nat
  BY <1>1, <1>2, FS_CardinalityType
<1> QED
  BY <1>2, <1>3, SizesAssumption, SMT DEF Fits

(* No pins fit.                                                            *)
LEMMA NoneFit == Fits({})
BY FS_EmptySet, SizesAssumption, SMT DEF Fits

(* Whatever pin() drops and takes, what is pinned then fits.               *)
LEMMA PinFits ==
  ASSUME pins \subseteq Key, Fits(pins), NEW h \in Key, NEW todo \in SUBSET Chain[h],
         NEW P \in AfterPin(todo)
  PROVE  Fits(P)
<1> DEFINE within(V, k) == Fits((pins \ V) \cup (Chain[k] \cap todo))
<1>1. PICK V \in SUBSET (pins \ todo) : P = (pins \ V) \cup {k \in todo : within(V, k)}
  BY Zenon DEF AfterPin
<1> DEFINE S == {k \in todo : within(V, k)}
<1>2. todo \subseteq Key
  BY ChainFacts
<1>3. CASE S = {}
  <2>1. P \in SUBSET pins
    BY <1>1, <1>3
  <2> QED
    BY <2>1, FewerFit
<1>4. CASE S # {}
  <2>1. S \in SUBSET Chain[h]
    OBVIOUS
  <2>a. \E k \in S : S \subseteq Chain[k]
    <3> HIDE DEF S
    <3> QED
      BY <1>4, <2>1, LastOfChain
  <2>2. PICK k \in S : S \subseteq Chain[k]
    BY <2>a
  <2>3. within(V, k)
    BY <2>2
  <2>4. P \subseteq (pins \ V) \cup (Chain[k] \cap todo)
    BY <1>1, <2>2
  <2>5. (pins \ V) \cup (Chain[k] \cap todo) \subseteq Key
    BY <1>2
  <2> QED
    BY <2>3, <2>4, <2>5, FewerFit
<1> QED
  BY <1>3, <1>4

(* A copy, or a file, that no pin() changed while it was written, fits.    *)
Sound(c) == c.mixed \/ Fits(c.pin)

PinInv ==
  mixed \/ /\ Fits(pins) /\ Sound(mfile.copy) /\ Sound(tfile.copy)
           /\ \A t \in Thread : Sound(snap[t])

(* No copy is sound.                                                       *)
LEMMA NoneSound == Sound(NoCopy)
BY NoneFit DEF Sound, NoCopy

(* Pins that only lapse or are dropped, while no file changes.             *)
LEMMA PinSame ==
  ASSUME Ctl, PinInv, UNCHANGED <<files, snap, mixed>>, pins' \subseteq pins
  PROVE  PinInv'
<1>1. pins \in SUBSET Key
  BY DEF Ctl, TypeOK, MemoryType
<1>2. mixed \/ Fits(pins')
  BY <1>1, FewerFit DEF PinInv
<1> QED
  BY <1>2, Zenon DEF PinInv, files, Sound

(* The steps of a save.                                                    *)
LEMMA PinSaves ==
  ASSUME Ctl, PinInv, NEW t \in Thread
  PROVE  SaveStep(t) \/ SaveFail(t) => PinInv'
<1> USE DEF memory
<1>1. /\ snap \in [Thread -> Copy] /\ Sound(NoCopy)
      /\ \A s : AFile(s).copy = NoCopy
  BY NoneSound DEF Ctl, TypeOK, SavingType, AFile
<1>2. ASSUME mixed, UNCHANGED mixed PROVE PinInv'
  BY <1>2, Zenon DEF PinInv
<1>3. SaveStep(t) \/ SaveFail(t) => UNCHANGED mixed
  BY Zenon DEF SaveStep, SaveCopy, SaveOpen, SaveWrite, SaveSwap, SaveFail, history
<1>4. ASSUME SaveCopy(t), ~mixed, UNCHANGED mixed PROVE PinInv'
  <2>1. /\ snap' = [snap EXCEPT ![t] = [ent |-> man, pin |-> pins, mixed |-> FALSE]]
        /\ UNCHANGED <<pins, mfile, tfile>>
    BY <1>4, Zenon DEF SaveCopy, files
  <2>2. \A u \in Thread : snap'[u] = snap[u] \/ snap'[u].pin = pins
    BY <1>1, <2>1, SMT
  <2>3. \A u \in Thread : Sound(snap[u]) /\ Fits(pins)
    BY <1>4 DEF PinInv
  <2>4. \A u \in Thread : Sound(snap'[u])
    BY <2>2, <2>3, Zenon DEF Sound
  <2> QED
    BY <1>4, <2>1, <2>4, Zenon DEF PinInv, Sound
<1>5. ASSUME SaveOpen(t), ~mixed, UNCHANGED mixed PROVE PinInv'
  <2>1. tfile' = AFile("empty") /\ UNCHANGED <<pins, mfile, snap>>
    BY <1>5, Zenon DEF SaveOpen
  <2> QED
    BY <1>1, <1>5, <2>1, Zenon DEF PinInv, Sound
<1>6. ASSUME SaveWrite(t), ~mixed, UNCHANGED mixed PROVE PinInv'
  <2>1. \A f, g : f \in Written(g, snap[t]) => Sound(f.copy)
    <3>1. Full(snap[t]).copy = snap[t]
      BY DEF Full
    <3> QED
      BY <1>1, <1>6, <3>1, Zenon DEF Written, PinInv
  <2>2. /\ mfile' = mfile \/ mfile' \in Written(mfile, snap[t])
        /\ tfile' = tfile \/ tfile' \in Written(tfile, snap[t])
        /\ UNCHANGED <<pins, snap>>
    BY <1>6, Zenon DEF SaveWrite, files
  <2> QED
    BY <1>6, <2>1, <2>2, Zenon DEF PinInv, Sound
<1>7. ASSUME SaveSwap(t) \/ SaveFail(t), ~mixed, UNCHANGED mixed PROVE PinInv'
  <2>1. snap' = [snap EXCEPT ![t] = NoCopy] /\ pins' = pins
    BY <1>7, Zenon DEF SaveSwap, SaveFail, Return
  <2>2. mfile' \in {mfile, tfile} /\ tfile' \in {tfile, AFile("none")}
    BY <1>7, Zenon DEF SaveSwap, SaveFail, files
  <2>3. \A u \in Thread : snap'[u] = snap[u] \/ snap'[u] = NoCopy
    BY <1>1, <2>1, SMT
  <2>4. \A u \in Thread : Sound(snap'[u])
    BY <1>1, <1>7, <2>3, Zenon DEF PinInv
  <2>5. Sound(mfile'.copy) /\ Sound(tfile'.copy)
    BY <1>1, <1>7, <2>2, Zenon DEF PinInv
  <2> QED
    BY <1>7, <2>1, <2>4, <2>5, Zenon DEF PinInv, Sound
<1> QED
  BY <1>2, <1>3, <1>4, <1>5, <1>6, <1>7, Zenon DEF SaveStep

(* What pins set meanwhile make of a copy: it is mixed, or has no pin that *)
(* it had not.                                                             *)
LEMMA SharedSound ==
  ASSUME NEW c \in Copy, NEW P, Sound(c)
  PROVE  Sound(Shared(c, P))
<1> DEFINE s == Shared(c, P)
<1>1. s.pin = c.pin \cup (P \cap c.ent) /\ s.mixed = (c.mixed \/ ~(P \cap c.ent \subseteq c.pin))
  BY DEF Shared, Copy
<1>2. CASE ~s.mixed
  <2>1. s.pin = c.pin /\ ~c.mixed
    BY <1>1, <1>2
  <2> QED
    BY <2>1, Zenon DEF Sound
<1>3. CASE s.mixed
  BY <1>3, Zenon DEF Sound
<1> QED
  BY <1>2, <1>3

(* Pinning, loading and restarting.                                        *)
LEMMA PinChanges ==
  ASSUME Ctl, PinInv
  PROVE  Pin \/ Load \/ Restart => PinInv'
<1>1. ASSUME Pin, ~mixed PROVE PinInv'
  <2>1. hit \in Key /\ pins \subseteq Key /\ snap \in [Thread -> Copy]
    BY <1>1, SMT DEF Pin, Ctl, DaemonInv, TypeOK, MemoryType, SavingType
  <2>2. Fits(pins')
    BY <1>1, <2>1, PinFits, Zenon DEF Pin, PinInv
  <2>3. \A u \in Thread : snap'[u] = snap[u] \/ snap'[u] = Shared(snap[u], pins')
    BY <1>1, <2>1, SMT DEF Pin
  <2>4. \A u \in Thread : snap[u] \in Copy /\ Sound(snap[u])
    BY <1>1, <2>1 DEF PinInv
  <2>5. \A u \in Thread : Sound(snap'[u])
    BY <2>3, <2>4, SharedSound, Zenon
  <2> QED
    BY <1>1, <2>2, <2>5, Zenon DEF Pin, PinInv, files, Sound
<1>2. ASSUME Load, ~mixed' PROVE PinInv'
  <2>1. ~mixed /\ ~Loaded.mixed
    BY <1>2, Zenon DEF Load
  <2>2. Loaded \in Copy /\ Sound(Loaded)
    BY <2>1, LoadedType, NoneSound, Zenon DEF Loaded, PinInv, Ctl, TypeOK
  <2>3. Loaded.pin \in SUBSET Key /\ Fits(Loaded.pin)
    BY <2>1, <2>2 DEF Copy, Sound
  <2>4. Fits(pins')
    BY <1>2, <2>3, FewerFit, Zenon DEF Load
  <2> QED
    BY <1>2, <2>1, <2>4, Zenon DEF Load, PinInv, files, Sound
<1>3. ASSUME Restart, ~mixed PROVE PinInv'
  <2>1. /\ pins' = {} /\ snap' = [u \in Thread |-> NoCopy] /\ UNCHANGED <<mfile, tfile>>
    BY <1>3, Zenon DEF Restart, files
  <2>2. \A u \in Thread : snap'[u] = NoCopy
    BY <2>1
  <2> QED
    BY <1>3, <2>1, <2>2, NoneFit, NoneSound, Zenon DEF PinInv, Sound
<1>4. ASSUME Pin \/ Restart, mixed PROVE PinInv'
  BY <1>4, Zenon DEF Pin, Restart, history, PinInv
<1>5. ASSUME Load, mixed' PROVE PinInv'
  BY <1>5, Zenon DEF PinInv
<1> QED
  BY <1>1, <1>2, <1>3, <1>4, <1>5, Zenon

(* Live pins keep within the budget, whatever is pinned, lapses or comes   *)
(* back from disk, until the engine boots from a manifest that pin()       *)
(* changed while it was being written.                                     *)
THEOREM PinsWithinBudget == Spec => []PinBudgetKept
<1>1. Init => PinInv
  <2> SUFFICES ASSUME Init PROVE PinInv
    OBVIOUS
  <2>1. Sound(NoCopy) /\ AFile("none").copy = NoCopy
    BY NoneSound DEF AFile
  <2>2. PICK c \in Earlier : mfile = AFile("none") \/ mfile = Full(c)
    BY Zenon DEF Init
  <2>3. Fits(c.pin) /\ Full(c).copy = c
    BY EarlierAssumption DEF Fits, Full
  <2>4. Sound(mfile.copy)
    BY <2>1, <2>2, <2>3, Zenon DEF Sound
  <2>5. /\ pins = {} /\ tfile = AFile("none")
        /\ \A t \in Thread : snap[t] = NoCopy
    BY SMT DEF Init
  <2> QED
    BY <2>1, <2>4, <2>5, NoneFit, Zenon DEF PinInv
<1>2. Ctl /\ PinInv /\ [Next]_vars => PinInv'
  <2> SUFFICES ASSUME Ctl, PinInv, [Next]_vars PROVE PinInv'
    OBVIOUS
  <2> USE DEF memory, saving, history
  <2>1. ASSUME Take \/ StageFail \/ WriteAgain \/ Rename \/ Insert \/ UndoDir \/ UndoEntry \/ EvictOne
               \/ EvictDir \/ EvictEnd
        PROVE  PinInv'
    <3>1. pins' \subseteq pins /\ UNCHANGED <<files, snap, mixed>>
      BY <2>1, Zenon DEF Take, StageFail, WriteAgain, Rename, Insert, UndoDir, UndoEntry, EvictOne,
         EvictDir, EvictEnd
    <3> QED
      BY <3>1, PinSame
  <2>2. ASSUME Request \/ SetProtect \/ Restore \/ Quarantine \/ QuarantineDir \/ Fresh \/ Capture
               \/ CancelPrefill \/ TurnEnd \/ BootIngest \/ Shutdown \/ Flush
        PROVE  PinInv'
    <3>1. pins' \subseteq pins /\ UNCHANGED <<files, snap, mixed>>
      BY <2>2, Zenon DEF Request, SetProtect, Restore, Quarantine, QuarantineDir, Fresh, Capture,
         CancelPrefill, TurnEnd, BootIngest, Shutdown, Flush
    <3> QED
      BY <3>1, PinSame
  <2>3. ASSUME Rot \/ Lapse \/ UNCHANGED vars PROVE PinInv'
    <3>1. pins' \subseteq pins /\ UNCHANGED <<files, snap, mixed>>
      BY <2>3, Zenon DEF Rot, Lapse, vars, files
    <3> QED
      BY <3>1, PinSame
  <2> QED
    BY <2>1, <2>2, <2>3, PinSaves, PinChanges, Zenon
       DEF Next, WriterStep, DaemonStep, Fault, Thread
<1>3. PinInv => PinBudgetKept
  BY DEF PinInv, PinBudgetKept
<1> QED
  BY <1>1, <1>2, <1>3, InitCtl, NextCtl, PTL DEF Spec

----------------------------------------------------------------------------
(* Eviction.                                                               *)

HeldInv == Held \subseteq protect

(* A step after which no more is held, and no less protected.              *)
LEMMA HeldSame ==
  HeldInv /\ UNCHANGED <<protect, dpc, hit, last>> => HeldInv'
BY Zenon DEF HeldInv, Held

(* What captures a node keeps the resident chain protected.                *)
LEMMA HeldCapture ==
  ASSUME NEW k \in Key, WriteNode(k), Parent[k] = last,
         last # NoKey => Chain[last] \subseteq protect
  PROVE  last' # NoKey /\ Chain[last'] \subseteq protect'
<1>1. last' = k /\ protect' = protect \cup {k}
  BY Zenon DEF WriteNode
<1>2. Chain[k] = {k} \cup IF last = NoKey THEN {} ELSE Chain[last]
  BY ChainAssumption
<1> QED
  BY <1>1, <1>2, KeyAssumption, SMT

(* The steps of the daemon that move what is held.                         *)
LEMMA HeldDaemon ==
  ASSUME Ctl, HeldInv
  PROVE  Request \/ Pin \/ SetProtect \/ Restore \/ Quarantine \/ QuarantineDir \/ Fresh
         \/ Capture \/ CancelPrefill \/ TurnEnd \/ Load \/ BootIngest \/ Shutdown \/ Flush \/ Restart
           => HeldInv'
<1> USE DEF HeldInv
<1>1. dpc \in {"idle", "capture"} /\ last # NoKey => Chain[last] \subseteq protect
  BY SMT DEF Held
<1>2. ASSUME Request PROVE HeldInv'
  <2>1. /\ dpc = "idle" /\ last' = last
        /\ \/ dpc' = "fresh" /\ UNCHANGED <<hit, protect>>
           \/ dpc' = "hit" /\ \E k \in Key : hit' = k /\ protect' = protect \cup Chain[k]
    BY <1>2, LookupFacts, Zenon DEF Request, LookupHit
  <2> QED
    BY <1>1, <2>1, SMT DEF Held
<1>3. ASSUME Pin PROVE HeldInv'
  BY <1>3, SMT DEF Pin, Held
<1>4. ASSUME SetProtect PROVE HeldInv'
  BY <1>4, SMT DEF SetProtect, Held
<1>5. ASSUME Restore PROVE HeldInv'
  BY <1>5, SMT DEF Restore, Held, memory
<1>6. ASSUME Quarantine PROVE HeldInv'
  BY <1>6, SMT DEF Quarantine, Held
<1>7. ASSUME QuarantineDir PROVE HeldInv'
  BY <1>7, SMT DEF QuarantineDir, Held, memory
<1>8. ASSUME Fresh PROVE HeldInv'
  BY <1>8, SMT DEF Fresh, Held
<1>9. ASSUME Capture PROVE HeldInv'
  <2>1. dpc = "capture" /\ goal \in Key /\ dpc' \in {"capture", "idle"}
    BY <1>9, SMT DEF Capture, Ctl, DaemonInv, Prefilling
  <2>2. PICK k \in Chain[goal] : Parent[k] = last /\ WriteNode(k)
    BY <1>9, Zenon DEF Capture
  <2>3. Chain[last'] \subseteq protect'
    BY <1>1, <2>1, <2>2, ChainFacts, HeldCapture, Zenon
  <2> QED
    BY <2>1, <2>3, SMT DEF Held
<1>10. ASSUME CancelPrefill \/ Shutdown \/ Flush PROVE HeldInv'
  BY <1>10, SMT DEF CancelPrefill, Shutdown, Flush, Held, memory
<1>11. ASSUME TurnEnd PROVE HeldInv'
  <2>1. dpc = "idle" /\ dpc' = "idle"
    BY <1>11, Zenon DEF TurnEnd
  <2>2. Chain[last'] \subseteq protect'
    BY <1>1, <1>11, <2>1, HeldCapture, Zenon DEF TurnEnd
  <2> QED
    BY <2>1, <2>2, SMT DEF Held
<1>12. ASSUME Load PROVE HeldInv'
  BY <1>12, SMT DEF Load, Held
<1>13. ASSUME BootIngest PROVE HeldInv'
  <2>1. dpc' = "idle" /\ WriteNode(Base) /\ Chain[Base] = {Base} /\ Base \in Key
    BY <1>13, BaseAssumption, ChainAssumption, SMT DEF BootIngest
  <2>2. last' = Base /\ Base \in protect'
    BY <2>1, Zenon DEF WriteNode
  <2> QED
    BY <2>1, <2>2, SMT DEF Held
<1>14. ASSUME Restart PROVE HeldInv'
  BY <1>14, SMT DEF Restart, Held
<1> QED
  BY <1>2, <1>3, <1>4, <1>5, <1>6, <1>7, <1>8, <1>9, <1>10, <1>11, <1>12, <1>13, <1>14, Zenon

(* The end of the daemon's save.                                           *)
LEMMA HeldSaves ==
  ASSUME Ctl, HeldInv, NEW t \in Thread
  PROVE  SaveStep(t) \/ SaveFail(t) => HeldInv'
<1>1. ASSUME SaveCopy(t) \/ SaveOpen(t) \/ SaveWrite(t) PROVE HeldInv'
  BY <1>1, HeldSame, Zenon DEF SaveCopy, SaveOpen, SaveWrite, memory, daemon
<1>2. ASSUME SaveSwap(t) \/ SaveFail(t) PROVE HeldInv'
  <2>1. UNCHANGED <<protect, hit, last>>
    BY <1>2, Zenon DEF SaveSwap, SaveFail, memory
  <2>2. at[t] # "no"
    BY <1>2, Zenon DEF SaveSwap, SaveFail
  <2>3. PICK ok \in BOOLEAN : Return(t, ok)
    BY <1>2, Zenon DEF SaveSwap, SaveFail
  <2>4. CASE t = "writer"
    BY <2>1, <2>2, <2>3, <2>4, ReturnStands, HeldSame, Zenon
  <2>5. CASE t = "daemon"
    <3>1. /\ dpc \in {"bootsave", "pinsave", "quarsave", "flushsave", "latesave"}
          /\ dpc' \in {"ingest", "protect", "fresh", "exit"}
          /\ (dpc' = "protect" <=> dpc = "pinsave") /\ (dpc' = "fresh" <=> dpc = "quarsave")
      BY <2>2, <2>3, <2>5, ReturnStands, Zenon
    <3> QED
      BY <2>1, <3>1, SMT DEF HeldInv, Held
  <2> QED
    BY <2>4, <2>5 DEF Thread
<1> QED
  BY <1>1, <1>2, Zenon DEF SaveStep

(* What is being restored or resident is always protected.                 *)
LEMMA HeldCorrect == Spec => [](HeldInv /\ Ctl)
<1>1. Init => HeldInv
  BY SMT DEF Init, HeldInv, Held
<1>2. Ctl /\ HeldInv /\ [Next]_vars => HeldInv'
  <2> SUFFICES ASSUME Ctl, HeldInv, [Next]_vars PROVE HeldInv'
    OBVIOUS
  <2>1. ASSUME Take \/ StageFail \/ WriteAgain \/ Rename \/ Insert \/ UndoDir \/ UndoEntry \/ EvictOne
               \/ EvictDir \/ EvictEnd
        PROVE  HeldInv'
    BY <2>1, HeldSame, Zenon DEF Take, StageFail, WriteAgain, Rename, Insert, UndoDir, UndoEntry,
       EvictOne, EvictDir, EvictEnd, memory, daemon
  <2>2. ASSUME Rot \/ Lapse \/ UNCHANGED vars PROVE HeldInv'
    BY <2>2, HeldSame, Zenon DEF Rot, Lapse, vars, memory, daemon
  <2> QED
    BY <2>1, <2>2, HeldDaemon, HeldSaves, Zenon DEF Next, WriterStep, DaemonStep, Fault, Thread
<1> QED
  BY <1>1, <1>2, InitCtl, NextCtl, PTL DEF Spec

(* Eviction takes no node of a chain that is being restored or resident,   *)
(* no pinned node and none that another cached chain runs through.         *)
THEOREM EvictionSafe == Spec => EvictionSparesChains
<1>1. HeldInv /\ Ctl /\ EvictOne
        => \A k \in man \ man' : /\ k \notin Held \cup pins
                                 /\ \A c \in man' : Chain[c] \subseteq man => k \notin Chain[c]
  <2> SUFFICES ASSUME HeldInv, Ctl, EvictOne, NEW k \in man \ man'
               PROVE  /\ k \notin Held \cup pins
                      /\ \A c \in man' : Chain[c] \subseteq man => k \notin Chain[c]
    OBVIOUS
  <2>1. k \in Candidates /\ man' \subseteq man
    BY Zenon DEF EvictOne, Victims
  <2>2. k \notin Held \cup pins
    BY <2>1, Zenon DEF Candidates, HeldInv
  <2>3. ASSUME NEW c \in man', Chain[c] \subseteq man, k \in Chain[c] PROVE FALSE
    <3>1. c \in Key /\ k # c
      BY <2>1, <2>3, Zenon DEF Ctl, TypeOK, MemoryType
    <3>2. PICK i \in Chain[c] : Parent[i] = k
      BY <2>3, <3>1, PrefixAssumption
    <3> QED
      BY <2>1, <2>3, <3>2, Zenon DEF Candidates
  <2> QED
    BY <2>2, <2>3
<1> QED
  BY <1>1, HeldCorrect, PTL DEF EvictionSparesChains

----------------------------------------------------------------------------
(* The clean exit.                                                         *)

FlushInv ==
  dpc = "flushsave" =>
    /\ wq = << >> /\ wpc = "idle"
    /\ at["daemon"] \in InSave => snap["daemon"].ent = man
    /\ at["daemon"] = "write" => on["daemon"] = "tmp" /\ tfile.state = "empty"
    /\ at["daemon"] = "swap" => tfile = Full(snap["daemon"])

(* A step of another part of the system leaves the last save alone.        *)
LEMMA FlushSame ==
  FlushInv /\ UNCHANGED <<dpc, wq, wpc, at, snap, on, man, tfile>> => FlushInv'
BY Zenon DEF FlushInv

(* The daemon's own save.                                                  *)
LEMMA FlushSave ==
  ASSUME Ctl, FlushInv
  PROVE  SaveStep("daemon") \/ SaveFail("daemon") => FlushInv'
<1> USE DEF memory, writer, daemon
<1>1. ASSUME dpc' # "flushsave" PROVE FlushInv'
  BY <1>1 DEF FlushInv
<1>2. /\ at \in [Thread -> {"no", "copy", "open", "write", "swap"}]
      /\ on \in [Thread -> {"tmp", "man", "gone"}] /\ snap \in [Thread -> Copy]
      /\ "daemon" \in Thread
  BY DEF Ctl, TypeOK, SavingType, Thread
<1>3. ASSUME SaveCopy("daemon") PROVE FlushInv'
  <2>1. /\ at' = [at EXCEPT !["daemon"] = "open"]
        /\ snap' = [snap EXCEPT !["daemon"] = [ent |-> man, pin |-> pins, mixed |-> FALSE]]
        /\ UNCHANGED <<man, wq, wpc, dpc>>
    BY <1>3, Zenon DEF SaveCopy
  <2>2. at'["daemon"] = "open" /\ snap'["daemon"].ent = man
    BY <1>2, <2>1, SMT
  <2> QED
    BY <2>1, <2>2, SMT DEF FlushInv
<1>4. ASSUME SaveOpen("daemon") PROVE FlushInv'
  <2>1. /\ at[ "daemon"] = "open" /\ at' = [at EXCEPT !["daemon"] = "write"]
        /\ on' = [on EXCEPT !["daemon"] = "tmp"] /\ tfile' = AFile("empty")
        /\ UNCHANGED <<man, wq, wpc, dpc, snap>>
    BY <1>4, Zenon DEF SaveOpen
  <2>2. at'["daemon"] = "write" /\ on'["daemon"] = "tmp" /\ tfile'.state = "empty"
    BY <1>2, <2>1, SMT DEF AFile
  <2> QED
    BY <2>1, <2>2, SMT DEF FlushInv, InSave
<1>5. ASSUME SaveWrite("daemon") PROVE FlushInv'
  <2>1. /\ at["daemon"] = "write" /\ at' = [at EXCEPT !["daemon"] = "swap"]
        /\ UNCHANGED <<man, wq, wpc, dpc, snap, on>>
    BY <1>5, Zenon DEF SaveWrite
  <2>2. at'["daemon"] = "swap"
    BY <1>2, <2>1, SMT
  <2>3. CASE dpc = "flushsave"
    <3>1. on["daemon"] = "tmp" /\ tfile.state = "empty" /\ snap["daemon"].ent = man
      BY <2>1, <2>3, SMT DEF FlushInv, InSave
    <3>2. tfile' = Full(snap["daemon"])
      BY <1>5, <3>1, SMT DEF SaveWrite, Written
    <3> QED
      BY <2>1, <2>2, <2>3, <3>1, <3>2, SMT DEF FlushInv
  <2> QED
    BY <1>1, <2>1, <2>3
<1>6. ASSUME SaveSwap("daemon") \/ SaveFail("daemon") PROVE FlushInv'
  <2>1. at["daemon"] # "no"
    BY <1>6, Zenon DEF SaveSwap, SaveFail
  <2>2. PICK ok \in BOOLEAN : Return("daemon", ok)
    BY <1>6, Zenon DEF SaveSwap, SaveFail
  <2>3. dpc' # "flushsave"
    BY <1>2, <2>1, <2>2, ReturnStands, SMT
  <2> QED
    BY <1>1, <2>3
<1> QED
  BY <1>3, <1>4, <1>5, <1>6, Zenon DEF SaveStep

(* A writer with nothing in hand and nothing queued takes no step.         *)
LEMMA WriterBusy ==
  ASSUME Ctl, WriterStep \/ StageFail \/ SaveFail("writer")
  PROVE  ~(wpc = "idle" /\ wq = << >>)
<1>1. wpc = "idle" => at["writer"] = "no"
  BY SMT DEF Ctl, WriterInv, TypeOK, SavingType, Thread
<1>2. ASSUME SaveStep("writer") \/ SaveFail("writer") PROVE at["writer"] # "no"
  BY <1>2, Zenon DEF SaveStep, SaveCopy, SaveOpen, SaveWrite, SaveSwap, SaveFail
<1>3. ASSUME WriteAgain \/ Rename \/ StageFail PROVE wpc = "write"
  BY <1>3, Zenon DEF WriteAgain, Rename, StageFail
<1>4. ASSUME Insert \/ UndoDir \/ UndoEntry PROVE wpc \in {"renamed", "undo", "unlist"}
  BY <1>4, SMT DEF Insert, UndoDir, UndoEntry
<1>5. ASSUME EvictOne \/ EvictDir \/ EvictEnd PROVE wpc \in {"evict", "grave"}
  BY <1>5, SMT DEF EvictOne, EvictDir, EvictEnd
<1>6. ASSUME Take PROVE wq # << >>
  BY <1>6, Zenon DEF Take
<1> QED
  BY <1>1, <1>2, <1>3, <1>4, <1>5, <1>6, SMT DEF WriterStep

(* Every step keeps the last save as it should be.                         *)
LEMMA NextFlush == Ctl /\ FlushInv /\ [Next]_vars => FlushInv'
<1> SUFFICES ASSUME Ctl, FlushInv, [Next]_vars PROVE FlushInv'
  OBVIOUS
<1> USE DEF memory, writer, daemon, saving, files
<1>1. ASSUME dpc' # "flushsave" PROVE FlushInv'
  BY <1>1 DEF FlushInv
<1>3. ASSUME WriterStep \/ StageFail \/ SaveFail("writer") PROVE FlushInv'
  <2>1. dpc' = dpc
    <3>1. ASSUME SaveSwap("writer") \/ SaveFail("writer") PROVE dpc' = dpc
      BY <3>1, Zenon DEF SaveSwap, SaveFail, Return
    <3> QED
      BY <1>3, <3>1, Zenon DEF WriterStep, SaveStep, Take, StageFail, WriteAgain, Rename, Insert,
         UndoDir, UndoEntry, EvictOne, EvictDir, EvictEnd, SaveCopy, SaveOpen, SaveWrite
  <2>2. ~(wpc = "idle" /\ wq = << >>)
    BY <1>3, WriterBusy
  <2> QED
    BY <1>1, <2>1, <2>2 DEF FlushInv
<1>4. ASSUME Request \/ Pin \/ SetProtect \/ Restore \/ Quarantine \/ QuarantineDir \/ Fresh
             \/ Capture \/ CancelPrefill \/ TurnEnd \/ Load \/ BootIngest \/ Shutdown \/ Restart
      PROVE  FlushInv'
  <2>1. dpc' # "flushsave"
    BY <1>4, SMT DEF Request, Pin, SetProtect, Restore, Quarantine, QuarantineDir, Fresh, Capture,
       CancelPrefill, TurnEnd, Load, BootIngest, Shutdown, Restart
  <2> QED
    BY <1>1, <2>1
<1>5. ASSUME Flush PROVE FlushInv'
  <2>1. StartSave("daemon") /\ UNCHANGED <<wq, wpc>> /\ (dpc' = "flushsave" => Drained)
    BY <1>5, SMT DEF Flush
  <2>2. at'["daemon"] = "copy"
    BY <2>1, SMT DEF StartSave, Ctl, TypeOK, SavingType, Thread
  <2> QED
    BY <2>1, <2>2, SMT DEF FlushInv, InSave, Drained
<1>6. ASSUME Rot \/ Lapse \/ UNCHANGED vars PROVE FlushInv'
  BY <1>6, FlushSame, Zenon DEF Rot, Lapse, vars
<1> QED
  BY <1>3, <1>4, <1>5, <1>6, FlushSave, Zenon DEF Next, WriterStep, DaemonStep, Fault, Thread

(* A clean exit whose flush drained the queue leaves a manifest with every *)
(* entry, whatever overlapped, failed or was torn before.                  *)
THEOREM CleanExitComplete == Spec => CleanExitPersists
<1>1. Init => FlushInv
  BY SMT DEF Init, FlushInv
<1>2. Ctl /\ FlushInv /\ [Next]_vars
        => (dpc = "flushsave" /\ dpc' = "exit" /\ fails' = fails
              => mfile'.state = "full" /\ mfile'.copy.ent = man)
  <2> SUFFICES ASSUME Ctl, FlushInv, [Next]_vars, dpc = "flushsave", dpc' = "exit", fails' = fails
               PROVE  mfile'.state = "full" /\ mfile'.copy.ent = man
    OBVIOUS
  <2> USE DEF memory, writer, daemon, saving, files, history, budgets
  <2>1. wpc = "idle" /\ wq = << >> /\ at["writer"] = "no" /\ at["daemon"] # "no" /\ fails \in Nat
    BY SMT DEF FlushInv, Ctl, WriterInv, DaemonInv, TypeOK, SavingType, BudgetType, Thread
  <2>2. ~WriterStep /\ ~StageFail /\ ~SaveFail("writer") /\ ~SaveFail("daemon")
    <3>1. ASSUME SaveFail("daemon") PROVE FALSE
      <4>1. fails' = fails + 1
        BY <3>1, Zenon DEF SaveFail
      <4> QED
        BY <2>1, <4>1, SMT
    <3> QED
      BY <2>1, <3>1, WriterBusy
  <2>3. ~(Rot \/ Lapse \/ UNCHANGED vars \/ SaveCopy("daemon") \/ SaveOpen("daemon") \/ SaveWrite("daemon"))
    BY Zenon DEF Rot, Lapse, vars, SaveCopy, SaveOpen, SaveWrite
  <2>4. ~(Request \/ Pin \/ SetProtect \/ Restore \/ Quarantine \/ QuarantineDir \/ Fresh
          \/ Capture \/ CancelPrefill \/ TurnEnd \/ Load \/ BootIngest \/ Shutdown \/ Flush \/ Restart)
    BY SMT DEF Request, Pin, SetProtect, Restore, Quarantine, QuarantineDir, Fresh, Capture,
       CancelPrefill, TurnEnd, Load, BootIngest, Shutdown, Flush, Restart
  <2>5. SaveSwap("daemon")
    BY <2>2, <2>3, <2>4, Zenon DEF Next, DaemonStep, SaveStep, Fault, Thread
  <2>6. at["daemon"] = "swap"
    BY <2>5, Zenon DEF SaveSwap
  <2>7. tfile = Full(snap["daemon"]) /\ snap["daemon"].ent = man
    BY <2>6, SMT DEF FlushInv, InSave
  <2>8. tfile.state = "full" /\ tfile.copy = snap["daemon"]
    BY <2>7 DEF Full
  <2>9. mfile' = tfile
    BY <2>5, <2>8, SMT DEF SaveSwap
  <2> QED
    BY <2>7, <2>8, <2>9
<1> QED
  BY <1>1, <1>2, NextFlush, InitCtl, NextCtl, PTL DEF Spec, CleanExitPersists
=============================================================================
