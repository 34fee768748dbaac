------------------------- MODULE IdentityFilesProofs -------------------------
(* What holds of the identity files for every number of invocations, paths  *)
(* and files, whoever is killed, whatever is aliased and cleaned up.        *)
EXTENDS IdentityFiles, WellFoundedInduction, TLAPS

-----------------------------------------------------------------------------
\* The inductive invariant.

Kinds == {"private", "public"}
Content ==
    [text : [owner : Process, node : Node, kind : Kinds, written : 0..Whole],
     synced : BOOLEAN, mode : {"0600", "0644"}]
ProcessState ==
    [pc : {"idle", "create", "write", "sync", "done", "failed"}, at : {1, 2},
     path : [private : Path \cup {None}, public : Path \cup {None}]]

Typed ==
    /\ process \in [Process -> ProcessState]
    /\ file \in [File -> Content \cup {None}]
    /\ powerLost \in BOOLEAN
    /\ \A p \in Process : process[p].pc # "idle" => process[p].path \in Outputs

PrivateFile(p) == FileOf[process[p].path.private]
PublicFile(p) == FileOf[process[p].path.public]

\* The file is there and is of this invocation.
Owns(p, f) == file[f] # None /\ file[f].text.owner = p

PrivateStored(p) ==
    /\ file[PrivateFile(p)] # None
    /\ file[PrivateFile(p)].text = Text(p, "private", Whole)

\* A file has the mode of its kind and is of an invocation that has started;
\* the private file was whole before there was a public one.
FileOK(f) ==
    file[f] # None =>
        LET t == file[f].text IN
        /\ file[f].mode = Mode(t.kind)
        /\ t.node = NodeOf[t.owner]
        /\ process[t.owner].pc # "idle"
        /\ t.kind = "public" => PrivateStored(t.owner) \/ powerLost

\* What a running invocation has open is its own.
OpenOK(p) ==
    process[p].pc \in {"write", "sync"} =>
        /\ Owns(p, Target(p))
        /\ file[Target(p)].text.kind = Kind(p)
        /\ process[p].pc = "sync" => file[Target(p)].text.written = Whole

\* At its second file, an invocation still has the first, whole and synced.
SecondOK(p) ==
    Running(p) /\ process[p].at = 2 =>
        PrivateStored(p) /\ file[PrivateFile(p)].synced

DoneFile(p, f, kind) ==
    IF Owns(p, f)
    THEN file[f].text = Text(p, kind, Whole) /\ file[f].synced
    ELSE powerLost

DoneOK(p) ==
    process[p].pc = "done" =>
        /\ DoneFile(p, PrivateFile(p), "private")
        /\ DoneFile(p, PublicFile(p), "public")

IInv ==
    /\ Typed
    /\ \A f \in File : FileOK(f)
    /\ \A p \in Process : OpenOK(p) /\ SecondOK(p) /\ DoneOK(p)

LEMMA NoneIsNoContent == None \notin Content
BY IdentityFilesAssumption DEF Content, Kinds, Whole

LEMMA InitIInv == Init => IInv
<1> SUFFICES ASSUME Init PROVE IInv
  OBVIOUS
<1>1. \A p \in Process : process[p].pc = "idle"
  BY DEF Init
<1>2. Typed
  BY DEF Init, Typed, ProcessState
<1>3. \A f \in File : FileOK(f)
  BY DEF Init, FileOK
<1>4. \A p \in Process : OpenOK(p) /\ SecondOK(p) /\ DoneOK(p)
  BY <1>1 DEF OpenOK, SecondOK, DoneOK, Running
<1> QED
  BY <1>2, <1>3, <1>4 DEF IInv

\* An invocation writes the private file first and the public one second.
LEMMA Targets ==
    ASSUME Typed, NEW p \in Process, process[p].pc # "idle"
    PROVE  /\ PrivateFile(p) \in File /\ PublicFile(p) \in File
           /\ process[p].at = 1 =>
                 Kind(p) = "private" /\ Target(p) = PrivateFile(p)
           /\ process[p].at = 2 =>
                 Kind(p) = "public" /\ Target(p) = PublicFile(p)
           /\ process[p].at \in {1, 2}
           /\ Kind(p) \in Kinds /\ Target(p) \in File
<1>1. /\ process[p].path \in [private : Path, public : Path]
      /\ process[p].at \in {1, 2}
  BY IdentityFilesAssumption DEF Typed, ProcessState
<1>2. process[p].path.private \in Path /\ process[p].path.public \in Path
  BY <1>1
<1>3. Order[1] = "private" /\ Order[2] = "public"
  BY DEF Order
<1> QED
  BY <1>1, <1>2, <1>3, IdentityFilesAssumption
     DEF Kind, Target, PrivateFile, PublicFile, Kinds

LEMMA TextFields ==
    ASSUME NEW p, NEW kind, NEW w
    PROVE  /\ Text(p, kind, w).owner = p /\ Text(p, kind, w).kind = kind
           /\ Text(p, kind, w).written = w
           /\ Text(p, kind, w).node = NodeOf[p]
BY DEF Text

LEMMA TextTyped ==
    ASSUME NEW p \in Process, NEW kind \in Kinds, NEW w \in 0..Whole
    PROVE  Text(p, kind, w) \in
              [owner : Process, node : Node, kind : Kinds, written : 0..Whole]
BY IdentityFilesAssumption DEF Text

-----------------------------------------------------------------------------
\* Steps that touch one process and, at most, one file of its own.

\* A step that changes no file: only the program counter of one invocation.
LEMMA CounterStep ==
    ASSUME IInv, NEW p \in Process, UNCHANGED <<file, powerLost>>, Typed',
           \A q \in Process \ {p} : process'[q] = process[q],
           \/ process[p].pc = "idle"
           \/ process'[p].pc # "idle" /\ process'[p].path = process[p].path,
           OpenOK(p)', SecondOK(p)', DoneOK(p)'
    PROVE  IInv'
<1>1. ASSUME NEW q \in Process, q # p
      PROVE  OpenOK(q)' /\ SecondOK(q)' /\ DoneOK(q)'
  <2>1. process'[q] = process[q] /\ OpenOK(q) /\ SecondOK(q) /\ DoneOK(q)
    BY <1>1 DEF IInv
  <2>2. OpenOK(q)'
    BY <2>1 DEF OpenOK, Owns, Target, Kind
  <2>3. SecondOK(q)'
    BY <2>1 DEF SecondOK, Running, PrivateStored, PrivateFile
  <2>4. DoneOK(q)'
    BY <2>1 DEF DoneOK, DoneFile, Owns, PrivateFile, PublicFile
  <2> QED
    BY <2>2, <2>3, <2>4
<1>2. ASSUME NEW f \in File PROVE FileOK(f)'
  <2>1. SUFFICES ASSUME file[f] # None PROVE FileOK(f)'
    BY DEF FileOK
  <2> DEFINE o == file[f].text.owner
  <2>2. o \in Process /\ FileOK(f) /\ process[o].pc # "idle"
    BY <2>1 DEF IInv, FileOK, Typed, Content
  <2>3. process'[o].pc # "idle" /\ process'[o].path = process[o].path
    BY <2>2
  <2> QED
    BY <2>1, <2>2, <2>3 DEF FileOK, PrivateStored, PrivateFile
<1> QED
  BY <1>1, <1>2 DEF IInv

\* A step that gives one file new content of the same invocation.
LEMMA FileStep ==
    ASSUME IInv, NEW p \in Process, NEW T \in File, NEW c \in Content,
           UNCHANGED powerLost, Typed', file' = [file EXCEPT ![T] = c],
           \A q \in Process \ {p} : process'[q] = process[q],
           process[p].pc # "idle", process'[p].pc # "idle",
           process'[p].path = process[p].path,
           c.text.owner = p, c.text.node = NodeOf[p],
           c.mode = Mode(c.text.kind),
           c.text.kind = "public" => PrivateStored(p),
           \/ file[T] = None
           \/ /\ Owns(p, T) /\ file[T].text.kind = c.text.kind
              /\ file[T].text.written = Whole => c.text = file[T].text,
           OpenOK(p)', SecondOK(p)', DoneOK(p)'
    PROVE  IInv'
<1>1. /\ \A f \in File \ {T} : file'[f] = file[f]
      /\ file'[T] = c /\ c # None
  BY NoneIsNoContent DEF IInv, Typed
<1>2. ASSUME NEW q \in Process, q # p
      PROVE  OpenOK(q)' /\ SecondOK(q)' /\ DoneOK(q)'
  <2>1. process'[q] = process[q] /\ OpenOK(q) /\ SecondOK(q) /\ DoneOK(q)
    BY <1>2 DEF IInv
  <2>2. process[q].pc # "idle" =>
           /\ PrivateFile(q) \in File /\ PublicFile(q) \in File
           /\ Target(q) \in File
    BY Targets DEF IInv
  <2>3. ~Owns(q, T) /\ ~Owns(q, T)'
    BY <1>1, <1>2 DEF Owns
  <2>4. \A f \in File : Owns(q, f) => file'[f] = file[f]
    BY <1>1, <2>3
  <2>5. \A f \in File : Owns(q, f)' <=> Owns(q, f)
    BY <1>1, <2>3 DEF Owns
  <2>6. OpenOK(q)'
    BY <2>1, <2>2, <2>4, <2>5 DEF OpenOK, Target, Kind, Owns
  <2>7. SecondOK(q)'
    <3>1. ASSUME Running(q), process[q].at = 2
          PROVE  Owns(q, PrivateFile(q)) /\ process[q].pc # "idle"
      BY <2>1, <3>1, TextFields DEF SecondOK, PrivateStored, Owns, Running
    <3> QED
      BY <2>1, <2>2, <2>4, <3>1
         DEF SecondOK, PrivateStored, PrivateFile, Running
  <2>8. DoneOK(q)'
    BY <2>1, <2>2, <2>4, <2>5
       DEF DoneOK, DoneFile, PrivateFile, PublicFile
  <2> QED
    BY <2>6, <2>7, <2>8
<1>3. ASSUME NEW q \in Process, process[q].pc # "idle", PrivateStored(q)
      PROVE  PrivateStored(q)'
  <2> DEFINE f == PrivateFile(q)
  <2>1. f \in File /\ PrivateFile(q)' = f
    BY <1>3, Targets DEF IInv, PrivateFile
  <2>2. Owns(q, f) /\ file[f].text.written = Whole
    BY <1>3, TextFields DEF PrivateStored, Owns
  <2>3. CASE f # T
    BY <1>1, <1>3, <2>1, <2>3 DEF PrivateStored
  <2>4. CASE f = T
    BY <1>1, <1>3, <2>1, <2>2, <2>4 DEF PrivateStored, Owns
  <2> QED
    BY <2>3, <2>4
<1>4. ASSUME NEW f \in File PROVE FileOK(f)'
  <2>1. CASE f = T
    BY <1>1, <1>3, <2>1 DEF FileOK
  <2>2. CASE f # T /\ file[f] # None
    <3> DEFINE o == file[f].text.owner
    <3>1. o \in Process /\ FileOK(f) /\ file'[f] = file[f]
      BY <1>1, <2>2 DEF IInv, Typed, Content
    <3>2. process[o].pc # "idle" /\ process'[o].pc # "idle"
      BY <2>2, <3>1 DEF FileOK
    <3>3. PrivateStored(o) => PrivateStored(o)'
      BY <1>3, <3>1, <3>2
    <3>4. PrivateStored(file[f].text.owner)' <=>
             PrivateStored(o)'
      BY <3>1 DEF PrivateStored
    <3> QED
      BY <2>2, <3>1, <3>2, <3>3 DEF FileOK, PrivateStored, PrivateFile
  <2>3. CASE f # T /\ file[f] = None
    BY <1>1, <2>3 DEF FileOK
  <2> QED
    BY <2>1, <2>2, <2>3
<1>5. \A q \in Process : OpenOK(q)' /\ SecondOK(q)' /\ DoneOK(q)'
  BY <1>2
<1> QED
  BY <1>4, <1>5 DEF IInv

-----------------------------------------------------------------------------
\* The steps of an invocation.

LEMMA ProcessTyped ==
    ASSUME IInv, NEW p \in Process
    PROVE  /\ process[p] \in ProcessState
           /\ process \in [Process -> ProcessState]
           /\ process[p].pc # "idle" => process[p].path \in Outputs
           /\ Outputs \subseteq [private : Path \cup {None},
                                  public : Path \cup {None}]
BY IdentityFilesAssumption DEF IInv, Typed

LEMMA StartKeepsIInv ==
    ASSUME IInv, NEW p \in Process, Start(p)
    PROVE  IInv'
<1>1. PICK path \in Outputs, pc \in {"failed", "create"} :
         process' = [process EXCEPT ![p] = [pc |-> pc, at |-> 1, path |-> path]]
  BY DEF Start
<1>2. /\ process[p].pc = "idle" /\ UNCHANGED <<file, powerLost>>
      /\ \A q \in Process \ {p} : process'[q] = process[q]
      /\ process'[p] = [pc |-> pc, at |-> 1, path |-> path]
  BY <1>1, ProcessTyped DEF Start
<1>3. Typed'
  <2>1. process' \in [Process -> ProcessState]
    BY <1>1, ProcessTyped DEF ProcessState
  <2>2. \A q \in Process :
           process'[q].pc # "idle" => process'[q].path \in Outputs
    BY <1>2, ProcessTyped
  <2> QED
    BY <1>2, <2>1, <2>2 DEF IInv, Typed
<1>4. OpenOK(p)' /\ SecondOK(p)' /\ DoneOK(p)'
  BY <1>2 DEF OpenOK, SecondOK, DoneOK
<1> QED
  BY <1>2, <1>3, <1>4, CounterStep

LEMMA StopKeepsIInv ==
    ASSUME IInv, NEW p \in Process, Stop(p)
    PROVE  IInv'
<1>1. /\ UNCHANGED <<file, powerLost>> /\ process[p].pc # "idle"
      /\ process' = [process EXCEPT ![p].pc = "failed"]
  BY DEF Stop, Running
<1>2. /\ \A q \in Process \ {p} : process'[q] = process[q]
      /\ process'[p].pc = "failed" /\ process'[p].path = process[p].path
      /\ process' \in [Process -> ProcessState]
  BY <1>1, ProcessTyped DEF ProcessState
<1>3. Typed'
  BY <1>1, <1>2, ProcessTyped DEF IInv, Typed
<1>4. OpenOK(p)' /\ SecondOK(p)' /\ DoneOK(p)'
  BY <1>2 DEF OpenOK, SecondOK, DoneOK, Running
<1> QED
  BY <1>1, <1>2, <1>3, <1>4, CounterStep

\* A new content of a file keeps the types.
LEMMA FileTyped ==
    ASSUME IInv, NEW T \in File, NEW c \in Content,
           file' = [file EXCEPT ![T] = c], UNCHANGED powerLost,
           process' \in [Process -> ProcessState],
           NEW p \in Process, process[p].pc # "idle",
           process'[p].path = process[p].path,
           \A q \in Process \ {p} : process'[q] = process[q]
    PROVE  Typed'
<1>1. file' \in [File -> Content \cup {None}]
  BY DEF IInv, Typed
<1>2. ASSUME NEW q \in Process, process'[q].pc # "idle"
      PROVE  process'[q].path \in Outputs
  <2>1. CASE q = p
    BY <2>1, ProcessTyped
  <2>2. CASE q # p
    BY <1>2, <2>2, ProcessTyped
  <2> QED
    BY <2>1, <2>2
<1> QED
  BY <1>1, <1>2 DEF IInv, Typed

LEMMA CreateKeepsIInv ==
    ASSUME IInv, NEW p \in Process, Create(p)
    PROVE  IInv'
<1>1. PICK T : T = Target(p)
  OBVIOUS
<1>2. PICK kind : kind = Kind(p)
  OBVIOUS
<1>3. process[p].pc = "create" /\ Running(p)
  BY DEF Create, Running
<1>4. /\ T \in File /\ kind \in Kinds /\ process[p].at \in {1, 2}
      /\ process[p].at = 1 => kind = "private"
      /\ process[p].at = 2 => kind = "public"
  BY <1>1, <1>2, <1>3, Targets DEF IInv
<1>5. PICK c : c = [text |-> Text(p, kind, 0), synced |-> FALSE,
                    mode |-> Mode(kind)]
  OBVIOUS
<1>6. /\ file[T] = None /\ file' = [file EXCEPT ![T] = c]
      /\ process' = [process EXCEPT ![p].pc = "write"]
      /\ UNCHANGED powerLost
  BY <1>1, <1>2, <1>5 DEF Create, Opened
<1>7. c \in Content
  BY <1>4, <1>5, TextTyped DEF Content, Mode, Whole
<1>8. /\ \A q \in Process \ {p} : process'[q] = process[q]
      /\ process'[p].pc = "write" /\ process'[p].path = process[p].path
      /\ process'[p].at = process[p].at
      /\ process' \in [Process -> ProcessState]
  BY <1>6, ProcessTyped DEF ProcessState
<1>9. Typed'
  BY <1>3, <1>4, <1>6, <1>7, <1>8, FileTyped
<1>10. /\ c.text.owner = p /\ c.text.kind = kind /\ c.text.node = NodeOf[p]
       /\ c.mode = Mode(kind)
  BY <1>5, TextFields
<1>11. file'[T] = c /\ c # None
  BY <1>4, <1>6, <1>7, NoneIsNoContent DEF IInv, Typed
<1>12. Target(p)' = T /\ Kind(p)' = kind
  BY <1>1, <1>2, <1>8 DEF Target, Kind
<1>13. OpenOK(p)'
  BY <1>8, <1>10, <1>11, <1>12 DEF OpenOK, Owns
<1>14. process[p].at = 2 => PrivateStored(p) /\ file[PrivateFile(p)].synced
  BY <1>3 DEF IInv, SecondOK
<1>15. SecondOK(p)'
  <2>1. SUFFICES ASSUME process[p].at = 2 PROVE SecondOK(p)'
    BY <1>8 DEF SecondOK
  <2>2. PrivateFile(p) # T /\ PrivateFile(p) \in File
    BY <1>3, <1>6, <1>14, <2>1, Targets DEF PrivateStored, IInv
  <2>3. file'[PrivateFile(p)] = file[PrivateFile(p)]
    BY <1>6, <2>2 DEF IInv, Typed
  <2>4. PrivateFile(p)' = PrivateFile(p)
    BY <1>8 DEF PrivateFile
  <2> QED
    BY <1>14, <2>1, <2>3, <2>4 DEF SecondOK, PrivateStored
<1>16. DoneOK(p)'
  BY <1>8 DEF DoneOK
<1>17. kind = "public" => PrivateStored(p)
  BY <1>4, <1>14
<1> QED
  BY <1>3, <1>4, <1>6, <1>7, <1>8, <1>9, <1>10, <1>13, <1>15, <1>16, <1>17,
     FileStep

LEMMA WriteKeepsIInv ==
    ASSUME IInv, NEW p \in Process, WriteSome(p)
    PROVE  IInv'
<1>1. PICK T : T = Target(p)
  OBVIOUS
<1>2. PICK kind : kind = Kind(p)
  OBVIOUS
<1>3. process[p].pc = "write" /\ Running(p)
  BY DEF WriteSome, Running
<1>4. /\ T \in File /\ kind \in Kinds /\ process[p].at \in {1, 2}
      /\ process[p].at = 1 => kind = "private"
      /\ process[p].at = 2 => kind = "public"
  BY <1>1, <1>2, <1>3, Targets DEF IInv
<1>5. Owns(p, T) /\ file[T].text.kind = kind /\ file[T] \in Content
  BY <1>1, <1>2, <1>3, <1>4 DEF IInv, OpenOK, Typed, Owns
<1>6. PICK more \in (file[T].text.written + 1)..Whole :
         /\ file' = [file EXCEPT ![T].text = Text(p, kind, more)]
         /\ process' = [process EXCEPT ![p].pc =
                           IF more = Whole THEN "sync" ELSE "write"]
  BY <1>1, <1>2 DEF WriteSome
<1>7. PICK c : c = [file[T] EXCEPT !.text = Text(p, kind, more)]
  OBVIOUS
<1>8. PICK pc \in {"sync", "write"} :
         pc = IF more = Whole THEN "sync" ELSE "write"
  OBVIOUS
<1>9. file[T].text.written \in 0..Whole /\ Whole = 3
  BY <1>5 DEF Content, Whole
<1>10. more \in 0..Whole /\ file[T].text.written # Whole
  BY <1>6, <1>9
<1>11. Text(p, kind, more) \in
          [owner : Process, node : Node, kind : Kinds, written : 0..Whole]
  BY <1>4, <1>10, TextTyped
<1>12. /\ c \in Content /\ c.text = Text(p, kind, more)
       /\ c.mode = file[T].mode
  BY <1>5, <1>7, <1>11 DEF Content
<1>13. /\ file' = [file EXCEPT ![T] = c] /\ UNCHANGED powerLost
       /\ process' = [process EXCEPT ![p].pc = pc]
  BY <1>6, <1>7, <1>8 DEF WriteSome
<1>14. /\ \A q \in Process \ {p} : process'[q] = process[q]
       /\ process'[p].pc = pc /\ process'[p].path = process[p].path
       /\ process'[p].at = process[p].at
       /\ process' \in [Process -> ProcessState]
  BY <1>13, ProcessTyped DEF ProcessState
<1>15. Typed'
  BY <1>3, <1>4, <1>12, <1>13, <1>14, FileTyped
<1>16. /\ c.text.owner = p /\ c.text.kind = kind /\ c.text.node = NodeOf[p]
       /\ c.text.written = more
  BY <1>12, TextFields
<1>17. c.mode = Mode(kind)
  BY <1>4, <1>5, <1>12 DEF IInv, FileOK, Owns
<1>18. file'[T] = c /\ c # None
  BY <1>4, <1>12, <1>13, NoneIsNoContent DEF IInv, Typed
<1>19. Target(p)' = T /\ Kind(p)' = kind
  BY <1>1, <1>2, <1>14 DEF Target, Kind
<1>20. OpenOK(p)'
  BY <1>8, <1>14, <1>16, <1>18, <1>19 DEF OpenOK, Owns
<1>21. process[p].at = 2 => PrivateStored(p) /\ file[PrivateFile(p)].synced
  BY <1>3 DEF IInv, SecondOK
<1>22. SecondOK(p)'
  <2>1. SUFFICES ASSUME process[p].at = 2 PROVE SecondOK(p)'
    BY <1>14 DEF SecondOK
  <2>2. PrivateFile(p) # T /\ PrivateFile(p) \in File
    BY <1>3, <1>4, <1>5, <1>21, <2>1, Targets, TextFields
       DEF PrivateStored, IInv
  <2>3. file'[PrivateFile(p)] = file[PrivateFile(p)]
    BY <1>13, <2>2 DEF IInv, Typed
  <2>4. PrivateFile(p)' = PrivateFile(p)
    BY <1>14 DEF PrivateFile
  <2> QED
    BY <1>21, <2>1, <2>3, <2>4 DEF SecondOK, PrivateStored
<1>23. DoneOK(p)'
  BY <1>14 DEF DoneOK
<1>24. kind = "public" => PrivateStored(p)
  BY <1>4, <1>21
<1> QED
  BY <1>3, <1>4, <1>5, <1>10, <1>12, <1>13, <1>14, <1>15, <1>16, <1>17, <1>20,
     <1>22, <1>23, <1>24, FileStep

\* A text of this invocation is known by its kind and by how much is written.
LEMMA TextIs ==
    ASSUME IInv, NEW p \in Process, NEW f \in File, Owns(p, f)
    PROVE  /\ file[f] \in Content
           /\ file[f].text =
                 Text(p, file[f].text.kind, file[f].text.written)
<1>1. file[f] \in Content /\ file[f].text.node = NodeOf[p]
  BY DEF IInv, Typed, Owns, FileOK
<1> QED
  BY <1>1 DEF Content, Text, Owns

LEMMA SyncKeepsIInv ==
    ASSUME IInv, NEW p \in Process, Sync(p)
    PROVE  IInv'
<1>1. PICK T : T = Target(p)
  OBVIOUS
<1>2. PICK kind : kind = Kind(p)
  OBVIOUS
<1>3. process[p].pc = "sync" /\ Running(p)
  BY DEF Sync, Running
<1>4. /\ T \in File /\ kind \in Kinds /\ process[p].at \in {1, 2}
      /\ process[p].at = 1 => kind = "private" /\ T = PrivateFile(p)
      /\ process[p].at = 2 => kind = "public" /\ T = PublicFile(p)
      /\ PrivateFile(p) \in File
  BY <1>1, <1>2, <1>3, Targets DEF IInv
<1>5. /\ Owns(p, T) /\ file[T].text.kind = kind /\ file[T] \in Content
      /\ file[T].text = Text(p, kind, Whole)
  BY <1>1, <1>2, <1>3, <1>4, TextIs DEF IInv, OpenOK
<1>6. PICK c : c = [file[T] EXCEPT !.synced = TRUE]
  OBVIOUS
<1>7. PICK state : state = IF process[p].at = 1
                           THEN [process[p] EXCEPT !.pc = "create", !.at = 2]
                           ELSE [process[p] EXCEPT !.pc = "done"]
  OBVIOUS
<1>8. /\ c \in Content /\ c.text = file[T].text /\ c.mode = file[T].mode
      /\ c.synced = TRUE
  BY <1>5, <1>6 DEF Content
<1>9. /\ file' = [file EXCEPT ![T] = c] /\ UNCHANGED powerLost
      /\ process' = [process EXCEPT ![p] = state]
  BY <1>1, <1>6, <1>7 DEF Sync, Synced
<1>10. /\ state \in ProcessState /\ state.path = process[p].path
       /\ process[p].at = 1 => state.pc = "create" /\ state.at = 2
       /\ process[p].at = 2 => state.pc = "done"
       /\ state.pc \in {"create", "done"}
  BY <1>4, <1>7, ProcessTyped DEF ProcessState
<1>11. /\ \A q \in Process \ {p} : process'[q] = process[q]
       /\ process'[p] = state
       /\ process' \in [Process -> ProcessState]
  BY <1>9, <1>10, ProcessTyped
<1>12. Typed'
  BY <1>3, <1>4, <1>8, <1>9, <1>10, <1>11, FileTyped
<1>13. /\ c.text.owner = p /\ c.text.kind = kind /\ c.text.node = NodeOf[p]
       /\ c.mode = Mode(kind)
  BY <1>4, <1>5, <1>8, TextFields DEF IInv, FileOK, Owns
<1>14. file'[T] = c /\ c # None
  BY <1>4, <1>8, <1>9, NoneIsNoContent DEF IInv, Typed
<1>15. PrivateFile(p)' = PrivateFile(p) /\ PublicFile(p)' = PublicFile(p)
  BY <1>10, <1>11 DEF PrivateFile, PublicFile
<1>16. OpenOK(p)'
  BY <1>10, <1>11 DEF OpenOK
<1>17. process[p].at = 2 =>
          PrivateStored(p) /\ file[PrivateFile(p)].synced
  BY <1>3 DEF IInv, SecondOK
<1>18. PrivateStored(p)' /\ file'[PrivateFile(p)].synced
  <2>1. CASE process[p].at = 1
    BY <1>4, <1>5, <1>8, <1>14, <1>15, <2>1 DEF PrivateStored
  <2>2. CASE process[p].at = 2
    <3>1. PrivateFile(p) # T
      BY <1>4, <1>5, <1>17, <2>2, TextFields DEF PrivateStored
    <3>2. file'[PrivateFile(p)] = file[PrivateFile(p)]
      BY <1>4, <1>9, <3>1 DEF IInv, Typed
    <3> QED
      BY <1>15, <1>17, <2>2, <3>2 DEF PrivateStored
  <2> QED
    BY <1>4, <2>1, <2>2
<1>19. SecondOK(p)'
  BY <1>15, <1>18 DEF SecondOK
<1>20. DoneOK(p)'
  <2>1. SUFFICES ASSUME process[p].at = 2 PROVE DoneOK(p)'
    BY <1>4, <1>10, <1>11 DEF DoneOK
  <2>2. DoneFile(p, PrivateFile(p), "private")'
    BY <1>15, <1>18, TextFields DEF DoneFile, PrivateStored, Owns
  <2>3. DoneFile(p, PublicFile(p), "public")'
    BY <1>4, <1>5, <1>8, <1>13, <1>14, <1>15, <2>1 DEF DoneFile, Owns
  <2> QED
    BY <2>2, <2>3 DEF DoneOK
<1>21. kind = "public" => PrivateStored(p)
  BY <1>4, <1>17
<1> QED
  BY <1>3, <1>4, <1>5, <1>8, <1>9, <1>10, <1>11, <1>12, <1>13, <1>16, <1>19,
     <1>20, <1>21, FileStep

-----------------------------------------------------------------------------
\* The steps around it.

LEMMA CleanUpKeepsIInv ==
    ASSUME IInv, NEW p \in Process, CleanUp(p)
    PROVE  IInv'
<1>1. /\ process[p].pc = "failed" /\ UNCHANGED <<process, powerLost>>
      /\ file' = [f \in File |-> IF f \in Leftovers(p) THEN None ELSE file[f]]
  BY DEF CleanUp
<1>2. /\ \A f \in File : file'[f] # None => file'[f] = file[f]
      /\ \A f \in File : file'[f] # file[f] => Owns(p, f)
  BY <1>1 DEF Leftovers, Owns
<1>3. \A f \in File : Owns(p, f) => file'[f] = None
  <2>1. SUFFICES ASSUME NEW f \in File, Owns(p, f), NEW q \in Process,
                        HasOpen(q, f)
                 PROVE  FALSE
    BY <1>1 DEF Leftovers, Owns
  <2>2. Owns(q, f) /\ process[q].pc # "failed"
    BY <2>1 DEF IInv, OpenOK, HasOpen
  <2> QED
    BY <1>1, <2>1, <2>2 DEF Owns
<1>4. Typed'
  BY <1>1 DEF IInv, Typed
<1>5. ASSUME NEW q \in Process, q # p, NEW f \in File, Owns(q, f)
      PROVE  file'[f] = file[f]
  BY <1>2, <1>5 DEF Owns
<1>6. ASSUME NEW q \in Process, process[q].pc # "idle", q # p
      PROVE  PrivateStored(q) => PrivateStored(q)'
  <2>1. PrivateFile(q) \in File /\ PrivateFile(q)' = PrivateFile(q)
    BY <1>1, <1>6, Targets DEF IInv, PrivateFile
  <2> QED
    BY <1>5, <1>6, <2>1, TextFields DEF PrivateStored, Owns
<1>7. ASSUME NEW f \in File PROVE FileOK(f)'
  <2>1. SUFFICES ASSUME file'[f] # None PROVE FileOK(f)'
    BY DEF FileOK
  <2>2. PICK o \in Process : o = file[f].text.owner
    BY <1>2, <2>1 DEF IInv, Typed, Content
  <2>3. file'[f] = file[f] /\ Owns(o, f) /\ o # p
    BY <1>2, <1>3, <2>1, <2>2 DEF Owns
  <2>4. FileOK(f) /\ process[o].pc # "idle"
    BY <2>2, <2>3 DEF IInv, FileOK, Owns
  <2>5. PrivateStored(o) => PrivateStored(o)'
    BY <1>6, <2>3, <2>4
  <2> QED
    BY <1>1, <2>1, <2>2, <2>3, <2>4, <2>5
       DEF FileOK, PrivateStored, PrivateFile
<1>8. ASSUME NEW q \in Process
      PROVE  OpenOK(q)' /\ SecondOK(q)' /\ DoneOK(q)'
  <2>1. CASE q = p
    BY <1>1, <2>1 DEF OpenOK, SecondOK, DoneOK, Running
  <2>2. CASE q # p
    <3>1. OpenOK(q) /\ SecondOK(q) /\ DoneOK(q)
      BY DEF IInv
    <3>2. process[q].pc # "idle" =>
             /\ PrivateFile(q) \in File /\ PublicFile(q) \in File
             /\ Target(q) \in File
      BY Targets DEF IInv
    <3>3. \A f \in File : Owns(q, f)' <=> Owns(q, f)
      BY <1>2, <1>5, <2>2 DEF Owns
    <3>4. OpenOK(q)'
      BY <1>1, <1>5, <2>2, <3>1, <3>2, <3>3 DEF OpenOK, Target, Kind
    <3>5. SecondOK(q)'
      <4>1. ASSUME Running(q), process[q].at = 2
            PROVE  Owns(q, PrivateFile(q)) /\ process[q].pc # "idle"
        BY <3>1, <4>1, TextFields DEF SecondOK, PrivateStored, Owns, Running
      <4> QED
        BY <1>1, <1>5, <2>2, <3>1, <3>2, <4>1
           DEF SecondOK, PrivateStored, PrivateFile, Running
    <3>6. DoneOK(q)'
      BY <1>1, <1>5, <2>2, <3>1, <3>2, <3>3
         DEF DoneOK, DoneFile, PrivateFile, PublicFile
    <3> QED
      BY <3>4, <3>5, <3>6
  <2> QED
    BY <2>1, <2>2
<1> QED
  BY <1>4, <1>7, <1>8 DEF IInv

\* What a power failure leaves of a file: nothing, or a part of its text, all
\* of it if it was synced.
LEMMA PowerLossFiles ==
    ASSUME IInv, PowerLoss, NEW f \in File, file'[f] # None
    PROVE  /\ file[f] \in Content /\ file'[f] \in Content
           /\ file[f].synced => file'[f] = file[f]
           /\ file'[f].mode = file[f].mode
           /\ file'[f].text.owner = file[f].text.owner
           /\ file'[f].text.kind = file[f].text.kind
           /\ file'[f].text.node = file[f].text.node
<1>1. file'[f] \in Survives(file[f])
  BY DEF PowerLoss
<1>2. file[f] \in Content
  BY <1>1 DEF Survives, IInv, Typed
<1>3. CASE file'[f] = file[f]
  BY <1>2, <1>3
<1>4. CASE file'[f] # file[f]
  <2>1. /\ file[f].synced # TRUE
        /\ \E w \in 0..file[f].text.written :
              file'[f] = [file[f] EXCEPT !.text.written = w]
    BY <1>1, <1>2, <1>4 DEF Survives, Content
  <2>2. PICK w \in 0..file[f].text.written :
           file'[f] = [file[f] EXCEPT !.text.written = w]
    BY <2>1
  <2>3. w \in 0..Whole
    BY <1>2, <2>2 DEF Content, Whole
  <2>4. PICK t : t = [file[f].text EXCEPT !.written = w]
    OBVIOUS
  <2>5. /\ t \in [owner : Process, node : Node, kind : Kinds,
                   written : 0..Whole]
        /\ t.owner = file[f].text.owner /\ t.kind = file[f].text.kind
        /\ t.node = file[f].text.node
    BY <1>2, <2>3, <2>4 DEF Content
  <2>6. file'[f] = [file[f] EXCEPT !.text = t]
    BY <2>2, <2>4
  <2> QED
    BY <1>2, <2>1, <2>5, <2>6 DEF Content
<1> QED
  BY <1>3, <1>4

LEMMA PowerLossKeepsIInv ==
    ASSUME IInv, PowerLoss
    PROVE  IInv'
<1>1. powerLost' = TRUE
  BY DEF PowerLoss
<1>2. file' \in [File -> Content \cup {None}]
  <2>1. \E S : file' \in [File -> S]
    BY DEF PowerLoss
  <2>2. \A f \in File : file'[f] \in Content \cup {None}
    BY PowerLossFiles
  <2> QED
    BY <2>1, <2>2
<1>3. \A p \in Process :
         /\ process'[p].path = process[p].path
         /\ process'[p].pc \notin {"create", "write", "sync"}
         /\ process'[p].pc = "done" => process[p].pc = "done"
         /\ process'[p].pc = "idle" <=> process[p].pc = "idle"
         /\ process'[p] \in ProcessState
  BY ProcessTyped DEF PowerLoss, Running, ProcessState
<1>4. process' \in [Process -> ProcessState]
  BY <1>3 DEF PowerLoss
<1>5. Typed'
  BY <1>1, <1>2, <1>3, <1>4 DEF IInv, Typed
<1>6. ASSUME NEW f \in File PROVE FileOK(f)'
  <2>1. SUFFICES ASSUME file'[f] # None PROVE FileOK(f)'
    BY DEF FileOK
  <2>2. FileOK(f) /\ file[f] # None /\ file[f].text.owner \in Process
    BY <2>1, PowerLossFiles, NoneIsNoContent DEF IInv, Content
  <2> QED
    BY <1>1, <1>3, <2>1, <2>2, PowerLossFiles DEF FileOK
<1>7. ASSUME NEW p \in Process PROVE OpenOK(p)' /\ SecondOK(p)'
  BY <1>3 DEF OpenOK, SecondOK, Running
<1>8. ASSUME NEW p \in Process PROVE DoneOK(p)'
  <2>1. SUFFICES ASSUME process'[p].pc = "done" PROVE DoneOK(p)'
    BY DEF DoneOK
  <2>2. process[p].pc = "done" /\ DoneOK(p)
    BY <1>3, <2>1 DEF IInv
  <2>3. /\ PrivateFile(p) \in File /\ PublicFile(p) \in File
        /\ PrivateFile(p)' = PrivateFile(p) /\ PublicFile(p)' = PublicFile(p)
    BY <1>3, <2>2, Targets DEF IInv, PrivateFile, PublicFile
  <2>4. ASSUME NEW f \in File, NEW kind, DoneFile(p, f, kind)
        PROVE  DoneFile(p, f, kind)'
    <3>1. CASE Owns(p, f)'
      <4>1. Owns(p, f)
        BY <3>1, PowerLossFiles, NoneIsNoContent DEF Owns
      <4> QED
        BY <2>4, <3>1, <4>1, PowerLossFiles DEF DoneFile, Owns
    <3>2. CASE ~Owns(p, f)'
      BY <1>1, <3>2 DEF DoneFile
    <3> QED
      BY <3>1, <3>2
  <2> QED
    BY <2>2, <2>3, <2>4 DEF DoneOK
<1> QED
  BY <1>5, <1>6, <1>7, <1>8 DEF IInv

-----------------------------------------------------------------------------
LEMMA NextIInv == IInv /\ [Next]_vars => IInv'
<1> SUFFICES ASSUME IInv, [Next]_vars PROVE IInv'
  OBVIOUS
<1>1. ASSUME NEW p \in Process, Generate(p) PROVE IInv'
  BY <1>1, StartKeepsIInv, CreateKeepsIInv, WriteKeepsIInv, SyncKeepsIInv,
     StopKeepsIInv DEF Generate
<1>2. ASSUME NEW p \in Process, CleanUp(p) PROVE IInv'
  BY <1>2, CleanUpKeepsIInv
<1>3. CASE PowerLoss
  BY <1>3, PowerLossKeepsIInv
<1>4. CASE UNCHANGED <<process, file, powerLost>>
  <2>1. Typed'
    BY <1>4 DEF IInv, Typed
  <2>2. \A f \in File : FileOK(f)'
    BY <1>4 DEF IInv, FileOK, PrivateStored, PrivateFile
  <2>3. \A p \in Process : OpenOK(p)' /\ SecondOK(p)' /\ DoneOK(p)'
    BY <1>4 DEF IInv, OpenOK, SecondOK, DoneOK, DoneFile, Owns, Target, Kind,
       Running, PrivateStored, PrivateFile, PublicFile
  <2> QED
    BY <2>1, <2>2, <2>3 DEF IInv
<1>5. ASSUME NEW f \in File, Enrol(f) PROVE IInv'
  BY <1>4, <1>5 DEF Enrol
<1>6. CASE UNCHANGED vars
  BY <1>4, <1>6 DEF vars
<1> QED
  BY <1>1, <1>2, <1>3, <1>5, <1>6 DEF Next

LEMMA Invariance == Spec => []IInv
<1>1. QED
  BY InitIInv, NextIInv, PTL DEF Spec

-----------------------------------------------------------------------------
\* Whatever paths the invocations are given, the bytes of a key are only ever
\* in a file its owner alone may read.
THEOREM SecretsStayPrivate == Spec => []SecretStaysPrivate
<1>1. IInv => SecretStaysPrivate
  BY DEF IInv, FileOK, SecretStaysPrivate, Mode
<1> QED
  BY <1>1, Invariance, PTL

\* Whoever is killed and whatever is cleaned up, an authorization file means a
\* whole private identity, up to a power failure.
THEOREM PublicMeansPrivate == Spec => []PublicHasPrivate
<1>1. IInv => PublicHasPrivate
  BY DEF IInv, FileOK, PublicHasPrivate, PrivateStored, PrivateFile, Paths
<1> QED
  BY <1>1, Invariance, PTL

\* What generate reported stays: the files are whole, or a power failure took
\* their names.
THEOREM SuccessIsForGood == Spec => []SuccessIsDurable
<1>1. IInv => SuccessIsDurable
  BY DEF IInv, DoneOK, DoneFile, Owns, SuccessIsDurable, PrivateFile,
     PublicFile, Paths
<1> QED
  BY <1>1, Invariance, PTL

Keeps(f) ==
    file[f] # None /\ file'[f] # None =>
        /\ file'[f].text.owner = file[f].text.owner
        /\ file'[f].text.kind = file[f].text.kind
        /\ file'[f].mode = file[f].mode
        /\ file'[f].text.written < file[f].text.written =>
              powerLost' /\ ~powerLost

\* Both operations on an open file keep all of its text.
LEMMA OpenFileKept ==
    ASSUME IInv, NEW p \in Process, WriteSome(p) \/ Sync(p), NEW f \in File
    PROVE  Keeps(f)
<1>1. PICK T : T = Target(p)
  OBVIOUS
<1>2. PICK kind : kind = Kind(p)
  OBVIOUS
<1>3. process[p].pc \in {"write", "sync"}
  BY DEF WriteSome, Sync
<1>4. T \in File /\ Owns(p, T) /\ file[T].text.kind = kind
  BY <1>1, <1>2, <1>3, Targets DEF IInv, OpenOK
<1>5. file[T] \in Content /\ file[T].text.written \in 0..3
  BY <1>4, TextIs DEF Content, Whole
<1>6. ASSUME f # T PROVE file'[f] = file[f] \/ f \notin DOMAIN file
  BY <1>1, <1>6 DEF WriteSome, Sync
<1>7. file \in [File -> Content \cup {None}]
  BY DEF IInv, Typed
<1>8. CASE f # T
  <2>1. file'[f] = file[f]
    BY <1>6, <1>7, <1>8
  <2>2. file[f] # None => file[f].text.written \in 0..3
    BY <1>7 DEF Content, Whole
  <2> QED
    BY <2>1, <2>2 DEF Keeps
<1>9. CASE f = T /\ WriteSome(p)
  <2>1. PICK more \in (file[T].text.written + 1)..Whole :
           file' = [file EXCEPT ![T].text = Text(p, kind, more)]
    BY <1>1, <1>2, <1>9 DEF WriteSome
  <2>2. /\ file'[T].text = Text(p, kind, more)
        /\ file'[T].mode = file[T].mode
    BY <1>4, <1>5, <1>7, <2>1 DEF Content
  <2>3. ~(more < file[T].text.written)
    BY <1>5, <2>1 DEF Whole
  <2> QED
    BY <1>4, <1>9, <2>2, <2>3, TextFields DEF Keeps, Owns
<1>10. CASE f = T /\ Sync(p)
  <2>1. file'[T].text = file[T].text /\ file'[T].mode = file[T].mode
    BY <1>1, <1>4, <1>5, <1>7, <1>10 DEF Sync, Synced, Content
  <2> QED
    BY <1>5, <1>10, <2>1 DEF Keeps
<1> QED
  BY <1>8, <1>9, <1>10

\* No step overwrites a file: whatever it was, it stays, is removed, or loses
\* text to the power failure.
THEOREM FilesKept == Spec => NothingOverwritten
<1>1. ASSUME IInv, [Next]_vars, NEW f \in File PROVE Keeps(f)
  <2>1. file[f] # None => file[f].text.written \in 0..3
    BY <1>1 DEF IInv, Typed, Content, Whole
  <2>2. CASE file'[f] = file[f]
    BY <2>1, <2>2 DEF Keeps
  <2>3. ASSUME NEW p \in Process, WriteSome(p) \/ Sync(p) PROVE Keeps(f)
    BY <1>1, <2>3, OpenFileKept
  <2>4. ASSUME NEW p \in Process, Create(p) PROVE Keeps(f)
    <3>1. PICK T : T = Target(p)
      OBVIOUS
    <3>2. file[T] = None
      BY <2>4, <3>1 DEF Create, Opened
    <3>3. f # T => file'[f] = file[f]
      BY <1>1, <2>4, <3>1 DEF Create, IInv, Typed
    <3> QED
      BY <2>2, <3>2, <3>3 DEF Keeps
  <2>5. ASSUME NEW p \in Process, CleanUp(p) PROVE Keeps(f)
    <3>1. file'[f] = None \/ file'[f] = file[f]
      BY <2>5 DEF CleanUp
    <3> QED
      BY <2>2, <3>1 DEF Keeps
  <2>6. CASE PowerLoss
    <3>1. powerLost' /\ ~powerLost
      BY <2>6 DEF PowerLoss
    <3>2. file'[f] # None =>
             /\ file'[f].mode = file[f].mode
             /\ file'[f].text.owner = file[f].text.owner
             /\ file'[f].text.kind = file[f].text.kind
      BY <1>1, <2>6, PowerLossFiles
    <3> QED
      BY <3>1, <3>2 DEF Keeps
  <2>7. ASSUME NEW p \in Process, Start(p) \/ Stop(p) PROVE Keeps(f)
    BY <2>2, <2>7 DEF Start, Stop
  <2>8. ASSUME NEW g \in File, Enrol(g) PROVE Keeps(f)
    BY <2>2, <2>8 DEF Enrol
  <2>9. CASE UNCHANGED vars
    BY <2>2, <2>9 DEF vars
  <2> QED
    BY <1>1, <2>3, <2>4, <2>5, <2>6, <2>7, <2>8, <2>9 DEF Next, Generate
<1>2. IInv /\ [Next]_vars => [\A f \in File : Keeps(f)]_vars
  BY <1>1
<1>3. Spec => [][\A f \in File : Keeps(f)]_vars
  BY <1>2, Invariance, PTL DEF Spec
<1> QED
  BY <1>3 DEF Keeps, NothingOverwritten

-----------------------------------------------------------------------------
\* Every set of numbers that is not empty has a least one.
LEMMA LeastNumber ==
    ASSUME NEW S, S \subseteq Nat, S # {}
    PROVE  \E m \in S : \A k \in S : m <= k
<1>1. PICK R : R = OpToRel(<, Nat)
  OBVIOUS
<1>2. IsWellFoundedOn(R, Nat)
  BY <1>1, NatLessThanWellFounded
<1>3. PICK m \in S : \A k \in S : <<k, m>> \notin R
  BY <1>2, WFMin
<1>4. \A k, l \in Nat : k < l => <<k, l>> \in R
  BY <1>1 DEF OpToRel
<1>5. ASSUME NEW k \in S PROVE m <= k
  <2>1. m \in Nat /\ k \in Nat
    BY <1>5
  <2>2. ~(k < m)
    BY <1>3, <1>4, <1>5, <2>1
  <2> QED
    BY <2>1, <2>2
<1> QED
  BY <1>3, <1>5

\* Induction, for sets of numbers.
LEMMA Induction ==
    ASSUME NEW S, 0 \in S, \A n \in Nat : n \in S => n + 1 \in S
    PROVE  Nat \subseteq S
<1>1. SUFFICES ASSUME ~(Nat \subseteq S) PROVE FALSE
  OBVIOUS
<1>2. PICK m \in Nat \ S : \A k \in Nat \ S : m <= k
  BY <1>1, LeastNumber
<1>3. m # 0 /\ m - 1 \in Nat
  BY <1>2
<1>4. m - 1 \in S
  BY <1>2, <1>3
<1> QED
  BY <1>2, <1>3, <1>4

-----------------------------------------------------------------------------
\* Loading an authorization file, one text after the other.

Turns(loaded, texts, n) ==
    loaded = [i \in 0..n |->
                 IF i = 0 THEN NoKeys
                 ELSE Insert(loaded[i - 1], texts[i], Terminated(texts, i))]

LEMMA TurnsExist ==
    ASSUME NEW texts
    PROVE  \A n \in Nat : \E loaded : Turns(loaded, texts, n)
<1>1. PICK S : S = {n \in Nat : \E loaded : Turns(loaded, texts, n)}
  OBVIOUS
<1>2. 0 \in S
  <2>1. Turns([i \in 0..0 |-> NoKeys], texts, 0)
    BY DEF Turns
  <2> QED
    BY <1>1, <2>1
<1>3. ASSUME NEW n \in Nat, n \in S PROVE n + 1 \in S
  <2>1. PICK r : Turns(r, texts, n)
    BY <1>1, <1>3
  <2>2. PICK last :
           last = Insert(r[n], texts[n + 1], Terminated(texts, n + 1))
    OBVIOUS
  <2>3. PICK q : q = [i \in 0..(n + 1) |-> IF i = n + 1 THEN last ELSE r[i]]
    OBVIOUS
  <2>4. /\ q[n + 1] = last /\ q[n] = r[n]
        /\ \A i \in 0..n : q[i] = r[i]
    BY <2>3
  <2>5. ASSUME NEW i \in 0..(n + 1)
        PROVE  q[i] = IF i = 0 THEN NoKeys
                      ELSE Insert(q[i - 1], texts[i], Terminated(texts, i))
    <3>1. CASE i = n + 1
      BY <2>2, <2>4, <3>1
    <3>2. CASE i \in 0..n
      <4>1. r[i] = IF i = 0 THEN NoKeys
                   ELSE Insert(r[i - 1], texts[i], Terminated(texts, i))
        BY <2>1, <3>2 DEF Turns
      <4>2. q[i] = r[i] /\ (i # 0 => q[i - 1] = r[i - 1])
        BY <2>4, <3>2
      <4> QED
        BY <4>1, <4>2
    <3> QED
      BY <2>5, <3>1, <3>2
  <2>6. Turns(q, texts, n + 1)
    BY <2>3, <2>5 DEF Turns
  <2> QED
    BY <1>1, <2>6
<1> QED
  BY <1>1, <1>2, <1>3, Induction

LEMMA AuthorizationsTurns ==
    ASSUME NEW texts, Len(texts) \in Nat
    PROVE  \E loaded :
              /\ Turns(loaded, texts, Len(texts))
              /\ Authorizations(texts) =
                    IF loaded[Len(texts)] = NoKeys THEN None
                    ELSE loaded[Len(texts)]
<1>1. PICK r : r = CHOOSE q : Turns(q, texts, Len(texts))
  OBVIOUS
<1>2. Turns(r, texts, Len(texts))
  BY <1>1, TurnsExist
<1>3. Authorizations(texts) =
         IF r[Len(texts)] = NoKeys THEN None ELSE r[Len(texts)]
  BY <1>1 DEF Authorizations, Turns
<1> QED
  BY <1>2, <1>3

\* The keys are those of the first n texts, one of each node.
Registers(keys, texts, n) ==
    /\ DOMAIN keys = {texts[j].node : j \in 1..n}
    /\ \A j \in 1..n : keys[texts[j].node] = texts[j].owner
    /\ \A j, k \in 1..n : texts[j].node = texts[k].node => j = k

\* One turn of the loop registers one more text, or fails.
LEMMA InsertRegisters ==
    ASSUME NEW texts, NEW n \in Nat, NEW keys, Registers(keys, texts, n),
           NEW terminated,
           Insert(keys, texts[n + 1], terminated) # None
    PROVE  Registers(Insert(keys, texts[n + 1], terminated), texts, n + 1)
<1>1. PICK node : node = texts[n + 1].node
  OBVIOUS
<1>2. PICK owner : owner = texts[n + 1].owner
  OBVIOUS
<1>3. PICK more :
         more = [m \in DOMAIN keys \cup {node} |->
                    IF m = node THEN owner ELSE keys[m]]
  OBVIOUS
<1>4. /\ node \notin DOMAIN keys
      /\ Insert(keys, texts[n + 1], terminated) = more
  BY <1>1, <1>2, <1>3 DEF Insert, decode_hex_array, With
<1>5. /\ DOMAIN more = DOMAIN keys \cup {node} /\ more[node] = owner
      /\ \A m \in DOMAIN keys : m # node => more[m] = keys[m]
  BY <1>3
<1>6. 1..(n + 1) = (1..n) \cup {n + 1}
  OBVIOUS
<1>7. DOMAIN more = {texts[j].node : j \in 1..(n + 1)}
  BY <1>1, <1>5, <1>6 DEF Registers
<1>8. \A j \in 1..n : texts[j].node \in DOMAIN keys
  BY DEF Registers
<1>9. \A j \in 1..(n + 1) : more[texts[j].node] = texts[j].owner
  BY <1>1, <1>2, <1>4, <1>5, <1>6, <1>8 DEF Registers
<1>10. \A j, k \in 1..(n + 1) : texts[j].node = texts[k].node => j = k
  BY <1>1, <1>4, <1>6, <1>8 DEF Registers
<1> QED
  BY <1>4, <1>7, <1>9, <1>10 DEF Registers

\* What a file that loads gives.
LEMMA LoadedRegisters ==
    ASSUME NEW texts, Len(texts) \in Nat, Authorizations(texts) # None
    PROVE  Registers(Authorizations(texts), texts, Len(texts))
<1>1. PICK n \in Nat : n = Len(texts)
  OBVIOUS
<1>2. PICK r : /\ Turns(r, texts, n)
               /\ Authorizations(texts) =
                     IF r[n] = NoKeys THEN None ELSE r[n]
  BY <1>1, AuthorizationsTurns
<1>3. \A i \in 0..n :
         r[i] = IF i = 0 THEN NoKeys
                ELSE Insert(r[i - 1], texts[i], Terminated(texts, i))
  BY <1>2 DEF Turns
<1>4. PICK G : G = {i \in Nat : i <= n =>
                       r[i] = None \/ Registers(r[i], texts, i)}
  OBVIOUS
<1>5. 0 \in G
  <2>1. r[0] = NoKeys
    BY <1>3
  <2>2. Registers(NoKeys, texts, 0)
    BY DEF Registers, NoKeys
  <2> QED
    BY <1>4, <2>1, <2>2
<1>6. ASSUME NEW i \in Nat, i \in G PROVE i + 1 \in G
  <2>1. SUFFICES ASSUME i + 1 <= n, r[i + 1] # None
                 PROVE  Registers(r[i + 1], texts, i + 1)
    BY <1>4
  <2>2. r[i + 1] = Insert(r[i], texts[i + 1], Terminated(texts, i + 1))
    BY <1>3, <2>1
  <2>3. r[i] # None
    BY <2>1, <2>2 DEF Insert
  <2>4. Registers(r[i], texts, i)
    BY <1>4, <1>6, <2>1, <2>3
  <2> QED
    BY <2>1, <2>2, <2>4, InsertRegisters
<1>7. n \in G
  BY <1>5, <1>6, Induction
<1>8. Authorizations(texts) = r[n] /\ r[n] # None
  BY <1>2
<1> QED
  BY <1>1, <1>4, <1>7, <1>8

-----------------------------------------------------------------------------
\* An enrolled text names the node of the invocation that wrote it.
EnrolledOK ==
    /\ enrolled \in Seq([owner : Process, node : Node, kind : Kinds,
                         written : 0..Whole])
    /\ \A i \in DOMAIN enrolled : enrolled[i].node = NodeOf[enrolled[i].owner]

LEMMA EnrolKeepsEnrolledOK ==
    ASSUME IInv, EnrolledOK, NEW f \in File, Enrol(f)
    PROVE  EnrolledOK'
<1>1. PICK T : T = [owner : Process, node : Node, kind : Kinds,
                    written : 0..Whole]
  OBVIOUS
<1>2. file[f] # None /\ enrolled' = Append(enrolled, file[f].text)
  BY DEF Enrol
<1>3. file[f].text \in T /\ file[f].text.node = NodeOf[file[f].text.owner]
  <2>1. file[f] \in Content
    BY <1>2 DEF IInv, Typed
  <2> QED
    BY <1>1, <1>2, <2>1 DEF Content, IInv, FileOK
<1>4. PICK text \in T : text = file[f].text
  BY <1>3
<1>5. enrolled \in Seq(T)
  BY <1>1 DEF EnrolledOK
<1>6. /\ enrolled' \in Seq(T)
      /\ \A i \in DOMAIN enrolled' :
            \/ i \in DOMAIN enrolled /\ enrolled'[i] = enrolled[i]
            \/ enrolled'[i] = text
  BY <1>2, <1>4, <1>5
<1> QED
  BY <1>1, <1>3, <1>4, <1>6 DEF EnrolledOK

LEMMA EnrolledCorrect == Spec => []EnrolledOK
<1>1. Init => EnrolledOK
  BY DEF Init, EnrolledOK
<1>2. ASSUME IInv, EnrolledOK, [Next]_vars PROVE EnrolledOK'
  <2>1. CASE UNCHANGED enrolled
    BY <1>2, <2>1 DEF EnrolledOK
  <2>2. ASSUME NEW f \in File, Enrol(f) PROVE EnrolledOK'
    BY <1>2, <2>2, EnrolKeepsEnrolledOK
  <2> QED
    BY <1>2, <2>1, <2>2 DEF Next, Generate, Start, Create, WriteSome, Sync,
       Stop, CleanUp, PowerLoss, vars
<1> QED
  BY <1>1, <1>2, Invariance, PTL DEF Spec

\* For any texts, appended in any order and torn at any place: a file that
\* loads gives every node in it the key of its only line.
THEOREM AuthorizationsAreClear == Spec => []AuthorizationsAreUnambiguous
<1>1. ASSUME EnrolledOK PROVE AuthorizationsAreUnambiguous
  <2>1. Len(enrolled) \in Nat /\ DOMAIN enrolled = 1..Len(enrolled)
    BY <1>1 DEF EnrolledOK
  <2>2. Authorizations(enrolled) # None =>
           Registers(Authorizations(enrolled), enrolled, Len(enrolled))
    BY <2>1, LoadedRegisters
  <2> QED
    BY <2>1, <2>2 DEF AuthorizationsAreUnambiguous, Registers
<1> QED
  BY <1>1, EnrolledCorrect, PTL

\* Whatever is read, and whenever, is a generated key of the node it is read
\* for, or an error.
THEOREM LoadedKeysAreGenerated == Spec => []OnlyGeneratedKeysLoad
<1>1. ASSUME IInv, NEW f \in File, load_identity(f) # None
      PROVE  /\ load_identity(f).key \in Process
             /\ NodeOf[load_identity(f).key] = load_identity(f).node
  <2>1. file[f] # None /\ file[f] \in Content
    BY <1>1 DEF load_identity, IInv, Typed
  <2>2. load_identity(f) = [node |-> file[f].text.node,
                            key |-> file[f].text.owner]
    BY <1>1 DEF load_identity, decode_hex_array
  <2> QED
    BY <1>1, <2>1, <2>2 DEF Content, IInv, FileOK
<1>2. ASSUME EnrolledOK, Authorizations(enrolled) # None,
             NEW n \in DOMAIN Authorizations(enrolled)
      PROVE  /\ Authorizations(enrolled)[n] \in Process
             /\ NodeOf[Authorizations(enrolled)[n]] = n
  <2>1. Len(enrolled) \in Nat /\ DOMAIN enrolled = 1..Len(enrolled)
    BY <1>2 DEF EnrolledOK
  <2>2. Registers(Authorizations(enrolled), enrolled, Len(enrolled))
    BY <1>2, <2>1, LoadedRegisters
  <2>3. PICK j \in 1..Len(enrolled) : n = enrolled[j].node
    BY <1>2, <2>2 DEF Registers
  <2>4. Authorizations(enrolled)[n] = enrolled[j].owner
    BY <2>2, <2>3 DEF Registers
  <2>5. enrolled[j].owner \in Process
    <3>1. PICK T : T = [owner : Process, node : Node, kind : Kinds,
                        written : 0..Whole]
      OBVIOUS
    <3>2. enrolled \in Seq(T) /\ j \in 1..Len(enrolled)
      BY <1>2, <3>1 DEF EnrolledOK
    <3>3. enrolled[j] \in T
      BY <3>2
    <3> QED
      BY <3>1, <3>3
  <2> QED
    BY <1>2, <2>1, <2>3, <2>4, <2>5 DEF EnrolledOK
<1>3. IInv /\ EnrolledOK => OnlyGeneratedKeysLoad
  BY <1>1, <1>2 DEF OnlyGeneratedKeysLoad
<1> QED
  BY <1>3, Invariance, EnrolledCorrect, PTL
=============================================================================
