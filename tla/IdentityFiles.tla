---------------------------- MODULE IdentityFiles ----------------------------
(* identity-generate of src/src/identity.rs: processes that each create a   *)
(* private identity and a public authorization file, while others run, an   *)
(* operator cleans up and enrols, processes are killed and the machine      *)
(* loses power.  A text is known by how much of it is in the file: nothing, *)
(* a torn part, all but the last newline, or all.  A definition named X_Y   *)
(* is X with the plausible bug Y.                                           *)
EXTENDS Naturals, Sequences

CONSTANTS Process,   \* invocations of identity-generate, and their fresh keys
          Node, NodeOf,  \* [Process -> Node]: the node ID of the command
          Path, File,
          FileOf,    \* [Path -> File]: unequal paths may name one file
          Outputs,   \* the pairs of paths, private and public, it may be given
          None,
          MaxLines   \* bound of the model: texts the operator has enrolled

ASSUME IdentityFilesAssumption ==
    /\ NodeOf \in [Process -> Node]
    /\ FileOf \in [Path -> File]
    /\ Outputs \subseteq [private : Path, public : Path]
    /\ MaxLines \in Nat
    /\ None \notin [text : [owner : Process, node : Node,
                           kind : {"private", "public"}, written : 0..3],
                   synced : BOOLEAN, mode : {"0600", "0644"}]

VARIABLES process,   \* local state of each invocation
          file,      \* what each file holds, None if it does not exist
          enrolled,  \* the texts concatenated in the authorization file in use
          powerLost  \* history: has the machine lost power?

vars == <<process, file, enrolled, powerLost>>

Torn == 1
Unterminated == 2
Whole == 3

Mode(kind) == IF kind = "private" THEN "0600" ELSE "0644"
Text(p, kind, written) ==
    [owner |-> p, node |-> NodeOf[p], kind |-> kind, written |-> written]

Order_PublicFirst == <<"public", "private">>
\* The order of the two calls of write_new in generate.
Order == <<"private", "public">>

Running(p) == process[p].pc \in {"create", "write", "sync"}

Init ==
    /\ process = [p \in Process |->
                     [pc |-> "idle", at |-> 1,
                      path |-> [private |-> None, public |-> None]]]
    /\ file = [f \in File |-> None]
    /\ enrolled = << >>
    /\ powerLost = FALSE

-----------------------------------------------------------------------------
\* generate and its two calls of write_new.

\* valid_node_id holds; the paths are compared as texts, then a key is drawn.
Start(p) ==
    /\ process[p].pc = "idle"
    /\ \E path \in Outputs :
          process' = [process EXCEPT ![p] =
              [pc |-> IF path.private = path.public THEN "failed" ELSE "create",
               at |-> 1, path |-> path]]
    /\ UNCHANGED <<file, enrolled, powerLost>>

Kind(p) == Order[process[p].at]
Target(p) == FileOf[process[p].path[Kind(p)]]

Opened_Truncates(f, p) ==
    [text |-> Text(p, Kind(p), 0), synced |-> FALSE,
     mode |-> IF file[f] = None THEN Mode(Kind(p)) ELSE file[f].mode]

\* What opening the file for writing leaves in it; None if that is refused:
\* with create_new the file must not exist.
Opened(f, p) ==
    IF file[f] # None THEN None
    ELSE [text |-> Text(p, Kind(p), 0), synced |-> FALSE,
          mode |-> Mode(Kind(p))]

Create(p) ==
    /\ process[p].pc = "create"
    /\ Opened(Target(p), p) # None
    /\ file' = [file EXCEPT ![Target(p)] = Opened(Target(p), p)]
    /\ process' = [process EXCEPT ![p].pc = "write"]
    /\ UNCHANGED <<enrolled, powerLost>>

\* write_all may take several writes.
WriteSome(p) ==
    /\ process[p].pc = "write"
    /\ \E more \in (file[Target(p)].text.written + 1)..Whole :
          /\ file' = [file EXCEPT ![Target(p)].text = Text(p, Kind(p), more)]
          /\ process' = [process EXCEPT ![p].pc =
                            IF more = Whole THEN "sync" ELSE "write"]
    /\ UNCHANGED <<enrolled, powerLost>>

Synced_Never(f) == file[f]
Synced(f) == [file[f] EXCEPT !.synced = TRUE]

\* sync_all; generate goes on to the public file, or reports success.
Sync(p) ==
    /\ process[p].pc = "sync"
    /\ file' = [file EXCEPT ![Target(p)] = Synced(Target(p))]
    /\ process' = [process EXCEPT ![p] =
           IF @.at = 1 THEN [@ EXCEPT !.pc = "create", !.at = 2]
           ELSE [@ EXCEPT !.pc = "done"]]
    /\ UNCHANGED <<enrolled, powerLost>>

\* open, write_all or sync_all fails, and generate returns; or the process is
\* killed.  Nothing is removed.
Stop(p) ==
    /\ Running(p)
    /\ process' = [process EXCEPT ![p].pc = "failed"]
    /\ UNCHANGED <<file, enrolled, powerLost>>

-----------------------------------------------------------------------------
\* Around it.

\* The data of a file are safe once it is synced, up to then any part of them
\* may be; its name is safe once its directory is, which no call syncs.
Survives(content) ==
    {None, content} \cup
        IF content = None \/ content.synced THEN {}
        ELSE {[content EXCEPT !.text.written = w] :
                 w \in 0..content.text.written}

PowerLoss ==
    /\ ~powerLost
    /\ powerLost' = TRUE
    /\ file' \in {g \in [File -> UNION {Survives(file[f]) : f \in File}] :
                     \A f \in File : g[f] \in Survives(file[f])}
    /\ process' = [p \in Process |->
                      IF Running(p) THEN [process[p] EXCEPT !.pc = "failed"]
                      ELSE process[p]]
    /\ UNCHANGED enrolled

HasOpen(p, f) == process[p].pc \in {"write", "sync"} /\ Target(p) = f

Leftovers(p) ==
    {f \in File : /\ file[f] # None
                  /\ file[f].text.owner = p
                  /\ \A q \in Process : ~HasOpen(q, f)}

\* The operator removes what an unsuccessful invocation left, to try again.
CleanUp(p) ==
    /\ process[p].pc = "failed"
    /\ Leftovers(p) # {}
    /\ file' = [f \in File |-> IF f \in Leftovers(p) THEN None ELSE file[f]]
    /\ UNCHANGED <<process, enrolled, powerLost>>

\* The operator appends what a public file holds to the authorization file in
\* use.
Enrol(f) ==
    /\ file[f] # None
    /\ file[f].text.kind = "public"
    /\ file[f].text.written > 0
    /\ Len(enrolled) < MaxLines
    /\ enrolled' = Append(enrolled, file[f].text)
    /\ UNCHANGED <<process, file, powerLost>>

Generate(p) ==
    Start(p) \/ Create(p) \/ WriteSome(p) \/ Sync(p) \/ Stop(p)

Next ==
    \/ \E p \in Process : Generate(p) \/ CleanUp(p)
    \/ \E f \in File : Enrol(f)
    \/ PowerLoss

Spec == Init /\ [][Next]_vars

-----------------------------------------------------------------------------
\* What other commands read from the files, at any time.

decode_hex_array_AnyLength(text) ==
    IF text.written >= Unterminated THEN text.owner
    ELSE <<"part of", text.owner>>

\* The key in a text; a torn text lacks a field or hexadecimal digits.
decode_hex_array(text) ==
    IF text.written >= Unterminated THEN text.owner ELSE None

load_identity(f) ==
    IF \/ file[f] = None
       \/ file[f].text.kind # "private"
       \/ file[f].text.written = 0
       \/ decode_hex_array(file[f].text) = None
    THEN None
    ELSE [node |-> file[f].text.node, key |-> decode_hex_array(file[f].text)]

\* HashMap::insert.
With(keys, node, key) ==
    [n \in DOMAIN keys \cup {node} |-> IF n = node THEN key ELSE keys[n]]

Insert_LastWins(keys, text, terminated) ==
    IF keys = None \/ text.kind # "public" \/ ~terminated
       \/ decode_hex_array(text) = None
    THEN None
    ELSE With(keys, text.node, decode_hex_array(text))

\* One turn of the loop of Authorizations::load, None once it has failed.  A
\* text without its newline runs into the next, and their line has five fields.
Insert(keys, text, terminated) ==
    IF keys = None \/ text.kind # "public" \/ ~terminated
       \/ decode_hex_array(text) = None
       \/ text.node \in DOMAIN keys
    THEN None
    ELSE With(keys, text.node, decode_hex_array(text))

NoKeys == [n \in {} |-> None]

Terminated(texts, i) == texts[i].written = Whole \/ i = Len(texts)

Authorizations(texts) ==
    LET loaded[i \in 0..Len(texts)] ==
            IF i = 0 THEN NoKeys
            ELSE Insert(loaded[i - 1], texts[i], Terminated(texts, i))
        keys == loaded[Len(texts)]
    IN IF keys = NoKeys THEN None ELSE keys

-----------------------------------------------------------------------------
Paths(p) == process[p].path

\* readme.md:687: key generation refuses to overwrite either output.  Whatever
\* other invocations use the same files under these or other names, a file
\* keeps its owner, its kind and its mode for as long as it exists, and loses
\* none of its text but to a power failure.
NothingOverwritten ==
    [][\A f \in File : file[f] # None /\ file'[f] # None =>
          /\ file'[f].text.owner = file[f].text.owner
          /\ file'[f].text.kind = file[f].text.kind
          /\ file'[f].mode = file[f].mode
          /\ file'[f].text.written < file[f].text.written =>
                powerLost' /\ ~powerLost]_vars

\* readme.md:684-686: secret bytes are only ever in a file its owner alone may
\* read, although a process may be told to write where another one's public
\* file is or is about to be.
SecretStaysPrivate ==
    \A f \in File :
        file[f] # None /\ file[f].text.kind = "private" => file[f].mode = "0600"

\* An authorization file, even one just created, means that its private
\* identity was written whole: nobody can be enrolled whose key is lost to a
\* failure or a kill in between.  Only a power failure may take the private
\* file, whose directory entry nothing syncs.
PublicHasPrivate ==
    \A f \in File : file[f] # None /\ file[f].text.kind = "public" =>
        LET p == file[f].text.owner
            private == FileOf[Paths(p).private] IN
        \/ /\ file[private] # None
           /\ file[private].text = Text(p, "private", Whole)
        \/ powerLost

\* After a reported success both files hold the new pair.  A power failure may
\* take a file away with its name, but leaves no torn one.
SuccessIsDurable ==
    \A p \in Process, kind \in {"private", "public"} :
        process[p].pc = "done" =>
            LET f == FileOf[Paths(p)[kind]] IN
            IF file[f] # None /\ file[f].text.owner = p
            THEN file[f].text = Text(p, kind, Whole)
            ELSE powerLost

\* Whatever is read while it is being written, or after a failure, a kill or a
\* power failure, is a generated key of the node it is read for, or an error.
OnlyGeneratedKeysLoad ==
    /\ \A f \in File : load_identity(f) # None =>
          /\ load_identity(f).key \in Process
          /\ NodeOf[load_identity(f).key] = load_identity(f).node
    /\ LET keys == Authorizations(enrolled) IN
       keys # None => \A n \in DOMAIN keys :
          keys[n] \in Process /\ NodeOf[keys[n]] = n

\* An authorization file that loads gives every node in it one key, the one of
\* its only line: no enrolled node is left out, and a second key of a node, or
\* a text cut short, does not quietly replace or hide another.
AuthorizationsAreUnambiguous ==
    LET keys == Authorizations(enrolled) IN
    keys # None =>
        /\ DOMAIN keys = {enrolled[i].node : i \in DOMAIN enrolled}
        /\ \A i \in DOMAIN enrolled :
              /\ keys[enrolled[i].node] = enrolled[i].owner
              /\ \A j \in DOMAIN enrolled :
                    enrolled[j].node = enrolled[i].node => i = j
=============================================================================
