------------------------------ MODULE Storage -------------------------------
(***************************************************************************)
(* StorageService for one owner: metadata rows in PostgreSQL, bytes in the *)
(* object store, and a client that uploads through signed URLs on its own. *)
(*                                                                         *)
(* One action is one SQL statement or one object store call.  Any of them  *)
(* may fail, and the process may stop after any of them.                   *)
(***************************************************************************)
EXTENDS Postgres, FiniteSetsExt

CONSTANTS
    PlayerFiles,      \* names of the owner's files
    TitleFiles,       \* names of title files
    Sizes,            \* what a client may upload; a size also stands for the content
    TitleSizes,       \* what an operator may publish
    NoBlob,
    MaxFileSize,
    MaxBytesPerPlayer,
    MaxFilesPerPlayer,
    Word              \* sizes are unsigned words: arithmetic is modulo this (2^64 in the code)

Files == PlayerFiles \cup TitleFiles

ASSUME SizesAssumption == Sizes \cup TitleSizes \subseteq Nat /\ NoBlob \notin Nat
ASSUME LimitsAssumption ==
    /\ {MaxFileSize, MaxBytesPerPlayer, MaxFilesPerPlayer, Word} \subseteq Nat
    /\ MaxBytesPerPlayer + MaxFileSize < Word
ASSUME FilesAssumption == PlayerFiles \cap TitleFiles = {}

fileRow(f, size) == [key |-> <<"files", f>>, file |-> f, size |-> size]

VARIABLES
    blob,             \* the object under each file's key, or NoBlob
    urls,             \* the files a signed upload URL was issued for
    call              \* the RPC each call handler runs and what it does next
vars == <<dbVars, blob, urls, call>>

NoCall == [op |-> "none", step |-> "none"]
Ops == {"write", "commit", "delete", "publish"}
Steps == {"upload", "stat", "usage", "quota", "sign", "save", "get", "deleteRow", "commit",
          "commitDelete", "deleteBlob"}
AllSizes == Sizes \cup TitleSizes
Rows == {fileRow(f, s) : f \in Files, s \in AllSizes}

TypeOK ==
    /\ rows \subseteq Rows
    /\ ins \in [Calls -> SUBSET Rows]
    /\ del \in [Calls -> SUBSET Rows]
    /\ blob \in [Files -> AllSizes \cup {NoBlob}]
    /\ urls \subseteq PlayerFiles
    /\ call \in [Calls -> {NoCall} \cup [op : Ops, step : Steps, file : Files,
                                         size : AllSizes \cup {NoBlob},
                                         total : 0..(Word - 1), count : 0..Cardinality(Files),
                                         met : SUBSET {"file", "owner"}]]

Init ==
    /\ DbInit({})
    /\ blob = [f \in Files |-> NoBlob]
    /\ urls = {}
    /\ call = [c \in Calls |-> NoCall]

----------------------------------------------------------------------------

ValidateSize(size) == size <= MaxFileSize

\* The overlaps of two calls that can spoil each other's outcome: a deletion
\* and a save of one file, and two commits of the owner.
Meets(op1, f1, op2, f2) ==
    {k \in {"file", "owner"} :
        \/ k = "owner" /\ op1 = "commit" /\ op2 = "commit"
        \/ k = "file" /\ f1 = f2 /\ {op1, op2} \in {{"delete", "commit"}, {"delete", "publish"}}}

\* A handler starts; an invalid file name or declared size changes nothing.
Receive(c, op, f, size, step) ==
    LET met(d) == IF call[d] = NoCall THEN {} ELSE Meets(op, f, call[d].op, call[d].file)
    IN /\ call[c] = NoCall
       /\ call' = [d \in Calls |->
             CASE d = c -> [op |-> op, step |-> step, file |-> f, size |-> size, total |-> 0,
                            count |-> 0, met |-> UNION {met(e) : e \in Calls}]
               [] d # c /\ call[d] = NoCall -> NoCall
               [] OTHER -> [call[d] EXCEPT !.met = @ \cup met(d)]]
       /\ UNCHANGED <<dbVars, blob, urls>>

WritePlayerFile(c, f, size) == ValidateSize(size) /\ Receive(c, "write", f, size, "usage")
CommitPlayerFile(c, f) == Receive(c, "commit", f, NoBlob, "stat")
DeletePlayerFile(c, f) == Receive(c, "delete", f, NoBlob, "get")
PublishTitleFile(c, f, size) == ValidateSize(size) /\ Receive(c, "publish", f, size, "upload")
DeleteTitleFile(c, f) == Receive(c, "delete", f, NoBlob, "get")

Goto(c, step) == call' = [call EXCEPT ![c].step = step]
Return(c) == call' = [call EXCEPT ![c] = NoCall]
ReturnErr(c) == Rollback(c) /\ Return(c)

\* The client uses a signed URL, whenever and with whatever it likes.
ClientPut(f, size) ==
    /\ f \in urls
    /\ blob' = [blob EXCEPT ![f] = size]
    /\ UNCHANGED <<dbVars, urls, call>>

\* PublishTitleFile holds the bytes and uploads them itself.
Upload(c) ==
    /\ call[c].step = "upload"
    /\ blob' = [blob EXCEPT ![call[c].file] = call[c].size]
    /\ Goto(c, "stat")
    /\ UNCHANGED <<dbVars, urls>>

\* Stat, outside the transaction, and NewFile: the size is the object's, not the client's.
Stat(c) ==
    LET size == blob[call[c].file]
    IN /\ call[c].step = "stat"
       /\ IF size = NoBlob THEN Return(c)        \* ErrUploadIncomplete
          ELSE IF ~ValidateSize(size) THEN Return(c)
            ELSE call' = [call EXCEPT ![c].size = size,
                             ![c].step = IF call[c].op = "publish" THEN "save" ELSE "usage"]
       /\ UNCHANGED <<dbVars, blob, urls>>

----------------------------------------------------------------------------
(* checkQuota: two statements, each with its own snapshot.                 *)

OwnedRows(c) == {r \in Visible(c) : r.file \in PlayerFiles}

Usage(c) ==
    /\ call[c].step = "usage"
    /\ call' = [call EXCEPT ![c].step = "quota",
                            ![c].total = MapThenSumSet(LAMBDA r : r.size, OwnedRows(c)) % Word,
                            ![c].count = Cardinality(OwnedRows(c))]
    /\ UNCHANGED <<dbVars, blob, urls>>

\* checkQuota returns nil: its local variables are gone.
Passed(c) ==
    call' = [call EXCEPT ![c].step = IF call[c].op = "write" THEN "sign" ELSE "save",
                         ![c].total = 0, ![c].count = 0]

\* Mutant of checkQuota: Commit trusts the check that Write made.
checkQuotaOnWrite(c) ==
    LET total == (call[c].total + call[c].size) % Word
    IN /\ call[c].step = "quota"
       /\ IF call[c].op = "write" /\ (total > MaxBytesPerPlayer \/ call[c].count >= MaxFilesPerPlayer)
            THEN ReturnErr(c)
            ELSE Passed(c) /\ UNCHANGED dbVars
       /\ UNCHANGED <<blob, urls>>

\* GetFile and the comparison; the subtraction may wrap around.
checkQuota(c) ==
    LET old == {r \in Visible(c) : r.file = call[c].file}
        total == (call[c].total + Word - MapThenSumSet(LAMBDA r : r.size, old)) % Word
        count == call[c].count + (IF old = {} THEN 1 ELSE 0)
    IN /\ call[c].step = "quota"
       /\ IF (total + call[c].size) % Word > MaxBytesPerPlayer \/ count > MaxFilesPerPlayer
            THEN ReturnErr(c)
            ELSE Passed(c) /\ UNCHANGED dbVars
       /\ UNCHANGED <<blob, urls>>

SignUpload(c) ==
    /\ call[c].step = "sign"
    /\ urls' = urls \cup {call[c].file}
    /\ Return(c)
    /\ UNCHANGED <<dbVars, blob>>

SaveFile(c) ==
    /\ call[c].step = "save"
    /\ Upsert(c, fileRow(call[c].file, call[c].size))
    /\ Goto(c, "commit")
    /\ UNCHANGED <<blob, urls>>

CommitSave(c) ==
    /\ call[c].step = "commit"
    /\ Commit(c)
    /\ Return(c)
    /\ UNCHANGED <<blob, urls>>

----------------------------------------------------------------------------
(* DeletePlayerFile and DeleteTitleFile: the row first, then the bytes.    *)

\* Mutant of GetFile: the bytes are deleted before the row.
GetFileDeletesBlob(c) ==
    /\ call[c].step = "get"
    /\ IF Exists(c, <<"files", call[c].file>>)
         THEN Goto(c, "deleteRow") /\ blob' = [blob EXCEPT ![call[c].file] = NoBlob] /\ UNCHANGED dbVars
         ELSE ReturnErr(c) /\ UNCHANGED blob
    /\ UNCHANGED urls

GetFile(c) ==
    /\ call[c].step = "get"
    /\ IF Exists(c, <<"files", call[c].file>>)
         THEN Goto(c, "deleteRow") /\ UNCHANGED dbVars
         ELSE ReturnErr(c)
    /\ UNCHANGED <<blob, urls>>

DeleteFile(c) ==
    /\ call[c].step = "deleteRow"
    /\ Delete(c, <<"files", call[c].file>>)
    /\ Goto(c, "commitDelete")
    /\ UNCHANGED <<blob, urls>>

CommitDelete(c) ==
    /\ call[c].step = "commitDelete"
    /\ Commit(c)
    /\ Goto(c, "deleteBlob")
    /\ UNCHANGED <<blob, urls>>

DeleteBlob(c) ==
    /\ call[c].step = "deleteBlob"
    /\ blob' = [blob EXCEPT ![call[c].file] = NoBlob]
    /\ Return(c)
    /\ UNCHANGED <<dbVars, urls>>

\* A statement or an object store call fails, or the process stops: an open
\* transaction is rolled back, what the object store has stays.
Fail(c) ==
    /\ call[c] # NoCall
    /\ ReturnErr(c)
    /\ UNCHANGED <<blob, urls>>

\* The steps of each usecase.
WriteSteps(c) == call[c].op = "write" /\ (Usage(c) \/ checkQuota(c) \/ SignUpload(c))
CommitSteps(c) ==
    call[c].op = "commit" /\ (Stat(c) \/ Usage(c) \/ checkQuota(c) \/ SaveFile(c) \/ CommitSave(c))
PublishSteps(c) == call[c].op = "publish" /\ (Upload(c) \/ Stat(c) \/ SaveFile(c) \/ CommitSave(c))
DeleteSteps(c) == call[c].op = "delete" /\ (GetFile(c) \/ DeleteFile(c) \/ CommitDelete(c) \/ DeleteBlob(c))
DeletePlayerSteps(c) == DeleteSteps(c) /\ call[c].file \in PlayerFiles
DeleteTitleSteps(c) == DeleteSteps(c) /\ call[c].file \in TitleFiles

Next ==
    \/ \E f \in PlayerFiles, size \in Sizes : ClientPut(f, size)
    \/ \E c \in Calls :
          \/ \E f \in PlayerFiles : CommitPlayerFile(c, f) \/ DeletePlayerFile(c, f)
          \/ \E f \in TitleFiles : DeleteTitleFile(c, f)
          \/ \E f \in PlayerFiles, size \in Sizes : WritePlayerFile(c, f, size)
          \/ \E f \in TitleFiles, size \in TitleSizes : PublishTitleFile(c, f, size)
          \/ WriteSteps(c) \/ CommitSteps(c) \/ PublishSteps(c)
          \/ DeletePlayerSteps(c) \/ DeleteTitleSteps(c) \/ Fail(c)

Spec == Init /\ [][Next]_vars

----------------------------------------------------------------------------
(* Properties.                                                             *)

\* What Query and QueryTitle list.
Listed(files) == {r.file : r \in {x \in rows : x.file \in files}}
\* Read and ReadTitle sign a URL for a file that is listed; it serves what is there.
Read(f) == [found |-> f \in Listed(Files), bytes |-> blob[f]]
TotalSize == MapThenSumSet(LAMBDA r : r.size, {x \in rows : x.file \in PlayerFiles})

\* The metadata table "never lists a file whose bytes are absent", whatever fails
\* and wherever: a listed file loses its bytes only in a step of a call that
\* deletes it while another one saves it, or the reverse.
Absent(f) == Read(f) = [found |-> TRUE, bytes |-> NoBlob]
BytesBehindRows ==
    [][\A f \in Files : Absent(f)' /\ ~Absent(f) =>
          \E c \in Calls : call[c] # NoCall /\ call[c].file = f /\ "file" \in call[c].met]_vars

\* A commit re-checks the quota against the object's real size, so a client that
\* under-declares, or uploads again after the precheck, cannot exceed it: only a
\* commit that overlapped another one of the owner can, and by no more than one
\* file of the largest size for every call but one, however often this happens
\* and although the two reads of checkQuota may disagree.
WithinQuota ==
    TotalSize <= MaxBytesPerPlayer /\ Cardinality(Listed(PlayerFiles)) <= MaxFilesPerPlayer
QuotaKept ==
    [][/\ WithinQuota /\ ~WithinQuota' =>
             \E c \in Calls : call[c].step = "commit" /\ "owner" \in call[c].met
       /\ TotalSize' <= MaxBytesPerPlayer + (Cardinality(Calls) - 1) * MaxFileSize]_vars
=============================================================================
