----------------------------- MODULE Knowledge -----------------------------
(***************************************************************************)
(* scripts/bootstrap-sre-agent-knowledge.ps1: the agent's memory is to hold *)
(* the one version of the knowledge file that is in the repository.  A      *)
(* document is named for the hash of its contents, so a version is its      *)
(* document; documents of other names are left alone.                       *)
(*                                                                         *)
(* The memory indexes what was uploaded in its own time, any request may    *)
(* fail, with or without effect, and the script, which stops at the first   *)
(* failure, is run again, perhaps with another version of the file.  What   *)
(* the API claims need not be so: a list may come in a shape the script     *)
(* misreads, an accepted upload or deletion may have no effect, and the     *)
(* status of the indexer is that of the memory, not of the document.        *)
(***************************************************************************)
CONSTANT Versions       \* of the knowledge file

VARIABLES
    file,           \* the version in the repository
    documents,      \* what the memory holds
    indexed,        \* and what the agent finds in it
    job,            \* the run of the script: where it is, and its $staleDocs
    untrue          \* history: the claims of this run that were not so

knowledgeVars == <<file, documents, indexed, job, untrue>>

KnowledgeSteps == {"probe", "list", "upload", "index", "clean"}
KnowledgeEnds == {"idle", "failed", "done"}     \* exit 1, exit 0

Claims == {"list", "index", "delete"}

At(at, stale) == [step |-> at, stale |-> stale]

KnowledgeInit ==
    /\ file \in Versions
    /\ documents = {}
    /\ indexed = {}
    /\ job = At("idle", {})
    /\ untrue = {}

-----------------------------------------------------------------------------
\* A transport error, a status that is no success, or an indexer that failed or
\* did not finish in time: the script throws.
Throws ==
    /\ job.step \in KnowledgeSteps
    /\ job' = At("failed", {})
    /\ UNCHANGED <<file, documents, indexed, untrue>>

\* Test-AgentMemoryApiSupported
ProbeMemory ==
    /\ job.step = "probe"
    /\ job' = At("list", {})
    /\ UNCHANGED <<file, documents, indexed, untrue>>

\* Mutant of ListDocuments: nothing is removed when the file has not changed.
ListDocumentsUnchanged ==
    /\ job.step = "list"
    /\ job' = IF file \in documents THEN At("index", {}) ELSE At("upload", documents)
    /\ UNCHANGED <<file, documents, indexed, untrue>>

\* Get-AgentMemoryDocumentNames, and what follows from it: a version that is
\* there is not uploaded again, all others are stale.
ListDocuments ==
    /\ job.step = "list"
    /\ \E seen \in SUBSET documents :
          /\ job' = At(IF file \in seen THEN "index" ELSE "upload", seen \ {file})
          /\ untrue' = IF seen = documents THEN untrue ELSE untrue \cup {"list"}
    /\ UNCHANGED <<file, documents, indexed>>

\* A document that is uploaded again has the same contents and stays indexed.
UploadDocument ==
    /\ job.step = "upload"
    /\ documents' \in {documents, documents \cup {file}}
    /\ job' \in {[job EXCEPT !.step = "index"], At("failed", {})}
    /\ UNCHANGED <<file, indexed, untrue>>

\* Mutant of AwaitIndexed: an indexer that does not finish in time is passed over.
AwaitIndexedOrTimeout ==
    /\ job.step = "index"
    /\ job' = [job EXCEPT !.step = "clean"]
    /\ UNCHANGED <<file, documents, indexed, untrue>>

\* Wait-KnowledgeIndexed: the indexer says that it is done, or idle, as it may
\* also do before it has begun.
AwaitIndexed ==
    /\ job.step = "index"
    /\ job' = [job EXCEPT !.step = "clean"]
    /\ untrue' = IF file \in indexed THEN untrue ELSE untrue \cup {"index"}
    /\ UNCHANGED <<file, documents, indexed>>

\* Remove-StaleKnowledgeDocument, for one of them; 404 is success.
RemoveStale(d) ==
    /\ job.step = "clean" /\ d \in job.stale
    /\ \/ /\ documents' = documents \ {d} /\ indexed' = indexed \ {d}
          /\ job' \in {[job EXCEPT !.stale = @ \ {d}], At("failed", {})}
          /\ UNCHANGED untrue
       \/ /\ job' = [job EXCEPT !.stale = @ \ {d}]
          /\ untrue' = untrue \cup {"delete"}
          /\ UNCHANGED <<documents, indexed>>
    /\ UNCHANGED file

Finish ==
    /\ job = At("clean", {})
    /\ job' = At("done", {})
    /\ UNCHANGED <<file, documents, indexed, untrue>>

\* The operator runs the script, with the file as it is then.
RunKnowledge ==
    /\ job.step \in KnowledgeEnds
    /\ file' \in Versions
    /\ job' = At("probe", {})
    /\ untrue' = {}
    /\ UNCHANGED <<documents, indexed>>

\* The memory gets round to a document.
IndexDocument(d) ==
    /\ d \in documents
    /\ indexed' = indexed \cup {d}
    /\ UNCHANGED <<file, documents, job, untrue>>

KnowledgeNext ==
    \/ RunKnowledge \/ Throws
    \/ ProbeMemory \/ ListDocuments \/ UploadDocument \/ AwaitIndexed
    \/ Finish
    \/ \E d \in Versions : RemoveStale(d) \/ IndexDocument(d)

KnowledgeSpec == KnowledgeInit /\ [][KnowledgeNext]_knowledgeVars

-----------------------------------------------------------------------------
KnowledgeTypeOK ==
    /\ file \in Versions
    /\ documents \subseteq Versions
    /\ indexed \subseteq documents
    /\ job \in [step : KnowledgeSteps \cup KnowledgeEnds, stale : SUBSET Versions]
    /\ untrue \subseteq Claims

\* A failure in the middle of a run never leaves the agent with no knowledge
\* (docs/SRE-AGENT-SETUP.md:119): whatever failed, and however many versions
\* earlier runs left behind, an agent that could find some version goes on to
\* find one - unless the indexer claimed to be done when it was not.
KnowledgeIsKept ==
    [][indexed # {} /\ "index" \notin untrue => indexed' # {}]_knowledgeVars

\* After a run that reports success, the agent finds the file as it is and
\* nothing else, whatever the runs before it left: the claims of this run about
\* the list, the index and the deletions are all that this rests on.
KnowledgeIsCurrent ==
    job.step = "done" =>
        /\ "index" \notin untrue => file \in indexed
        /\ untrue \cap {"list", "delete"} = {} => documents \subseteq {file}
=============================================================================
