--------------------------- MODULE TemplateSeries ---------------------------
(* One series of project templates: the draft, which is its version zero, and   *)
(* the versions published from it.  A request reads a row and then writes by    *)
(* id; only publication is a transaction.                                       *)
EXTENDS Handling

CONSTANT Contents   \* contents of templates

VARIABLES row,      \* rows of the series, by version
          edit      \* where each request stands and what it has read

templateVars == <<row, edit>>

SeriesVersions == 0..MaxServed
RowStatuses == {"none", "DRAFT", "PUBLISHED", "ARCHIVED"}
RowType == [status : RowStatuses, content : Contents]
NoRow == [status |-> "none", content |-> CHOOSE c \in Contents : TRUE]
EditRest == [pc |-> "idle", version |-> 0, content |-> CHOOSE c \in Contents : TRUE]

TemplateTypeOK ==
    /\ row \in [SeriesVersions -> RowType]
    /\ edit \in [Handlers -> [pc : {"idle", "update", "number", "publish", "archive", "revive"},
                              version : 0..MaxServed + 1, content : Contents]]

TemplateInit ==
    /\ \E c \in Contents : row = [v \in SeriesVersions |-> IF v = 0 THEN [status |-> "DRAFT", content |-> c] ELSE NoRow]
    /\ edit = [p \in Handlers |-> EditRest]

EditAt(p, pc) == edit[p].pc = pc
EditBegins(p) == EditAt(p, "idle") /\ Starts /\ UNCHANGED now
EditStep(p, pc, v, c) == edit' = [edit EXCEPT ![p] = [pc |-> pc, version |-> v, content |-> c]]
EditEnds(p) == edit' = [edit EXCEPT ![p] = EditRest] /\ UNCHANGED <<now, served>>

Exists(v) == row[v].status # "none"
Published == {v \in SeriesVersions : row[v].status = "PUBLISHED"}

-----------------------------------------------------------------------------

\* update requires a draft when it reads, and writes by id.
UpdateTemplate(p) == \E c \in Contents :
    /\ EditBegins(p)
    /\ row[0].status = "DRAFT"
    /\ EditStep(p, "update", 0, c)
    /\ UNCHANGED row

UpdateTemplateWrite(p) == /\ EditAt(p, "update")
                          /\ row' = [row EXCEPT ![0].content = edit[p].content]
                          /\ EditEnds(p)

\* publish: the content is read before the transaction, which numbers the version,
PublishTemplate(p) == /\ EditBegins(p)
                      /\ row[0].status = "DRAFT"
                      /\ EditStep(p, "number", 0, row[0].content)
                      /\ UNCHANGED row

NumberVersion(p) ==
    /\ EditAt(p, "number")
    /\ EditStep(p, "publish", 1 + (CHOOSE v \in SeriesVersions : Exists(v) /\ \A w \in SeriesVersions : Exists(w) => w <= v),
                edit[p].content)
    /\ UNCHANGED <<row, now, served>>

\* Mutant: the version published before is left as it is.
PublishBeside(p) ==
    LET n == edit[p].version IN
    /\ EditAt(p, "publish")
    /\ row' = IF Exists(n) THEN row
              ELSE [row EXCEPT ![n] = [status |-> "PUBLISHED", content |-> edit[p].content]]
    /\ EditEnds(p)

\* archives what is published and inserts; the index refuses a number twice.
PublishVersion(p) ==
    LET n == edit[p].version IN
    /\ EditAt(p, "publish")
    /\ row' = IF Exists(n) THEN row
              ELSE [v \in SeriesVersions |->
                     IF v = n THEN [status |-> "PUBLISHED", content |-> edit[p].content]
                     ELSE IF v \in Published THEN [row[v] EXCEPT !.status = "ARCHIVED"] ELSE row[v]]
    /\ EditEnds(p)

ArchiveTemplate(p) == \E v \in SeriesVersions :
    /\ EditBegins(p)
    /\ Exists(v)
    /\ EditStep(p, "archive", v, row[v].content)
    /\ UNCHANGED row

ArchiveWrite(p) == /\ EditAt(p, "archive")
                   /\ row' = [row EXCEPT ![edit[p].version].status = "ARCHIVED"]
                   /\ EditEnds(p)

\* createVersion: without a draft, version zero becomes one again with the
\* content of the version that was asked for.
CreateVersion(p) == \E v \in SeriesVersions :
    /\ EditBegins(p)
    /\ Exists(v) /\ row[0].status # "DRAFT"
    /\ EditStep(p, "revive", v, row[v].content)
    /\ UNCHANGED row

CreateVersionWrite(p) == /\ EditAt(p, "revive")
                         /\ row' = [row EXCEPT ![0] = [status |-> "DRAFT", content |-> edit[p].content]]
                         /\ EditEnds(p)

TemplateNext == \E p \in Handlers :
    \/ UpdateTemplate(p) \/ UpdateTemplateWrite(p)
    \/ PublishTemplate(p) \/ NumberVersion(p) \/ PublishVersion(p)
    \/ ArchiveTemplate(p) \/ ArchiveWrite(p) \/ CreateVersion(p) \/ CreateVersionWrite(p)

TemplateSpec == HandlingInit /\ TemplateInit /\ [][TemplateNext]_<<templateVars, now, served>>

-----------------------------------------------------------------------------

\* Of a series at most one version is published, and it is the newest, while
\* publications, archivings and new drafts interleave; a published content never
\* changes again (docs/phase-8-2-workflows.md:98-100).
OneCurrent == [][/\ \A v \in Published' : \A w \in SeriesVersions : Exists(w)' => w <= v
                 /\ \A v \in SeriesVersions \ {0} : Exists(v) => row'[v].content = row[v].content]_templateVars
=============================================================================
