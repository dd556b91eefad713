------------------------- MODULE CapabilityCatalog -------------------------
(***************************************************************************)
(* Capabilities from draft to running code.  Request handlers and the      *)
(* intake workflow edit drafts, validate them and publish them into the    *)
(* catalog of installed capabilities; every start of the process merges    *)
(* the builtin packs of the running release into the same catalog; and     *)
(* workflows look capabilities up through a registry that caches what it   *)
(* has read.  A step is one transaction, or the reads of one function      *)
(* between two of its transactions.                                        *)
(***************************************************************************)
EXTENDS Integers, FiniteSets

CONSTANTS
    Caps,           \* capability ids
    Bodies,         \* contents of a capability: logic, contract, texts
    Installable,    \* bodies whose implementation can be resolved
    Valid,          \* bodies that also pass validate_capability
    WithCode,       \* bodies that bring source text (a code_block)
    NoBody,
    Releases,       \* builtin definitions a release may ship, per capability
    Drafts, Handlers,
    Ops,            \* bound: the operations the clients use
    MaxItems,       \* bound: draft items ever made
    MaxCalls,       \* bound: calls the clients make
    MaxFaults,      \* bound: transactions that raise
    MaxRestarts     \* bound: starts of the process after the first

Op == {"create", "add", "update", "remove", "delete", "save", "validate",
       "publish", "intake", "rollback", "changeset"}

ASSUME CatalogConstants ==
    /\ Valid \subseteq Installable /\ Installable \subseteq Bodies
    /\ WithCode \subseteq Bodies
    /\ NoBody \notin Bodies
    /\ Releases \subseteq [Caps -> Installable \cup {NoBody}] /\ Releases # {}
    /\ Ops \subseteq Op
    /\ MaxItems \in Nat /\ MaxCalls \in Nat
    /\ MaxFaults \in Nat /\ MaxRestarts \in Nat

Ids      == 1 .. MaxItems
Old      == 0 .. MaxItems
Content  == Caps \X Bodies
Row      == [id : Ids, draft : Drafts, cap : Caps, body : Bodies,
             state : {"draft", "validated", "published"}]
Record   == [state : {"absent", "installed", "retired"},
             source : {"builtin", "publication"},
             spec : Bodies \cup {NoBody}, code : Bodies \cup {NoBody}]

(* What a client can go back to: a publication of a draft, with the items  *)
(* it was made of, or a saved version.                                     *)
Snapshot == [kind : {"publication", "version"}, draft : Drafts, rows : SUBSET Row]

(* draft: the one at work (none or one); rows: the items read and still to *)
(* be dealt with; twice: capability ids that occur twice; bad: some item   *)
(* failed validation; from: the items to be copied, as <<id, content>>;     *)
(* more: those still to be added.                                          *)
Handler == [pc : {"idle", "edit", "save", "validate", "read", "publish",
                  "discard", "draft", "adopt"},
            op : Op, draft : SUBSET Drafts, rows : SUBSET Row,
            twice : SUBSET Caps, bad : BOOLEAN,
            from : SUBSET (Old \X Content), more : SUBSET (Old \X Content)]

VARIABLES
    draft,       \* capability_drafts: never made, lifecycle_state, deleted
    items,       \* capability_draft_items
    made,        \* items ever made: ids are never used again
    snapshots,   \* publication history with its candidates, revisions
    record,      \* capability_records
    ledger,      \* capability_record_events: contents ever installed
    artifact,    \* published/python/implementation.py of each capability
    release,     \* what the running release ships
    cache,       \* SharedCapabilityRegistry._resolved
    handler,     \* request handlers and intake workflows
    calls, faults, restarts

drafts  == <<draft, items, made, snapshots>>
catalog == <<record, ledger, artifact>>
process == <<release, cache>>
bounds  == <<calls, faults, restarts>>
vars    == <<drafts, catalog, process, handler, bounds>>

Idle == [pc |-> "idle", op |-> "create", draft |-> {}, rows |-> {}, twice |-> {},
         bad |-> FALSE, from |-> {}, more |-> {}]

Absent == [state |-> "absent", source |-> "builtin", spec |-> NoBody, code |-> NoBody]

-----------------------------------------------------------------------------
CodeOf(b) == IF b \in WithCode THEN b ELSE NoBody

(* The merge of a release into the catalog at startup: a definition is     *)
(* installed, updated or restored unless a publication has replaced it; a  *)
(* builtin record without definition is retired.                           *)
IsReplaced(r) == r.state = "installed" /\ r.source = "publication"

(* Defect: publications are not spared.                                    *)
SyncedOver(rel, rec) ==
    [c \in Caps |->
        IF rel[c] = NoBody
        THEN [rec[c] EXCEPT !.state =
                 IF @ = "installed" /\ rec[c].source = "builtin" THEN "retired" ELSE @]
        ELSE [state |-> "installed", source |-> "builtin", spec |-> rel[c],
              code |-> IF rec[c].code = NoBody THEN CodeOf(rel[c]) ELSE rec[c].code]]

Synced(rel, rec) ==
    [c \in Caps |->
        IF rel[c] = NoBody
        THEN [rec[c] EXCEPT !.state =
                 IF @ = "installed" /\ rec[c].source = "builtin" THEN "retired" ELSE @]
        ELSE IF IsReplaced(rec[c]) THEN rec[c]
        ELSE [state |-> "installed", source |-> "builtin", spec |-> rel[c],
              code |-> IF rec[c].code = NoBody THEN CodeOf(rel[c]) ELSE rec[c].code]]

(* Each change is entered in the ledger with the content it leaves.        *)
Entered(rec) == {<<c, rec[c].spec>> : c \in {x \in Caps : rec[x].state # "absent"}}

Init ==
    /\ draft = [d \in Drafts |-> "new"]
    /\ items = {} /\ made = 0 /\ snapshots = {}
    /\ release \in Releases
    /\ record = Synced(release, [c \in Caps |-> Absent])
    /\ ledger = Entered(record)
    /\ artifact = [c \in Caps |-> NoBody]
    /\ cache = [c \in Caps |-> NoBody]
    /\ handler = [h \in Handlers |-> Idle]
    /\ calls = 0 /\ faults = 0 /\ restarts = 0

(* The process stops and the next one starts, perhaps of another release.  *)
Restart ==
    /\ restarts < MaxRestarts /\ restarts' = restarts + 1
    /\ release' \in Releases
    /\ record' = Synced(release', record)
    /\ ledger' = ledger \cup Entered(record')
    /\ cache' = [c \in Caps |-> NoBody]
    /\ handler' = [h \in Handlers |-> Idle]
    /\ UNCHANGED <<drafts, artifact, calls, faults>>

(* The same merge while the process runs: every analysis builds a host of  *)
(* its own, and every list of the catalog begins with it.                  *)
Resync ==
    /\ record' = Synced(release, record)
    /\ ledger' = ledger \cup Entered(record')
    /\ UNCHANGED <<drafts, artifact, process, handler, bounds>>

(* SharedCapabilityRegistry.get, for a workflow that uses the capability.  *)
Lookup(c) ==
    /\ cache[c] = NoBody /\ record[c].state = "installed"
    /\ cache' = [cache EXCEPT ![c] = record[c].spec]
    /\ UNCHANGED <<drafts, catalog, release, handler, bounds>>

-----------------------------------------------------------------------------
(* Calls of the draft service, which end at once or leave the handler in   *)
(* the middle.                                                             *)
Exists(d) == draft[d] \in {"draft", "published"}
ItemsOf(d) == {r \in items : r.draft = d}

Set(h, x) == handler' = [handler EXCEPT ![h] = x]
Return(h) == Set(h, Idle)

Call(h, op) ==
    /\ op \in Ops /\ handler[h].pc = "idle"
    /\ calls < MaxCalls /\ calls' = calls + 1
    /\ UNCHANGED <<faults, restarts>>

Create(h) ==
    /\ Call(h, "create")
    /\ \E d \in Drafts : draft[d] = "new" /\ draft' = [draft EXCEPT ![d] = "draft"]
    /\ UNCHANGED <<items, made, snapshots, catalog, process, handler>>

NewItem(d, content) ==
    /\ made < MaxItems /\ made' = made + 1
    /\ items' = items \cup {[id |-> made + 1, draft |-> d, cap |-> content[1],
                             body |-> content[2], state |-> "draft"]}

Add(h) ==
    /\ Call(h, "add")
    /\ \E d \in Drafts, x \in Content : Exists(d) /\ NewItem(d, x)
    /\ UNCHANGED <<draft, snapshots, catalog, process, handler>>

(* Deleting a row deletes what refers to it (ON DELETE CASCADE): a         *)
(* publication loses the candidates made from the item.                    *)
Remove(h) ==
    /\ Call(h, "remove")
    /\ \E r \in items :
         /\ items' = items \ {r}
         /\ snapshots' =
              {IF s.kind = "publication"
               THEN [s EXCEPT !.rows = {q \in @ : q.id # r.id}] ELSE s : s \in snapshots}
    /\ UNCHANGED <<draft, made, catalog, process, handler>>

DeleteDraft(d) ==
    /\ draft' = [draft EXCEPT ![d] = "deleted"]
    /\ items' = items \ ItemsOf(d)
    /\ snapshots' = {s \in snapshots : s.draft # d}
    /\ UNCHANGED made

Delete(h) ==
    /\ Call(h, "delete")
    /\ \E d \in Drafts : Exists(d) /\ DeleteDraft(d)
    /\ UNCHANGED <<catalog, process, handler>>

(* update_draft_item reads the item and writes what the client changed,    *)
(* the id, the content or both, over what it has read; either way the item *)
(* is a draft again.                                                       *)
Update(h) ==
    /\ Call(h, "update")
    /\ \E r \in items : Set(h, [Idle EXCEPT !.pc = "edit", !.op = "update", !.rows = {r}])
    /\ UNCHANGED <<drafts, catalog, process>>

Write(r, changed) == items' = {IF q.id = r.id THEN changed[q] ELSE q : q \in items}

(* Defect: the item keeps its state.                                       *)
EditQuietly(h) ==
    /\ handler[h].pc = "edit"
    /\ \E r \in handler[h].rows, x \in Content :
         /\ Write(r, [q \in items |-> [q EXCEPT !.cap = x[1], !.body = x[2]]])
    /\ Return(h)
    /\ UNCHANGED <<draft, made, snapshots, catalog, process, bounds>>

Edit(h) ==
    /\ handler[h].pc = "edit"
    /\ \E r \in handler[h].rows, x \in Content :
         /\ Write(r, [q \in items |->
              [q EXCEPT !.cap = x[1], !.body = x[2], !.state = "draft"]])
    /\ Return(h)
    /\ UNCHANGED <<draft, made, snapshots, catalog, process, bounds>>

Save(h) ==
    /\ Call(h, "save")
    /\ \E d \in Drafts :
         /\ draft[d] = "draft"
         /\ Set(h, [Idle EXCEPT !.pc = "save", !.op = "save", !.draft = {d},
                                !.rows = ItemsOf(d)])
    /\ UNCHANGED <<drafts, catalog, process>>

(* The version row refers to its draft: without it the INSERT raises.      *)
SaveVersion(h) ==
    /\ handler[h].pc = "save"
    /\ snapshots' = snapshots \cup
         {[kind |-> "version", draft |-> d, rows |-> handler[h].rows] :
            d \in {x \in handler[h].draft : Exists(x)}}
    /\ Return(h)
    /\ UNCHANGED <<draft, items, made, catalog, process, bounds>>

-----------------------------------------------------------------------------
(* validate_draft: one read of the items, then one transaction for each.   *)
Twice(rows) == {c \in Caps : \E r, q \in rows : r # q /\ r.cap = c /\ q.cap = c}

Reading(x, d) == [x EXCEPT !.pc = "validate", !.draft = {d}, !.rows = ItemsOf(d),
                           !.twice = Twice(ItemsOf(d))]

Validate(h) ==
    /\ Call(h, "validate")
    /\ \E d \in Drafts : Exists(d) /\ Set(h, Reading([Idle EXCEPT !.op = "validate"], d))
    /\ UNCHANGED <<drafts, catalog, process>>

Passes(r, twice) == r.body \in Valid /\ r.cap \notin twice

ValidateItem(h) ==
    /\ handler[h].pc = "validate" /\ handler[h].rows # {}
    /\ \E r \in handler[h].rows :
         LET passed == Passes(r, handler[h].twice)
         IN /\ \A q \in handler[h].rows : r.id <= q.id
            /\ Write(r, [q \in items |->
                 [q EXCEPT !.state = IF passed THEN "validated" ELSE "draft"]])
            /\ Set(h, [handler[h] EXCEPT !.rows = @ \ {r}, !.bad = @ \/ ~passed])
    /\ UNCHANGED <<draft, made, snapshots, catalog, process, bounds>>

(* Defect: the intake reports the failure and leaves the draft.            *)
ValidatedNoDiscard(h) ==
    /\ handler[h].pc = "validate" /\ handler[h].rows = {}
    /\ Set(h, IF handler[h].op = "validate" \/ handler[h].bad THEN Idle
              ELSE [handler[h] EXCEPT !.pc = "read"])
    /\ UNCHANGED <<drafts, catalog, process, bounds>>

Validated(h) ==
    /\ handler[h].pc = "validate" /\ handler[h].rows = {}
    /\ \/ /\ handler[h].op = "validate" \/ (handler[h].op = "rollback" /\ handler[h].bad)
          /\ Return(h)
       \/ /\ handler[h].op # "validate" /\ ~handler[h].bad
          /\ Set(h, [handler[h] EXCEPT !.pc = "read"])
       \/ /\ handler[h].op = "intake" /\ handler[h].bad
          /\ Set(h, [handler[h] EXCEPT !.pc = "discard"])
    /\ UNCHANGED <<drafts, catalog, process, bounds>>

(* _validate_and_publish_draft, the last step of the intake workflow: a    *)
(* draft that fails validation is deleted.                                 *)
Intake(h) ==
    /\ Call(h, "intake")
    /\ \E d \in Drafts : Exists(d) /\ Set(h, Reading([Idle EXCEPT !.op = "intake"], d))
    /\ UNCHANGED <<drafts, catalog, process>>

Discard(h) ==
    /\ handler[h].pc = "discard"
    /\ \E d \in handler[h].draft :
         IF Exists(d) THEN DeleteDraft(d) ELSE UNCHANGED drafts
    /\ Return(h)
    /\ UNCHANGED <<catalog, process, bounds>>

-----------------------------------------------------------------------------
(* publish_draft: one read of the items, then one transaction.             *)
Publish(h) ==
    /\ Call(h, "publish")
    /\ \E d \in Drafts :
         Exists(d) /\ Set(h, [Idle EXCEPT !.pc = "read", !.op = "publish", !.draft = {d}])
    /\ UNCHANGED <<drafts, catalog, process>>

Ready(rows) == {r \in rows : r.state = "validated"}

(* Refused: an item is not validated, two define one capability, or one    *)
(* cannot be installed.                                                    *)
Refused(rows) ==
    \/ \E r \in rows : r.state = "draft"
    \/ Twice(Ready(rows)) # {}
    \/ \E r \in Ready(rows) : r.body \notin Installable

ReadForPublish(h) ==
    /\ handler[h].pc = "read"
    /\ \E d \in handler[h].draft :
         Set(h, IF Exists(d) /\ ~Refused(ItemsOf(d))
                THEN [handler[h] EXCEPT !.pc = "publish", !.rows = Ready(ItemsOf(d))]
                ELSE Idle)
    /\ UNCHANGED <<drafts, catalog, process, bounds>>

Contents(rows) == {<<r.cap, r.body>> : r \in rows}

Defines(rows, c) == \E r \in rows : r.cap = c
BodyFor(rows, c) == (CHOOSE r \in rows : r.cap = c).body

Installed(rec, rows) ==
    [c \in Caps |->
        IF Defines(rows, c)
        THEN [state |-> "installed", source |-> "publication",
              spec |-> BodyFor(rows, c), code |-> CodeOf(BodyFor(rows, c))]
        ELSE rec[c]]

(* Defect: an existing file is not written again.                          *)
WrittenOnce(files, rows) ==
    [c \in Caps |->
        IF files[c] = NoBody /\ Defines(rows, c) /\ BodyFor(rows, c) \in WithCode
        THEN BodyFor(rows, c) ELSE files[c]]

(* Without source text no file is written, and an old one stays.           *)
Written(files, rows) ==
    [c \in Caps |->
        IF Defines(rows, c) /\ BodyFor(rows, c) \in WithCode
        THEN BodyFor(rows, c) ELSE files[c]]

(* The history row refers to the draft, a candidate to its item: if one is *)
(* gone the transaction raises.                                            *)
References(h) ==
    /\ \A d \in handler[h].draft : Exists(d)
    /\ \A r \in handler[h].rows : \E q \in items : q.id = r.id

(* Whatever is validated by now becomes published; rows are recorded and   *)
(* installed.  A file that cannot be written is not fatal.                 *)
PublishRows(h, rows) ==
    /\ \E d \in handler[h].draft :
         /\ items' = {IF q.draft = d /\ q.state = "validated"
                      THEN [q EXCEPT !.state = "published"] ELSE q : q \in items}
         /\ draft' = [draft EXCEPT ![d] = "published"]
         /\ snapshots' = snapshots \cup
              {[kind |-> "publication", draft |-> d, rows |-> rows]}
    /\ record' = Installed(record, rows)
    /\ ledger' = ledger \cup Contents(rows)
    /\ \E lost \in SUBSET rows :
         /\ artifact' = Written(artifact, rows \ lost)
         /\ \/ lost = {} /\ faults' = faults
            \/ lost # {} /\ faults < MaxFaults /\ faults' = faults + 1
    /\ Return(h)
    /\ UNCHANGED <<made, process, calls, restarts>>

(* Defect: the items are read again in the transaction.                    *)
PublishDraftAgain(h) ==
    /\ handler[h].pc = "publish" /\ References(h)
    /\ PublishRows(h, {q \in items : \E r \in handler[h].rows : q.id = r.id})

PublishDraft(h) ==
    /\ handler[h].pc = "publish" /\ References(h)
    /\ PublishRows(h, handler[h].rows)

(* The references are gone, before any file was written.                   *)
PublishRaises(h) ==
    /\ handler[h].pc = "publish" /\ ~References(h)
    /\ Return(h)
    /\ UNCHANGED <<drafts, catalog, process, bounds>>

-----------------------------------------------------------------------------
(* Rollbacks and changesets copy old items into a new draft.               *)
Copy(h, op, old) ==
    /\ Call(h, op)
    /\ Set(h, [Idle EXCEPT !.pc = "draft", !.op = op, !.from = old, !.more = old])
    /\ UNCHANGED <<drafts, catalog, process>>

Numbered(rows) == {<<r.id, <<r.cap, r.body>>>> : r \in rows}

RollbackDraft(h) ==
    \E s \in snapshots :
      Exists(s.draft) /\ s.rows # {} /\ Copy(h, "rollback", Numbered(s.rows))

(* CapabilityPackageService.rollback_to_publication: any past content.     *)
RollbackPackage(h) ==
    \E x \in ledger :
      record[x[1]].state = "installed" /\ Copy(h, "rollback", {<<0, x>>})

(* publish_changeset takes the latest open item of every capability named. *)
Latest(c) ==
    LET open == {r \in items : r.cap = c /\ r.state # "published"}
    IN {r \in open : \A q \in open : q.id <= r.id}

Changeset(h) ==
    \E caps \in SUBSET Caps :
      /\ \A c \in caps : Latest(c) # {}
      /\ Copy(h, "changeset", Numbered(UNION {Latest(c) : c \in caps}))

CopyCreate(h) ==
    /\ handler[h].pc = "draft"
    /\ \E d \in Drafts :
         /\ draft[d] = "new" /\ draft' = [draft EXCEPT ![d] = "draft"]
         /\ Set(h, [handler[h] EXCEPT !.pc = "adopt", !.draft = {d}])
    /\ UNCHANGED <<items, made, snapshots, catalog, process, bounds>>

(* Defect: only the first content is adopted.                              *)
AdoptFirst(h) ==
    /\ handler[h].pc = "adopt" /\ handler[h].more # {}
    /\ \E d \in handler[h].draft, x \in handler[h].more :
         IF Exists(d)
         THEN NewItem(d, x[2]) /\ Set(h, [handler[h] EXCEPT !.more = {}])
         ELSE UNCHANGED <<items, made>> /\ Return(h)
    /\ UNCHANGED <<draft, snapshots, catalog, process, bounds>>

(* If somebody deletes the new draft, the INSERT raises.                   *)
Adopt(h) ==
    /\ handler[h].pc = "adopt" /\ handler[h].more # {}
    /\ \E d \in handler[h].draft, x \in handler[h].more :
         IF Exists(d)
         THEN NewItem(d, x[2]) /\ Set(h, [handler[h] EXCEPT !.more = @ \ {x}])
         ELSE UNCHANGED <<items, made>> /\ Return(h)
    /\ UNCHANGED <<draft, snapshots, catalog, process, bounds>>

Adopted(h) ==
    /\ handler[h].pc = "adopt" /\ handler[h].more = {}
    /\ \E d \in handler[h].draft :
         Set(h, IF handler[h].op = "changeset" THEN [handler[h] EXCEPT !.pc = "read"]
                ELSE Reading(handler[h], d))
    /\ UNCHANGED <<drafts, catalog, process, bounds>>

(* A transaction raises.  The one of publish_draft may have written the    *)
(* files of some items by then, and they are not undone.                   *)
Fault(h) ==
    /\ handler[h].pc # "idle"
    /\ faults < MaxFaults /\ faults' = faults + 1
    /\ \E n \in 0 .. MaxItems :
         artifact' = IF handler[h].pc = "publish" /\ References(h)
                     THEN Written(artifact, {r \in handler[h].rows : r.id <= n})
                     ELSE artifact
    /\ Return(h)
    /\ UNCHANGED <<drafts, record, ledger, process, calls, restarts>>

-----------------------------------------------------------------------------
Request(h) ==
    \/ Create(h) \/ Add(h) \/ Remove(h) \/ Delete(h) \/ Update(h) \/ Save(h)
    \/ Validate(h) \/ Publish(h) \/ Intake(h)
    \/ RollbackDraft(h) \/ RollbackPackage(h) \/ Changeset(h)

Continue(h) ==
    \/ Edit(h) \/ SaveVersion(h)
    \/ ValidateItem(h) \/ Validated(h) \/ Discard(h)
    \/ ReadForPublish(h) \/ PublishDraft(h) \/ PublishRaises(h)
    \/ CopyCreate(h) \/ Adopt(h) \/ Adopted(h)

Next ==
    \/ \E h \in Handlers : Request(h) \/ Continue(h) \/ Fault(h)
    \/ \E c \in Caps : Lookup(c)
    \/ Restart \/ Resync

Spec == Init /\ [][Next]_vars

-----------------------------------------------------------------------------
TypeOK ==
    /\ draft \in [Drafts -> {"new", "draft", "published", "deleted"}]
    /\ items \subseteq Row /\ made \in 0 .. MaxItems
    /\ \A r, q \in items : r.id = q.id => r = q
    /\ snapshots \subseteq Snapshot
    /\ record \in [Caps -> Record]
    /\ ledger \subseteq Content
    /\ artifact \in [Caps -> Bodies \cup {NoBody}]
    /\ release \in Releases
    /\ cache \in [Caps -> Bodies \cup {NoBody}]
    /\ handler \in [Handlers -> Handler]
    /\ calls \in 0 .. MaxCalls /\ faults \in 0 .. MaxFaults
    /\ restarts \in 0 .. MaxRestarts

(* For one handler at a time.                                              *)

(* "validated" is a statement about the content the item has.              *)
ValidatedIsValid == \A r \in items : r.state = "validated" => r.body \in Valid

(* A rollback that publishes at all restores everything it was asked to.   *)
RollbackRestores ==
    [][\A h \in Handlers :
         handler[h].op = "rollback" /\ record' # record /\ restarts' = restarts
         => \A x \in handler[h].from : record'[x[2][1]].spec = x[2][2]]_vars

(* "Blacksmith must never leave orphaned drafts": when the intake is       *)
(* through, its draft is published or gone.                                *)
NoOrphans ==
    [][\A h \in Handlers :
         /\ handler[h].op = "intake" /\ handler[h].pc # "idle"
         /\ handler'[h].pc = "idle" /\ restarts' = restarts
         => \A d \in handler[h].draft : draft'[d] \in {"published", "deleted"}]_vars

(* For any number of handlers.                                             *)

(* Whatever is edited, validated, removed and published at the same time,  *)
(* an implementation that cannot be resolved does not become live truth.   *)
InstalledIsInstallable == \A c \in Caps : record[c].spec \in Installable \cup {NoBody}

(* A start of the process, of whatever release, leaves publications as     *)
(* they are and retires only what a release once shipped.                  *)
PublicationSurvives ==
    [][\A c \in Caps :
         restarts' # restarts /\ IsReplaced(record[c]) => record'[c] = record[c]]_vars

(* Between two starts the merge, repeated by every analysis and every list *)
(* of the catalog, has nothing left to do, whatever has been published     *)
(* meanwhile: it cannot take a publication back or bring one up again.     *)
Settled == Synced(release, record) = record

(* The published Python file is the code of the installed publication, as  *)
(* long as every file could be written and no publication was undone after *)
(* its files were written.                                                 *)
ArtifactIsCurrent ==
    faults = 0 => \A c \in Caps :
      IsReplaced(record[c]) /\ record[c].code # NoBody => artifact[c] = record[c].code

-----------------------------------------------------------------------------
(* The inductive strengthening behind the theorems: item ids are spent in  *)
(* order, what a handler is about to publish can be installed, and a       *)
(* record that was ever there has a content.                               *)
IdsSpent == \A r \in items : r.id <= made

ReadyToInstall ==
    \A h \in Handlers : handler[h].pc = "publish" =>
      \A r \in handler[h].rows : r.body \in Installable

RecordsHaveContent == \A c \in Caps : record[c].state # "absent" => record[c].spec \in Bodies

IInv == /\ TypeOK /\ IdsSpent /\ ReadyToInstall /\ RecordsHaveContent
        /\ InstalledIsInstallable /\ ArtifactIsCurrent
=============================================================================
