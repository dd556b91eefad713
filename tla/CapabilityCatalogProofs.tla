---------------------- MODULE CapabilityCatalogProofs ----------------------
(* Proofs about CapabilityCatalog, for every set of capabilities, contents,
   releases, drafts and handlers and every bound. *)
EXTENDS CapabilityCatalog, TLAPS

-----------------------------------------------------------------------------
(* The handlers.                                                           *)

LEMMA IdleType == Idle \in Handler
BY DEF Idle, Handler, Op

LEMMA SetType ==
    ASSUME NEW h \in Handlers, NEW x \in Handler, Set(h, x),
           handler \in [Handlers -> Handler], ReadyToInstall,
           x.pc = "publish" => \A r \in x.rows : r.body \in Installable
    PROVE  handler' \in [Handlers -> Handler] /\ ReadyToInstall'
BY DEF Set, ReadyToInstall

LEMMA ReturnType ==
    ASSUME NEW h \in Handlers, Return(h), handler \in [Handlers -> Handler],
           ReadyToInstall
    PROVE  handler' \in [Handlers -> Handler] /\ ReadyToInstall'
<1>1. Set(h, Idle) BY DEF Return
<1>2. Idle.pc # "publish" BY DEF Idle
<1> QED BY <1>1, <1>2, IdleType, SetType

LEMMA ReadingType ==
    ASSUME NEW x \in Handler, NEW d \in Drafts, items \subseteq Row
    PROVE  Reading(x, d) \in Handler /\ Reading(x, d).pc = "validate"
<1>1. ItemsOf(d) \in SUBSET Row BY DEF ItemsOf
<1>2. Twice(ItemsOf(d)) \in SUBSET Caps BY DEF Twice
<1> DEFINE R == ItemsOf(d)
           T == Twice(ItemsOf(d))
           y == [x EXCEPT !.pc = "validate", !.draft = {d}, !.rows = R, !.twice = T]
<1>3. R \in SUBSET Row /\ T \in SUBSET Caps BY <1>1, <1>2
<1>4. Reading(x, d) = y BY DEF Reading
<1> HIDE DEF R, T
<1>5. y \in Handler /\ y.pc = "validate" BY <1>3 DEF Handler
<1> HIDE DEF y
<1> QED BY <1>4, <1>5

HandlersOK == handler' \in [Handlers -> Handler] /\ ReadyToInstall'

LEMMA RequestHandlers ==
    ASSUME IInv, NEW h \in Handlers, Request(h)
    PROVE  HandlersOK
<1>0. /\ handler \in [Handlers -> Handler] /\ ReadyToInstall
      /\ items \subseteq Row /\ snapshots \subseteq Snapshot /\ ledger \subseteq Content
    BY DEF IInv, TypeOK
<1>1. CASE handler' = handler
    BY <1>0, <1>1 DEF HandlersOK, ReadyToInstall
<1>2. CASE Update(h)
    <2>1. PICK r \in items :
            Set(h, [Idle EXCEPT !.pc = "edit", !.op = "update", !.rows = {r}])
        BY <1>2 DEF Update
    <2> DEFINE y == [Idle EXCEPT !.pc = "edit", !.op = "update", !.rows = {r}]
    <2>2. y \in Handler /\ y.pc # "publish" BY <1>0 DEF Idle, Handler, Op
    <2>3. Set(h, y) BY <2>1
    <2> HIDE DEF y
    <2> QED BY <1>0, <2>2, <2>3, SetType DEF HandlersOK
<1>3. CASE Save(h)
    <2>1. PICK d \in Drafts :
            Set(h, [Idle EXCEPT !.pc = "save", !.op = "save", !.draft = {d},
                                !.rows = ItemsOf(d)])
        BY <1>3 DEF Save
    <2> DEFINE R == ItemsOf(d)
               y == [Idle EXCEPT !.pc = "save", !.op = "save", !.draft = {d}, !.rows = R]
    <2>2. R \in SUBSET Row BY <1>0 DEF ItemsOf
    <2>3. Set(h, y) BY <2>1
    <2> HIDE DEF R
    <2>4. y \in Handler /\ y.pc # "publish" BY <2>2 DEF Idle, Handler, Op
    <2> HIDE DEF y
    <2> QED BY <1>0, <2>3, <2>4, SetType DEF HandlersOK
<1>4. ASSUME NEW op \in {"validate", "intake"}, NEW d \in Drafts,
             Set(h, Reading([Idle EXCEPT !.op = op], d))
      PROVE  HandlersOK
    <2>1. [Idle EXCEPT !.op = op] \in Handler BY DEF Idle, Handler, Op
    <2> QED BY <1>0, <1>4, <2>1, ReadingType, SetType DEF HandlersOK
<1>5. CASE Publish(h)
    <2>1. PICK d \in Drafts :
            Set(h, [Idle EXCEPT !.pc = "read", !.op = "publish", !.draft = {d}])
        BY <1>5 DEF Publish
    <2> DEFINE y == [Idle EXCEPT !.pc = "read", !.op = "publish", !.draft = {d}]
    <2>2. y \in Handler /\ y.pc # "publish" BY DEF Idle, Handler, Op
    <2>3. Set(h, y) BY <2>1
    <2> HIDE DEF y
    <2> QED BY <1>0, <2>2, <2>3, SetType DEF HandlersOK
<1>6. ASSUME NEW op \in {"rollback", "changeset"}, NEW S \in SUBSET (Old \X Content),
             Copy(h, op, S)
      PROVE  HandlersOK
    <2> DEFINE y == [Idle EXCEPT !.pc = "draft", !.op = op, !.from = S, !.more = S]
    <2>1. y \in Handler /\ y.pc # "publish" BY DEF Idle, Handler, Op
    <2>2. Set(h, y) BY <1>6 DEF Copy
    <2> HIDE DEF y
    <2> QED BY <1>0, <2>1, <2>2, SetType DEF HandlersOK
<1>7. ASSUME NEW rows \in SUBSET Row
      PROVE  Numbered(rows) \in SUBSET (Old \X Content)
    <2>1. \A r \in Row : r.id \in Old /\ <<r.cap, r.body>> \in Content
        BY CatalogConstants DEF Row, Ids, Old, Content
    <2> QED BY <2>1 DEF Numbered
<1>8. CASE RollbackDraft(h)
    <2>1. PICK s \in snapshots : Copy(h, "rollback", Numbered(s.rows))
        BY <1>8 DEF RollbackDraft
    <2>2. s.rows \in SUBSET Row BY <1>0 DEF Snapshot
    <2> QED BY <1>6, <1>7, <2>1, <2>2
<1>11. CASE RollbackPackage(h)
    <2>1. PICK x \in ledger : Copy(h, "rollback", {<<0, x>>}) BY <1>11 DEF RollbackPackage
    <2>2. {<<0, x>>} \in SUBSET (Old \X Content) BY <1>0, CatalogConstants DEF Old
    <2> QED BY <1>6, <2>1, <2>2
<1>12. CASE Changeset(h)
    <2>1. PICK caps \in SUBSET Caps :
            Copy(h, "changeset", Numbered(UNION {Latest(c) : c \in caps}))
        BY <1>12 DEF Changeset
    <2>2. \A c : Latest(c) \subseteq Row BY <1>0 DEF Latest
    <2>3. UNION {Latest(c) : c \in caps} \in SUBSET Row BY <2>2
    <2> QED BY <1>6, <1>7, <2>1, <2>3
<1>9. CASE Validate(h) BY <1>4, <1>9 DEF Validate
<1>10. CASE Intake(h) BY <1>4, <1>10 DEF Intake
<1> QED
    BY <1>1, <1>2, <1>3, <1>5, <1>8, <1>9, <1>10, <1>11, <1>12
       DEF Request, Create, Add, Remove, Delete

LEMMA ContinueHandlers ==
    ASSUME IInv, NEW h \in Handlers, Continue(h)
    PROVE  HandlersOK
<1>0. /\ handler \in [Handlers -> Handler] /\ ReadyToInstall
      /\ handler[h] \in Handler /\ items \subseteq Row
    BY DEF IInv, TypeOK
<1>1. CASE Return(h)
    BY <1>0, <1>1, ReturnType DEF HandlersOK
<1>2. CASE ValidateItem(h)
    <2>1. PICK r \in handler[h].rows :
            LET passed == Passes(r, handler[h].twice)
            IN Set(h, [handler[h] EXCEPT !.rows = @ \ {r}, !.bad = @ \/ ~passed])
        BY <1>2 DEF ValidateItem
    <2> DEFINE b == handler[h].bad \/ ~Passes(r, handler[h].twice)
               y == [handler[h] EXCEPT !.rows = @ \ {r}, !.bad = b]
    <2>2. Set(h, y) BY <2>1
    <2>3. b \in BOOLEAN OBVIOUS
    <2> HIDE DEF b
    <2>4. y \in Handler BY <1>0, <2>3 DEF Handler
    <2>5. y.pc # "publish" BY <1>0, <1>2 DEF ValidateItem, Handler
    <2> HIDE DEF y
    <2> QED BY <1>0, <2>2, <2>4, <2>5, SetType DEF HandlersOK
<1>3. ASSUME NEW p \in {"read", "discard"}, Set(h, [handler[h] EXCEPT !.pc = p])
      PROVE  HandlersOK
    <2> DEFINE y == [handler[h] EXCEPT !.pc = p]
    <2>1. y \in Handler /\ y.pc # "publish" BY <1>0 DEF Handler
    <2>2. Set(h, y) BY <1>3
    <2> HIDE DEF y
    <2> QED BY <1>0, <2>1, <2>2, SetType DEF HandlersOK
<1>4. CASE ReadForPublish(h)
    <2>1. PICK d \in handler[h].draft :
            Set(h, IF Exists(d) /\ ~Refused(ItemsOf(d))
                   THEN [handler[h] EXCEPT !.pc = "publish", !.rows = Ready(ItemsOf(d))]
                   ELSE Idle)
        BY <1>4 DEF ReadForPublish
    <2>2. CASE Exists(d) /\ ~Refused(ItemsOf(d))
        <3> DEFINE R == Ready(ItemsOf(d))
                   y == [handler[h] EXCEPT !.pc = "publish", !.rows = R]
        <3>1. R \in SUBSET Row BY <1>0 DEF Ready, ItemsOf
        <3>2. \A r \in R : r.body \in Installable BY <2>2 DEF Refused
        <3>3. Set(h, y) BY <2>1, <2>2
        <3> HIDE DEF R
        <3>4. y \in Handler /\ y.rows = R BY <1>0, <3>1 DEF Handler
        <3> HIDE DEF y
        <3> QED BY <1>0, <3>2, <3>3, <3>4, SetType DEF HandlersOK
    <2>3. CASE ~(Exists(d) /\ ~Refused(ItemsOf(d)))
        BY <1>1, <2>1, <2>3 DEF Return
    <2> QED BY <2>2, <2>3
<1>5. CASE CopyCreate(h)
    <2>1. PICK d \in Drafts : Set(h, [handler[h] EXCEPT !.pc = "adopt", !.draft = {d}])
        BY <1>5 DEF CopyCreate
    <2> DEFINE y == [handler[h] EXCEPT !.pc = "adopt", !.draft = {d}]
    <2>2. y \in Handler /\ y.pc # "publish" BY <1>0 DEF Handler
    <2>3. Set(h, y) BY <2>1
    <2> HIDE DEF y
    <2> QED BY <1>0, <2>2, <2>3, SetType DEF HandlersOK
<1>6. CASE Adopt(h)
    <2>1. PICK x \in handler[h].more :
            Return(h) \/ Set(h, [handler[h] EXCEPT !.more = @ \ {x}])
        BY <1>6 DEF Adopt
    <2> DEFINE y == [handler[h] EXCEPT !.more = @ \ {x}]
    <2>2. y \in Handler BY <1>0 DEF Handler
    <2>3. y.pc # "publish" BY <1>0, <1>6 DEF Adopt, Handler
    <2>4. Return(h) \/ Set(h, y) BY <2>1
    <2> HIDE DEF y
    <2> QED BY <1>0, <1>1, <2>2, <2>3, <2>4, SetType DEF HandlersOK
<1>7. CASE Adopted(h)
    <2>1. PICK d \in handler[h].draft :
            Set(h, IF handler[h].op = "changeset" THEN [handler[h] EXCEPT !.pc = "read"]
                   ELSE Reading(handler[h], d))
        BY <1>7 DEF Adopted
    <2>2. d \in Drafts BY <1>0, <2>1 DEF Handler
    <2>3. CASE handler[h].op = "changeset" BY <1>3, <2>1, <2>3
    <2>4. CASE handler[h].op # "changeset"
        BY <1>0, <2>1, <2>2, <2>4, ReadingType, SetType DEF HandlersOK
    <2> QED BY <2>3, <2>4
<1>8. CASE Validated(h)
    BY <1>1, <1>3, <1>8 DEF Validated
<1> QED
    BY <1>1, <1>2, <1>4, <1>5, <1>6, <1>7, <1>8
       DEF Continue, Edit, SaveVersion, Discard, PublishDraft, PublishRows, PublishRaises
-----------------------------------------------------------------------------
(* The catalog.                                                            *)

CatalogOK ==
    /\ record' \in [Caps -> Record] /\ ledger' \subseteq Content
    /\ artifact' \in [Caps -> Bodies \cup {NoBody}]
    /\ release' \in Releases /\ cache' \in [Caps -> Bodies \cup {NoBody}]
    /\ RecordsHaveContent' /\ InstalledIsInstallable' /\ ArtifactIsCurrent'

(* What a start of the process does to one capability.                     *)
LEMMA SyncOne ==
    ASSUME NEW rel \in Releases, NEW rec \in [Caps -> Record], NEW c \in Caps,
           rec[c].state # "absent" => rec[c].spec \in Bodies,
           rec[c].spec \in Installable \cup {NoBody}
    PROVE  /\ Synced(rel, rec)[c] \in Record
           /\ Synced(rel, rec)[c].state # "absent" => Synced(rel, rec)[c].spec \in Bodies
           /\ Synced(rel, rec)[c].spec \in Installable \cup {NoBody}
           /\ IsReplaced(rec[c]) => Synced(rel, rec)[c] = rec[c]
           /\ IsReplaced(Synced(rel, rec)[c]) => Synced(rel, rec)[c] = rec[c]
<1> DEFINE s == Synced(rel, rec)[c]
<1>1. rec[c] \in Record OBVIOUS
<1>2. rel[c] \in Installable \cup {NoBody} /\ Installable \subseteq Bodies
    BY CatalogConstants
<1>3. CASE rel[c] = NoBody
    <2> DEFINE t == IF rec[c].state = "installed" /\ rec[c].source = "builtin"
                    THEN "retired" ELSE rec[c].state
               y == [rec[c] EXCEPT !.state = t]
    <2>1. s = y BY <1>3 DEF Synced
    <2>2. /\ t \in {"absent", "installed", "retired"}
          /\ t = "absent" <=> rec[c].state = "absent"
          /\ IsReplaced(rec[c]) => t = rec[c].state
          /\ t = "installed" => t = rec[c].state
        BY <1>1 DEF Record, IsReplaced
    <2> HIDE DEF t
    <2>3. /\ y \in Record /\ y.state = t /\ y.spec = rec[c].spec
          /\ t = rec[c].state => y = rec[c]
        BY <1>1, <2>2 DEF Record
    <2> HIDE DEF y, s
    <2> QED BY <1>1, <2>1, <2>2, <2>3 DEF IsReplaced, s
<1>4. CASE rel[c] # NoBody /\ IsReplaced(rec[c])
    <2>1. s = rec[c] BY <1>4 DEF Synced
    <2> QED BY <1>1, <2>1
<1>5. CASE rel[c] # NoBody /\ ~IsReplaced(rec[c])
    <2> DEFINE b == IF rec[c].code = NoBody THEN CodeOf(rel[c]) ELSE rec[c].code
               y == [state |-> "installed", source |-> "builtin",
                     spec |-> rel[c], code |-> b]
    <2>1. s = y BY <1>5 DEF Synced
    <2>2. b \in Bodies \cup {NoBody} BY <1>1, <1>2 DEF Record, CodeOf
    <2> HIDE DEF b
    <2>3. y \in Record /\ ~IsReplaced(y) /\ y.spec = rel[c]
        BY <1>2, <2>2 DEF Record, IsReplaced
    <2> HIDE DEF y, s
    <2> QED BY <1>2, <1>5, <2>1, <2>3 DEF s
<1> QED BY <1>3, <1>4, <1>5

LEMMA SyncAll ==
    ASSUME NEW rel \in Releases, NEW rec \in [Caps -> Record],
           \A c \in Caps : rec[c].state # "absent" => rec[c].spec \in Bodies,
           \A c \in Caps : rec[c].spec \in Installable \cup {NoBody}
    PROVE  /\ Synced(rel, rec) \in [Caps -> Record]
           /\ Entered(Synced(rel, rec)) \subseteq Content
<1>1. Synced(rel, rec) = [c \in Caps |-> Synced(rel, rec)[c]] BY DEF Synced
<1>2. \A c \in Caps : Synced(rel, rec)[c] \in Record BY SyncOne
<1>3. Synced(rel, rec) \in [Caps -> Record] BY <1>1, <1>2
<1>4. \A c \in Caps : Synced(rel, rec)[c].state # "absent" =>
                         Synced(rel, rec)[c].spec \in Bodies
    BY SyncOne
<1>5. Entered(Synced(rel, rec)) \subseteq Content BY <1>4 DEF Entered, Content
<1> QED BY <1>3, <1>5

(* What a publication does to one capability.                              *)
LEMMA BodyForType ==
    ASSUME NEW rows \in SUBSET Row, NEW c, Defines(rows, c)
    PROVE  BodyFor(rows, c) \in Bodies /\ \E r \in rows : BodyFor(rows, c) = r.body
<1>1. PICK r \in rows : r = CHOOSE q \in rows : q.cap = c BY DEF Defines
<1> QED BY <1>1 DEF BodyFor, Row

LEMMA InstallOne ==
    ASSUME NEW rows \in SUBSET Row, \A r \in rows : r.body \in Installable,
           NEW rec \in [Caps -> Record], NEW files \in [Caps -> Bodies \cup {NoBody}],
           NEW c \in Caps
    PROVE  \/ /\ Installed(rec, rows)[c] = rec[c]
              /\ Written(files, rows)[c] = files[c]
           \/ /\ Installed(rec, rows)[c] \in Record
              /\ Installed(rec, rows)[c].spec \in Installable
              /\ \/ Installed(rec, rows)[c].code = NoBody
                 \/ Written(files, rows)[c] = Installed(rec, rows)[c].code
<1>1. CASE Defines(rows, c)
    <2> DEFINE b == BodyFor(rows, c)
               k == CodeOf(b)
    <2>1. b \in Installable BY <1>1, BodyForType
    <2>2. k \in Bodies \cup {NoBody} /\ (k = NoBody \/ (b \in WithCode /\ k = b))
        BY <1>1, BodyForType DEF CodeOf
    <2>3. Installed(rec, rows)[c] = [state |-> "installed", source |-> "publication",
                                     spec |-> b, code |-> k]
        BY <1>1 DEF Installed
    <2>4. b \in WithCode => Written(files, rows)[c] = b BY <1>1 DEF Written
    <2> HIDE DEF b, k
    <2> QED BY <2>1, <2>2, <2>3, <2>4, CatalogConstants DEF Record
<1>2. CASE ~Defines(rows, c)
    BY <1>2 DEF Installed, Written
<1> QED BY <1>1, <1>2

LEMMA InstallAll ==
    ASSUME NEW rows \in SUBSET Row, \A r \in rows : r.body \in Installable,
           NEW rec \in [Caps -> Record]
    PROVE  Installed(rec, rows) \in [Caps -> Record] /\ Contents(rows) \subseteq Content
<1> DEFINE files == [c \in Caps |-> NoBody]
<1>1. Installed(rec, rows) = [c \in Caps |-> Installed(rec, rows)[c]] BY DEF Installed
<1>2. files \in [Caps -> Bodies \cup {NoBody}] OBVIOUS
<1> HIDE DEF files
<1>3. \A c \in Caps : Installed(rec, rows)[c] \in Record BY <1>2, InstallOne
<1>4. Contents(rows) \subseteq Content BY DEF Contents, Content, Row
<1> QED BY <1>1, <1>3, <1>4

LEMMA WrittenType ==
    ASSUME NEW rows \in SUBSET Row, NEW files \in [Caps -> Bodies \cup {NoBody}]
    PROVE  Written(files, rows) \in [Caps -> Bodies \cup {NoBody}]
BY BodyForType DEF Written

LEMMA PublishCatalog ==
    ASSUME IInv, NEW h \in Handlers, PublishDraft(h)
    PROVE  CatalogOK
<1> DEFINE rows == handler[h].rows
<1>0. /\ record \in [Caps -> Record] /\ artifact \in [Caps -> Bodies \cup {NoBody}]
      /\ ledger \subseteq Content /\ release \in Releases
      /\ cache \in [Caps -> Bodies \cup {NoBody}] /\ handler[h] \in Handler
      /\ RecordsHaveContent /\ InstalledIsInstallable /\ ArtifactIsCurrent
      /\ faults \in Nat
    BY CatalogConstants DEF IInv, TypeOK
<1>1. rows \in SUBSET Row BY <1>0 DEF Handler
<1>2. \A r \in rows : r.body \in Installable BY DEF IInv, ReadyToInstall, PublishDraft
<1>3. /\ record' = Installed(record, rows) /\ ledger' = ledger \cup Contents(rows)
      /\ UNCHANGED <<release, cache>>
    BY DEF PublishDraft, PublishRows, process
<1>4. PICK lost \in SUBSET rows :
        /\ artifact' = Written(artifact, rows \ lost)
        /\ \/ lost = {} /\ faults' = faults
           \/ lost # {} /\ faults < MaxFaults /\ faults' = faults + 1
    BY DEF PublishDraft, PublishRows
<1> HIDE DEF rows
<1>5. record' \in [Caps -> Record] /\ ledger' \subseteq Content
    BY <1>0, <1>1, <1>2, <1>3, InstallAll
<1>6. rows \ lost \in SUBSET Row BY <1>1
<1>7. artifact' \in [Caps -> Bodies \cup {NoBody}] BY <1>0, <1>4, <1>6, WrittenType
<1>8. ASSUME NEW c \in Caps
      PROVE  \/ /\ record'[c] = record[c]
                /\ lost = {} => artifact'[c] = artifact[c]
             \/ /\ record'[c].spec \in Installable
                /\ lost = {} /\ record'[c].code # NoBody => artifact'[c] = record'[c].code
    <2>1. lost = {} => artifact' = Written(artifact, rows) BY <1>4
    <2> QED BY <1>0, <1>1, <1>2, <1>3, <2>1, SMTT(60), InstallOne
<1>9. RecordsHaveContent' /\ InstalledIsInstallable'
    BY <1>0, <1>8, CatalogConstants DEF RecordsHaveContent, InstalledIsInstallable
<1>10. ArtifactIsCurrent'
    <2>1. CASE lost = {} BY <1>0, <1>4, <1>8, <2>1 DEF ArtifactIsCurrent
    <2>2. CASE lost # {} BY <1>0, <1>4, <2>2 DEF ArtifactIsCurrent
    <2> QED BY <2>1, <2>2
<1> QED BY <1>0, <1>3, <1>5, <1>7, <1>9, <1>10 DEF CatalogOK

(* The merge, at a start of the process or while it runs.                  *)
LEMMA SyncCatalog ==
    ASSUME IInv, release' \in Releases, record' = Synced(release', record),
           ledger' = ledger \cup Entered(record'),
           cache' \in [Caps -> Bodies \cup {NoBody}],
           artifact' = artifact, faults' = faults
    PROVE  CatalogOK
<1>0. /\ record \in [Caps -> Record] /\ artifact \in [Caps -> Bodies \cup {NoBody}]
      /\ ledger \subseteq Content
      /\ RecordsHaveContent /\ InstalledIsInstallable /\ ArtifactIsCurrent
    BY DEF IInv, TypeOK
<1>2. record' \in [Caps -> Record] /\ Entered(record') \subseteq Content
    BY <1>0, SyncAll DEF RecordsHaveContent, InstalledIsInstallable
<1>3. ASSUME NEW c \in Caps
      PROVE  /\ record'[c].state # "absent" => record'[c].spec \in Bodies
             /\ record'[c].spec \in Installable \cup {NoBody}
             /\ IsReplaced(record'[c]) => record'[c] = record[c]
    BY <1>0, SyncOne DEF RecordsHaveContent, InstalledIsInstallable
<1>4. RecordsHaveContent' /\ InstalledIsInstallable'
    BY <1>3 DEF RecordsHaveContent, InstalledIsInstallable
<1>5. ArtifactIsCurrent' BY <1>0, <1>3 DEF ArtifactIsCurrent
<1> QED BY <1>0, <1>2, <1>4, <1>5 DEF CatalogOK

LEMMA RestartCatalog ==
    ASSUME IInv, Restart \/ Resync
    PROVE  CatalogOK
<1>1. CASE Restart
    <2>1. cache' \in [Caps -> Bodies \cup {NoBody}] BY <1>1 DEF Restart
    <2> QED BY <1>1, <2>1, SyncCatalog DEF Restart
<1>2. CASE Resync
    <2>1. cache' \in [Caps -> Bodies \cup {NoBody}] /\ release' \in Releases
          /\ release' = release
        BY <1>2 DEF Resync, process, IInv, TypeOK
    <2> QED BY <1>2, <2>1, SyncCatalog DEF Resync, bounds
<1> QED BY <1>1, <1>2

LEMMA FaultCatalog ==
    ASSUME IInv, NEW h \in Handlers, Fault(h)
    PROVE  CatalogOK
<1>0. /\ record \in [Caps -> Record] /\ artifact \in [Caps -> Bodies \cup {NoBody}]
      /\ ledger \subseteq Content /\ release \in Releases
      /\ cache \in [Caps -> Bodies \cup {NoBody}] /\ handler[h] \in Handler
      /\ RecordsHaveContent /\ InstalledIsInstallable /\ faults \in Nat
    BY CatalogConstants DEF IInv, TypeOK
<1>1. /\ UNCHANGED <<record, ledger, release, cache>> /\ faults' = faults + 1
    BY DEF Fault, process
<1>2. PICK n \in 0 .. MaxItems :
        artifact' = IF handler[h].pc = "publish" /\ References(h)
                    THEN Written(artifact, {r \in handler[h].rows : r.id <= n})
                    ELSE artifact
    BY DEF Fault
<1>3. {r \in handler[h].rows : r.id <= n} \in SUBSET Row BY <1>0 DEF Handler
<1>4. artifact' \in [Caps -> Bodies \cup {NoBody}] BY <1>0, <1>2, <1>3, WrittenType
<1>5. ArtifactIsCurrent' BY <1>0, <1>1 DEF ArtifactIsCurrent
<1> QED
    BY <1>0, <1>1, <1>4, <1>5
       DEF CatalogOK, RecordsHaveContent, InstalledIsInstallable

LEMMA CatalogStep ==
    ASSUME IInv, [Next]_vars
    PROVE  CatalogOK
<1>0. /\ record \in [Caps -> Record] /\ ledger \subseteq Content
      /\ artifact \in [Caps -> Bodies \cup {NoBody}]
      /\ release \in Releases /\ cache \in [Caps -> Bodies \cup {NoBody}]
      /\ RecordsHaveContent /\ InstalledIsInstallable /\ ArtifactIsCurrent
    BY DEF IInv, TypeOK
<1>1. CASE UNCHANGED <<catalog, process, faults>>
    BY <1>0, <1>1
       DEF CatalogOK, catalog, process, RecordsHaveContent, InstalledIsInstallable,
           ArtifactIsCurrent
<1>2. CASE \E c \in Caps : Lookup(c)
    <2>1. PICK c \in Caps : Lookup(c) BY <1>2
    <2>2. record[c].spec \in Bodies BY <1>0, <2>1 DEF Lookup, RecordsHaveContent
    <2>3. /\ cache' = [cache EXCEPT ![c] = record[c].spec]
          /\ UNCHANGED <<record, ledger, artifact, release, faults>>
        BY <2>1 DEF Lookup, catalog, bounds
    <2> QED
        BY <1>0, <2>2, <2>3
           DEF CatalogOK, RecordsHaveContent, InstalledIsInstallable, ArtifactIsCurrent
<1>3. ASSUME NEW h \in Handlers, Request(h) PROVE CatalogOK
    BY <1>1, <1>3
       DEF Request, Call, Copy, Create, Add, Remove, Delete, Update, Save, Validate,
           Publish, Intake, RollbackDraft,
           RollbackPackage, Changeset
<1>4. ASSUME NEW h \in Handlers, Continue(h) PROVE CatalogOK
    <2>1. CASE PublishDraft(h) BY <2>1, PublishCatalog
    <2>2. CASE ~PublishDraft(h)
        BY <1>1, <1>4, <2>2
           DEF Continue, bounds, Edit, SaveVersion, ValidateItem, Validated, Discard,
               ReadForPublish, PublishRaises, CopyCreate, Adopt, Adopted
    <2> QED BY <2>1, <2>2
<1>5. CASE UNCHANGED vars BY <1>1, <1>5 DEF vars, bounds
<1> QED BY <1>2, <1>3, <1>4, <1>5, RestartCatalog, FaultCatalog DEF Next

-----------------------------------------------------------------------------
(* The tables of the drafts.                                               *)

DraftsOK ==
    /\ draft' \in [Drafts -> {"new", "draft", "published", "deleted"}]
    /\ items' \subseteq Row /\ made' \in 0 .. MaxItems
    /\ \A r, q \in items' : r.id = q.id => r = q
    /\ snapshots' \subseteq Snapshot
    /\ IdsSpent'

LEMMA NewItemOK ==
    ASSUME IInv, NEW d \in Drafts, NEW x \in Content, NewItem(d, x),
           UNCHANGED <<draft, snapshots>>
    PROVE  DraftsOK
<1>0. /\ draft \in [Drafts -> {"new", "draft", "published", "deleted"}]
      /\ items \subseteq Row /\ made \in 0 .. MaxItems
      /\ \A r, q \in items : r.id = q.id => r = q
      /\ snapshots \subseteq Snapshot
      /\ \A r \in items : r.id \in Nat /\ r.id <= made
    BY CatalogConstants DEF IInv, TypeOK, IdsSpent, Row, Ids
<1> DEFINE y == [id |-> made + 1, draft |-> d, cap |-> x[1], body |-> x[2],
                 state |-> "draft"]
<1>1. /\ made < MaxItems /\ made' = made + 1 /\ items' = items \cup {y}
    BY DEF NewItem
<1>2. y \in Row /\ y.id = made + 1
    BY <1>0, <1>1, CatalogConstants DEF Row, Ids, Content
<1> HIDE DEF y
<1>3. \A r, q \in items' : r.id = q.id => r = q BY <1>0, <1>1, <1>2
<1>4. \A r \in items' : r.id <= made' BY <1>0, <1>1, <1>2
<1> QED BY <1>0, <1>1, <1>2, <1>3, <1>4, CatalogConstants DEF DraftsOK, IdsSpent

(* Items rewritten one by one, keeping their ids.                          *)
LEMMA RewriteOK ==
    ASSUME IInv, NEW f, \A q \in items : f[q] \in Row /\ f[q].id = q.id,
           items' = {f[q] : q \in items},
           draft' \in [Drafts -> {"new", "draft", "published", "deleted"}],
           snapshots' \subseteq Snapshot, made' = made
    PROVE  DraftsOK
<1>0. /\ items \subseteq Row /\ made \in 0 .. MaxItems
      /\ \A r, q \in items : r.id = q.id => r = q
      /\ \A r \in items : r.id <= made
    BY DEF IInv, TypeOK, IdsSpent
<1>1. items' \subseteq Row OBVIOUS
<1>2. \A r, q \in items' : r.id = q.id => r = q BY <1>0
<1>3. \A r \in items' : r.id <= made' BY <1>0
<1> QED BY <1>0, <1>1, <1>2, <1>3 DEF DraftsOK, IdsSpent

LEMMA WriteOK ==
    ASSUME IInv, NEW r \in Row, NEW changed,
           \A q \in items : changed[q] \in Row /\ changed[q].id = q.id,
           Write(r, changed), UNCHANGED <<draft, made, snapshots>>
    PROVE  DraftsOK
<1> DEFINE f == [q \in items |-> IF q.id = r.id THEN changed[q] ELSE q]
<1>0. /\ draft \in [Drafts -> {"new", "draft", "published", "deleted"}]
      /\ items \subseteq Row /\ snapshots \subseteq Snapshot
    BY DEF IInv, TypeOK
<1>1. \A q \in items : f[q] \in Row /\ f[q].id = q.id BY <1>0
<1>2. items' = {f[q] : q \in items} BY DEF Write
<1> HIDE DEF f
<1> QED BY <1>0, <1>1, <1>2, RewriteOK

LEMMA DropOK ==
    ASSUME IInv, items' \subseteq items, made' = made,
           draft' \in [Drafts -> {"new", "draft", "published", "deleted"}],
           snapshots' \subseteq Snapshot
    PROVE  DraftsOK
BY DEF IInv, TypeOK, IdsSpent, DraftsOK

LEMMA DeleteOK ==
    ASSUME IInv, NEW d \in Drafts, DeleteDraft(d)
    PROVE  DraftsOK
<1>1. /\ draft' \in [Drafts -> {"new", "draft", "published", "deleted"}]
      /\ items' \subseteq items /\ snapshots' \subseteq Snapshot /\ made' = made
    BY DEF IInv, TypeOK, DeleteDraft
<1> QED BY <1>1, DropOK

LEMMA RequestDrafts ==
    ASSUME IInv, NEW h \in Handlers, Request(h)
    PROVE  DraftsOK
<1>0. /\ draft \in [Drafts -> {"new", "draft", "published", "deleted"}]
      /\ items \subseteq Row /\ snapshots \subseteq Snapshot
    BY DEF IInv, TypeOK
<1>1. CASE UNCHANGED drafts
    BY <1>0, <1>1, DropOK DEF drafts
<1>2. CASE Create(h)
    <2>1. /\ draft' \in [Drafts -> {"new", "draft", "published", "deleted"}]
          /\ UNCHANGED <<items, made, snapshots>>
        BY <1>0, <1>2 DEF Create
    <2> QED BY <1>0, <2>1, DropOK
<1>3. CASE Add(h)
    BY <1>3, NewItemOK DEF Add
<1>4. CASE Remove(h)
    <2>1. PICK r \in items :
            /\ items' = items \ {r}
            /\ snapshots' =
                 {IF s.kind = "publication"
                  THEN [s EXCEPT !.rows = {q \in @ : q.id # r.id}] ELSE s : s \in snapshots}
        BY <1>4 DEF Remove
    <2>2. ASSUME NEW s \in snapshots
          PROVE  [s EXCEPT !.rows = {q \in @ : q.id # r.id}] \in Snapshot
        <3> DEFINE R == {q \in s.rows : q.id # r.id}
        <3>1. s \in Snapshot BY <1>0
        <3>2. R \in SUBSET Row BY <3>1 DEF Snapshot
        <3> HIDE DEF R
        <3>3. [s EXCEPT !.rows = R] \in Snapshot BY <3>1, <3>2 DEF Snapshot
        <3> QED BY <3>3 DEF R
    <2>3. snapshots' \subseteq Snapshot BY <1>0, <2>1, <2>2
    <2>4. draft' = draft /\ made' = made BY <1>4 DEF Remove
    <2> QED BY <1>0, <2>1, <2>3, <2>4, DropOK
<1>5. CASE Delete(h)
    BY <1>5, DeleteOK DEF Delete
<1> QED
    BY <1>1, <1>2, <1>3, <1>4, <1>5
       DEF Request, Copy, Update, Save, Validate, Publish, Intake, RollbackDraft,
           RollbackPackage, Changeset

LEMMA ContinueDrafts ==
    ASSUME IInv, NEW h \in Handlers, Continue(h)
    PROVE  DraftsOK
<1>0. /\ draft \in [Drafts -> {"new", "draft", "published", "deleted"}]
      /\ items \subseteq Row /\ snapshots \subseteq Snapshot /\ handler[h] \in Handler
    BY DEF IInv, TypeOK
<1>1. CASE UNCHANGED drafts
    BY <1>0, <1>1, DropOK DEF drafts
<1>2. CASE Edit(h)
    <2>1. PICK r \in handler[h].rows, x \in Content :
            Write(r, [q \in items |->
              [q EXCEPT !.cap = x[1], !.body = x[2], !.state = "draft"]])
        BY <1>2 DEF Edit
    <2> DEFINE g == [q \in items |->
                       [q EXCEPT !.cap = x[1], !.body = x[2], !.state = "draft"]]
    <2>2. r \in Row BY <1>0 DEF Handler
    <2>3. x[1] \in Caps /\ x[2] \in Bodies BY DEF Content
    <2>4. \A q \in items : g[q] \in Row /\ g[q].id = q.id BY <1>0, <2>3 DEF Row
    <2>5. UNCHANGED <<draft, made, snapshots>> BY <1>2 DEF Edit
    <2>6. Write(r, g) BY <2>1
    <2> HIDE DEF g
    <2> QED BY <2>2, <2>4, <2>5, <2>6, WriteOK
<1>3. CASE SaveVersion(h)
    <2>1. snapshots' = snapshots \cup
            {[kind |-> "version", draft |-> d, rows |-> handler[h].rows] :
               d \in {x \in handler[h].draft : Exists(x)}}
        BY <1>3 DEF SaveVersion
    <2>2. snapshots' \subseteq Snapshot BY <1>0, <2>1 DEF Handler, Snapshot
    <2>3. UNCHANGED <<draft, items, made>> BY <1>3 DEF SaveVersion
    <2> QED BY <1>0, <2>2, <2>3, DropOK
<1>4. CASE ValidateItem(h)
    <2>1. PICK r \in handler[h].rows :
            LET passed == Passes(r, handler[h].twice)
            IN Write(r, [q \in items |->
                 [q EXCEPT !.state = IF passed THEN "validated" ELSE "draft"]])
        BY <1>4 DEF ValidateItem
    <2> DEFINE t == IF Passes(r, handler[h].twice) THEN "validated" ELSE "draft"
               g == [q \in items |-> [q EXCEPT !.state = t]]
    <2>2. r \in Row BY <1>0 DEF Handler
    <2>3. t \in {"draft", "validated", "published"} OBVIOUS
    <2>4. Write(r, g) BY <2>1
    <2>5. UNCHANGED <<draft, made, snapshots>> BY <1>4 DEF ValidateItem
    <2> HIDE DEF t
    <2>6. \A q \in items : g[q] \in Row /\ g[q].id = q.id BY <1>0, <2>3 DEF Row
    <2> HIDE DEF g
    <2> QED BY <2>2, <2>4, <2>5, <2>6, WriteOK
<1>5. CASE Discard(h)
    <2>1. PICK d \in handler[h].draft :
            IF Exists(d) THEN DeleteDraft(d) ELSE UNCHANGED drafts
        BY <1>5 DEF Discard
    <2>2. d \in Drafts BY <1>0, <2>1 DEF Handler
    <2> QED BY <1>1, <2>1, <2>2, DeleteOK
<1>6. CASE PublishDraft(h)
    <2> DEFINE rows == handler[h].rows
    <2>1. PICK d \in handler[h].draft :
            /\ items' = {IF q.draft = d /\ q.state = "validated"
                         THEN [q EXCEPT !.state = "published"] ELSE q : q \in items}
            /\ draft' = [draft EXCEPT ![d] = "published"]
            /\ snapshots' = snapshots \cup
                 {[kind |-> "publication", draft |-> d, rows |-> rows]}
        BY <1>6 DEF PublishDraft, PublishRows
    <2>2. d \in Drafts /\ rows \in SUBSET Row BY <1>0, <2>1 DEF Handler
    <2>3. draft' \in [Drafts -> {"new", "draft", "published", "deleted"}]
        BY <1>0, <2>1
    <2>4. snapshots' \subseteq Snapshot BY <1>0, <2>1, <2>2 DEF Snapshot
    <2>5. made' = made BY <1>6 DEF PublishDraft, PublishRows
    <2> DEFINE f == [q \in items |-> IF q.draft = d /\ q.state = "validated"
                                     THEN [q EXCEPT !.state = "published"] ELSE q]
    <2>6. \A q \in items : f[q] \in Row /\ f[q].id = q.id BY <1>0 DEF Row
    <2>7. items' = {f[q] : q \in items} BY <2>1
    <2> HIDE DEF f, rows
    <2> QED BY <2>3, <2>4, <2>5, <2>6, <2>7, RewriteOK
<1>7. CASE CopyCreate(h)
    <2>1. draft' \in [Drafts -> {"new", "draft", "published", "deleted"}]
        BY <1>0, <1>7 DEF CopyCreate
    <2>2. UNCHANGED <<items, made, snapshots>> BY <1>7 DEF CopyCreate
    <2> QED BY <1>0, <2>1, <2>2, DropOK
<1>8. CASE Adopt(h)
    <2>1. PICK d \in handler[h].draft, x \in handler[h].more :
            NewItem(d, x[2]) \/ UNCHANGED <<items, made>>
        BY <1>8 DEF Adopt
    <2>2. d \in Drafts /\ x[2] \in Content BY <1>0, <2>1 DEF Handler
    <2>3. UNCHANGED <<draft, snapshots>> BY <1>8 DEF Adopt
    <2>4. CASE NewItem(d, x[2]) BY <2>2, <2>3, <2>4, NewItemOK
    <2>5. CASE UNCHANGED <<items, made>> BY <1>0, <2>3, <2>5, DropOK
    <2> QED BY <2>1, <2>4, <2>5
<1> QED
    BY <1>1, <1>2, <1>3, <1>4, <1>5, <1>6, <1>7, <1>8
       DEF Continue, Validated, ReadForPublish, PublishRaises, Adopted

-----------------------------------------------------------------------------
(* The invariant.                                                          *)

BoundsOK == /\ calls' \in 0 .. MaxCalls /\ faults' \in 0 .. MaxFaults
            /\ restarts' \in 0 .. MaxRestarts

LEMMA BoundsStep ==
    ASSUME IInv, [Next]_vars
    PROVE  BoundsOK
<1>0. /\ calls \in 0 .. MaxCalls /\ faults \in 0 .. MaxFaults
      /\ restarts \in 0 .. MaxRestarts
      /\ MaxCalls \in Nat /\ MaxFaults \in Nat /\ MaxRestarts \in Nat
    BY CatalogConstants DEF IInv, TypeOK
<1>1. CASE UNCHANGED bounds BY <1>0, <1>1 DEF BoundsOK, bounds
<1>2. ASSUME NEW h \in Handlers, NEW op, Call(h, op) PROVE BoundsOK
    BY <1>0, <1>2 DEF BoundsOK, Call
<1>3. ASSUME NEW h \in Handlers, Request(h) PROVE BoundsOK
    BY <1>2, <1>3
       DEF Request, Copy, Create, Add, Remove, Delete, Update, Save, Validate,
           Publish, Intake, RollbackDraft,
           RollbackPackage, Changeset
<1>4. ASSUME NEW h \in Handlers, Continue(h) PROVE BoundsOK
    <2>1. CASE PublishDraft(h)
        BY <1>0, <2>1 DEF BoundsOK, PublishDraft, PublishRows
    <2>2. CASE ~PublishDraft(h)
        BY <1>1, <1>4, <2>2
           DEF Continue, Edit, SaveVersion, ValidateItem, Validated, Discard,
               ReadForPublish, PublishRaises, CopyCreate, Adopt, Adopted
    <2> QED BY <2>1, <2>2
<1>5. ASSUME NEW h \in Handlers, Fault(h) PROVE BoundsOK
    BY <1>0, <1>5 DEF BoundsOK, Fault
<1>6. CASE \E c \in Caps : Lookup(c) BY <1>1, <1>6 DEF Lookup
<1>7. CASE Restart BY <1>0, <1>7 DEF BoundsOK, Restart
<1>9. CASE Resync BY <1>1, <1>9 DEF Resync
<1>8. CASE UNCHANGED vars BY <1>1, <1>8 DEF vars
<1> QED BY <1>3, <1>4, <1>5, <1>6, <1>7, <1>8, <1>9 DEF Next

LEMMA HandlersStep ==
    ASSUME IInv, [Next]_vars
    PROVE  HandlersOK
<1>0. handler \in [Handlers -> Handler] /\ ReadyToInstall BY DEF IInv, TypeOK
<1>1. CASE handler' = handler BY <1>0, <1>1 DEF HandlersOK, ReadyToInstall
<1>2. CASE \E h \in Handlers : Fault(h) BY <1>0, <1>2, ReturnType DEF Fault, HandlersOK
<1>3. CASE Restart
    <2>1. handler' = [h \in Handlers |-> Idle] BY <1>3 DEF Restart
    <2>2. Idle.pc # "publish" BY DEF Idle
    <2> QED BY <2>1, <2>2, IdleType DEF HandlersOK, ReadyToInstall
<1>4. CASE \E c \in Caps : Lookup(c) BY <1>1, <1>4 DEF Lookup
<1>5. CASE UNCHANGED vars BY <1>1, <1>5 DEF vars
<1>6. CASE Resync BY <1>1, <1>6 DEF Resync
<1> QED BY <1>2, <1>3, <1>4, <1>5, <1>6, RequestHandlers, ContinueHandlers DEF Next

LEMMA DraftsStep ==
    ASSUME IInv, [Next]_vars
    PROVE  DraftsOK
<1>1. CASE UNCHANGED drafts
    BY <1>1, DropOK DEF drafts, IInv, TypeOK
<1>2. CASE \E h \in Handlers : Fault(h) BY <1>1, <1>2 DEF Fault
<1>3. CASE Restart BY <1>1, <1>3 DEF Restart
<1>4. CASE \E c \in Caps : Lookup(c) BY <1>1, <1>4 DEF Lookup
<1>5. CASE UNCHANGED vars BY <1>1, <1>5 DEF vars
<1>6. CASE Resync BY <1>1, <1>6 DEF Resync
<1> QED BY <1>2, <1>3, <1>4, <1>5, <1>6, RequestDrafts, ContinueDrafts DEF Next

LEMMA IInvStep == IInv /\ [Next]_vars => IInv'
BY HandlersStep, CatalogStep, DraftsStep, BoundsStep
   DEF IInv, TypeOK, HandlersOK, CatalogOK, DraftsOK, BoundsOK

LEMMA IInvInit == Init => IInv
<1> SUFFICES ASSUME Init PROVE IInv OBVIOUS
<1> DEFINE none == [c \in Caps |-> Absent]
<1>1. none \in [Caps -> Record] BY DEF Absent, Record
<1>2. \A c \in Caps : none[c].state = "absent" /\ none[c].spec = NoBody /\ ~IsReplaced(none[c])
    BY DEF Absent, IsReplaced
<1>3. release \in Releases /\ record = Synced(release, none) /\ ledger = Entered(record)
    BY DEF Init
<1> HIDE DEF none
<1>4. record \in [Caps -> Record] /\ ledger \subseteq Content
    BY <1>1, <1>2, <1>3, SyncAll
<1>5. /\ RecordsHaveContent /\ InstalledIsInstallable
      /\ \A c \in Caps : ~IsReplaced(record[c])
    BY <1>1, <1>2, <1>3, SyncOne DEF RecordsHaveContent, InstalledIsInstallable
<1>6. ArtifactIsCurrent BY <1>5 DEF ArtifactIsCurrent
<1>7. ReadyToInstall
    <2>1. Idle.pc # "publish" BY DEF Idle
    <2> QED BY <2>1 DEF Init, ReadyToInstall
<1>8. TypeOK BY <1>3, <1>4, IdleType, CatalogConstants DEF Init, TypeOK
<1> QED BY <1>5, <1>6, <1>7, <1>8 DEF IInv, Init, IdsSpent

LEMMA Invariance == Spec => []IInv
BY IInvInit, IInvStep, PTL DEF Spec

-----------------------------------------------------------------------------
(* Every variable stays in its type, and two items never share an id.      *)
THEOREM TypeCorrect == Spec => []TypeOK
<1>1. IInv => TypeOK BY DEF IInv
<1> QED BY <1>1, Invariance, PTL

(* However requests, the intake, faults and starts of the process          *)
(* interleave, publish_draft and the sync of the builtin packs put nothing *)
(* into the catalog whose implementation cannot be resolved.               *)
THEOREM LiveIsInstallable == Spec => []InstalledIsInstallable
<1>1. IInv => InstalledIsInstallable BY DEF IInv
<1> QED BY <1>1, Invariance, PTL

(* As long as no publication was undone after its files were written, the  *)
(* published Python file of a capability is the code of its record.        *)
THEOREM FilesAreCurrent == Spec => []ArtifactIsCurrent
<1>1. IInv => ArtifactIsCurrent BY DEF IInv
<1> QED BY <1>1, Invariance, PTL

(* The sync at the start of the process, of whatever release, leaves every *)
(* capability that was replaced by a publication as it is.                 *)
THEOREM Survives == Spec => PublicationSurvives
<1> DEFINE Spared == \A c \in Caps :
             restarts' # restarts /\ IsReplaced(record[c]) => record'[c] = record[c]
<1>1. IInv /\ [Next]_vars => [Spared]_vars
    <2> SUFFICES ASSUME IInv, Next PROVE Spared BY DEF vars
    <2>1. CASE Restart
        BY <2>1, SyncOne
           DEF Restart, IInv, TypeOK, RecordsHaveContent, InstalledIsInstallable
    <2>2. CASE ~Restart
        <3>1. restarts' = restarts
            BY <2>2
               DEF Next, Request, Continue, Call, Copy, Create, Add, Remove, Delete,
                   Update, Save, Validate, Publish, Intake, RollbackDraft,
                   RollbackPackage, Changeset, bounds, Edit, SaveVersion, ValidateItem, Validated,
                   Discard, ReadForPublish, PublishDraft, PublishRows, PublishRaises,
                   CopyCreate,
                   Adopt, Adopted, Fault, Lookup, Resync
        <3> QED BY <3>1
    <2> QED BY <2>1, <2>2
<1> QED BY <1>1, Invariance, PTL DEF Spec, PublicationSurvives

-----------------------------------------------------------------------------
(* The merge, done once, has nothing left to do.                           *)

LEMMA SyncedAt ==
    ASSUME NEW rel, NEW rec, NEW other, NEW c \in Caps, rec[c] = other[c]
    PROVE  Synced(rel, rec)[c] = Synced(rel, other)[c]
BY DEF Synced

LEMMA SyncTwice ==
    ASSUME NEW rel \in Releases, NEW rec \in [Caps -> Record]
    PROVE  Synced(rel, Synced(rel, rec)) = Synced(rel, rec)
<1> DEFINE one == Synced(rel, rec)
           two == Synced(rel, one)
<1>0. /\ one = [c \in Caps |-> one[c]] /\ two = [c \in Caps |-> two[c]]
    BY DEF Synced
<1>1. ASSUME NEW c \in Caps PROVE two[c] = one[c]
    <2>1. rec[c] \in Record OBVIOUS
    <2>2. CASE rel[c] = NoBody
        <3> DEFINE t == IF rec[c].state = "installed" /\ rec[c].source = "builtin"
                        THEN "retired" ELSE rec[c].state
        <3>1. one[c] = [rec[c] EXCEPT !.state = t] BY <2>2 DEF Synced
        <3>2. ~(t = "installed" /\ rec[c].source = "builtin")
              /\ t \in {"absent", "installed", "retired"}
            BY <2>1 DEF Record
        <3> HIDE DEF t
        <3>3. one[c] \in Record /\ one[c].state = t /\ one[c].source = rec[c].source
            BY <2>1, <3>1, <3>2 DEF Record
        <3>4. two[c] = [one[c] EXCEPT !.state = one[c].state]
            BY <2>2, <3>2, <3>3 DEF Synced
        <3> HIDE DEF one, two
        <3> QED BY <3>3, <3>4 DEF Record
    <2>3. CASE rel[c] # NoBody /\ IsReplaced(rec[c])
        <3>1. one[c] = rec[c] BY <2>3 DEF Synced
        <3> QED BY <2>3, <3>1 DEF Synced
    <2>4. CASE rel[c] # NoBody /\ ~IsReplaced(rec[c])
        <3> DEFINE b == IF rec[c].code = NoBody THEN CodeOf(rel[c]) ELSE rec[c].code
                   y == [state |-> "installed", source |-> "builtin",
                         spec |-> rel[c], code |-> b]
        <3>1. one[c] = y BY <2>4 DEF Synced
        <3>2. b = NoBody => b = CodeOf(rel[c]) OBVIOUS
        <3> HIDE DEF b
        <3>3. ~IsReplaced(y) /\ y.code = b BY DEF IsReplaced
        <3>4. two[c] = [state |-> "installed", source |-> "builtin", spec |-> rel[c],
                        code |-> IF one[c].code = NoBody THEN CodeOf(rel[c])
                                 ELSE one[c].code]
            BY <2>4, <3>1, <3>3 DEF Synced
        <3> QED BY <3>1, <3>2, <3>3, <3>4
    <2> QED BY <2>2, <2>3, <2>4
<1> HIDE DEF one, two
<1>2. two = one BY <1>0, <1>1
<1> QED BY <1>2 DEF one, two

LEMMA InstallSettled ==
    ASSUME NEW rel, NEW rec, NEW rows, Synced(rel, rec) = rec
    PROVE  Synced(rel, Installed(rec, rows)) = Installed(rec, rows)
<1> DEFINE new == Installed(rec, rows)
<1>1. ASSUME NEW c \in Caps PROVE Synced(rel, new)[c] = new[c]
    <2>1. CASE Defines(rows, c)
        <3> DEFINE b == BodyFor(rows, c)
                   k == CodeOf(b)
                   y == [state |-> "installed", source |-> "publication",
                         spec |-> b, code |-> k]
        <3>1. new[c] = y BY <2>1 DEF Installed
        <3> HIDE DEF b, k
        <3>2. IsReplaced(y) /\ y.source # "builtin" BY DEF IsReplaced
        <3>3. [y EXCEPT !.state = y.state] = y OBVIOUS
        <3> HIDE DEF y, new
        <3> QED BY <3>1, <3>2, <3>3 DEF Synced
    <2>2. CASE ~Defines(rows, c)
        <3>1. new[c] = rec[c] BY <2>2 DEF Installed
        <3> HIDE DEF new
        <3>2. Synced(rel, new)[c] = Synced(rel, rec)[c] BY <3>1, SyncedAt
        <3> QED BY <3>1, <3>2
    <2> QED BY <2>1, <2>2
<1>2. Synced(rel, new) = [c \in Caps |-> Synced(rel, new)[c]] BY DEF Synced
<1>3. new = [c \in Caps |-> new[c]] BY DEF Installed
<1> HIDE DEF new
<1>4. Synced(rel, new) = new BY <1>1, <1>2, <1>3
<1> QED BY <1>4 DEF new

(* Whatever is published while the process runs, the merge of the builtin  *)
(* packs that every analysis and every list of the catalog repeats changes *)
(* nothing until the next start.                                           *)
THEOREM SyncHasSettled == Spec => []Settled
<1>1. Init => Settled
    <2> SUFFICES ASSUME Init PROVE Settled OBVIOUS
    <2> DEFINE none == [c \in Caps |-> Absent]
    <2>1. none \in [Caps -> Record] BY DEF Absent, Record
    <2>2. release \in Releases /\ record = Synced(release, none) BY DEF Init
    <2> HIDE DEF none
    <2> QED BY <2>1, <2>2, SyncTwice DEF Settled
<1>2. IInv /\ Settled /\ [Next]_vars => Settled'
    <2> SUFFICES ASSUME IInv, Settled, [Next]_vars PROVE Settled' OBVIOUS
    <2>0. record \in [Caps -> Record] /\ release \in Releases BY DEF IInv, TypeOK
    <2>1. CASE UNCHANGED <<record, release>> BY <2>1 DEF Settled
    <2>2. CASE Restart BY <2>0, <2>2, SyncTwice DEF Restart, Settled
    <2>3. CASE Resync BY <2>0, <2>3, SyncTwice DEF Resync, Settled, process
    <2>4. ASSUME NEW h \in Handlers, PublishDraft(h) PROVE Settled'
        <3>1. release' = release /\ record' = Installed(record, handler[h].rows)
            BY <2>4 DEF PublishDraft, PublishRows, process
        <3> QED BY <3>1, InstallSettled DEF Settled
    <2>5. ASSUME NEW h \in Handlers, Request(h) \/ Fault(h) PROVE UNCHANGED <<record, release>>
        BY <2>5
           DEF Request, Fault, Create, Add, Remove, Delete, Update, Save, Validate,
               Publish, Intake, RollbackDraft, RollbackPackage, Changeset, Copy,
               catalog, process
    <2>6. ASSUME NEW h \in Handlers, Continue(h), ~PublishDraft(h)
          PROVE  UNCHANGED <<record, release>>
        BY <2>6
           DEF Continue, Edit, SaveVersion, ValidateItem, Validated, Discard,
               ReadForPublish, PublishRaises, CopyCreate, Adopt, Adopted,
               catalog, process
    <2>7. CASE \E c \in Caps : Lookup(c) BY <2>1, <2>7 DEF Lookup, catalog
    <2>8. CASE UNCHANGED vars BY <2>1, <2>8 DEF vars, catalog, process
    <2> QED BY <2>1, <2>2, <2>3, <2>4, <2>5, <2>6, <2>7, <2>8 DEF Next
<1> QED BY <1>1, <1>2, Invariance, PTL DEF Spec

-----------------------------------------------------------------------------
(* One handler at a time.  What it has read is then what the tables hold:  *)
(* rows are the items and state the drafts.                                *)
Sequential == \A g, h \in Handlers : g = h

RowsOf(rows, d) == {r \in rows : r.draft = d}

Known(x) ==
    /\ x.pc = "edit" => x.op = "update"
    /\ x.pc = "save" => x.op = "save"
    /\ x.pc = "discard" => x.op = "intake"
    /\ x.pc \in {"draft", "adopt"} => x.op \in {"rollback", "changeset"}

(* The draft at work exists, *)
AtWork(x, state) ==
    x.pc \in {"validate", "read", "publish", "discard", "adopt"} =>
      \E d \in Drafts : x.draft = {d} /\ state[d] \in {"draft", "published"}

(* the items that are still to be validated are as they were read, and the *)
(* others have passed unless one has failed;                               *)
Validating(x, rows) ==
    x.pc = "validate" => \A d \in x.draft :
      /\ x.rows \subseteq RowsOf(rows, d)
      /\ Twice(RowsOf(rows, d)) \subseteq x.twice
      /\ \A r \in RowsOf(rows, d) \ x.rows :
           ~x.bad => r.state = "validated" /\ r.cap \notin x.twice

(* what the intake and a rollback go on to publish has been validated; *)
Checked(x, rows) ==
    x.pc = "read" /\ x.op \in {"intake", "rollback"} => \A d \in x.draft :
      /\ Twice(RowsOf(rows, d)) = {}
      /\ \A r \in RowsOf(rows, d) : r.state = "validated"

(* what is about to be published is there and defines nothing twice; *)
Offered(x, rows) ==
    x.pc = "publish" => x.rows \subseteq rows /\ Twice(x.rows) = {}

(* and a rollback has, or will have, an item for every content it restores. *)
Holds(rows, y) == \E r \in rows : <<r.cap, r.body>> = y[2]

Copied(x, rows) ==
    x.op = "rollback" =>
      /\ x.pc = "draft" => x.more = x.from
      /\ x.pc \in {"validate", "read"} => x.more = {}
      /\ x.pc \in {"adopt", "validate", "read"} =>
           \A d \in x.draft : \A y \in x.from \ x.more : Holds(RowsOf(rows, d), y)
      /\ x.pc = "publish" => \A y \in x.from : Holds(x.rows, y)

Alone(x, rows, state) ==
    /\ Known(x) /\ AtWork(x, state) /\ Validating(x, rows)
    /\ Checked(x, rows) /\ Offered(x, rows) /\ Copied(x, rows)

AInv == ValidatedIsValid /\ \A h \in Handlers : Alone(handler[h], items, draft)

StillAlone == \A g \in Handlers : Alone(handler'[g], items', draft')

LEMMA RestAlone ==
    ASSUME NEW x, x.pc = "idle", NEW rows, NEW state
    PROVE  Alone(x, rows, state)
BY DEF Alone, Known, AtWork, Validating, Checked, Offered, Copied

LEMMA SetAlone ==
    ASSUME Sequential, NEW h \in Handlers, handler \in [Handlers -> Handler],
           NEW x, Set(h, x), Alone(x, items', draft')
    PROVE  StillAlone
<1>1. handler'[h] = x BY DEF Set
<1>2. \A g \in Handlers : g = h BY DEF Sequential
<1> QED BY <1>1, <1>2 DEF StillAlone

LEMMA ReturnAlone ==
    ASSUME Sequential, NEW h \in Handlers, handler \in [Handlers -> Handler], Return(h)
    PROVE  StillAlone
<1>1. Set(h, Idle) BY DEF Return
<1>2. Idle.pc = "idle" BY DEF Idle
<1>3. Alone(Idle, items', draft') BY <1>2, RestAlone
<1> QED BY <1>1, <1>3, SetAlone

LEMMA IdleAlone ==
    ASSUME Sequential, NEW h \in Handlers, handler' = handler, handler[h].pc = "idle"
    PROVE  StillAlone
<1>1. Alone(handler[h], items', draft') BY RestAlone
<1>2. \A g \in Handlers : g = h BY DEF Sequential
<1> QED BY <1>1, <1>2 DEF StillAlone

(* Validation begins with all items of the draft.                          *)
LEMMA ReadingAlone ==
    ASSUME NEW x \in Handler, NEW d \in Drafts, Exists(d),
           x.op = "rollback" =>
             x.more = {} /\ \A y \in x.from : Holds(ItemsOf(d), y)
    PROVE  Alone(Reading(x, d), items, draft)
<1> DEFINE R == ItemsOf(d)
           T == Twice(R)
           w == Reading(x, d)
<1>1. R = RowsOf(items, d) /\ T = Twice(RowsOf(items, d)) BY DEF ItemsOf, RowsOf
<1>2. w = [x EXCEPT !.pc = "validate", !.draft = {d}, !.rows = R, !.twice = T]
    BY DEF Reading
<1> HIDE DEF R, T, w
<1>3. /\ w.pc = "validate" /\ w.draft = {d} /\ w.rows = R /\ w.twice = T
      /\ w.op = x.op /\ w.from = x.from /\ w.more = x.more
    BY <1>2 DEF Handler
<1>4. Known(w) /\ AtWork(w, draft) BY <1>3 DEF Known, AtWork, Exists
<1>5. Validating(w, items) BY <1>1, <1>3 DEF Validating
<1>6. Checked(w, items) /\ Offered(w, items) BY <1>3 DEF Checked, Offered
<1>7. x.op = "rollback" => x.more = {} /\ \A y \in x.from : Holds(RowsOf(items, d), y)
    BY <1>1 DEF R
<1>8. Copied(w, items) BY <1>3, <1>7 DEF Copied
<1> QED BY <1>4, <1>5, <1>6, <1>8 DEF Alone, w

LEMMA RequestAlone ==
    ASSUME Sequential, IInv, NEW h \in Handlers, Request(h)
    PROVE  StillAlone
<1>0. handler \in [Handlers -> Handler] BY DEF IInv, TypeOK
<1>1. handler[h].pc = "idle"
    BY DEF Request, Create, Add, Remove, Delete, Update, Save, Validate, Publish,
           Intake, RollbackDraft, RollbackPackage, Changeset, Copy, Call
<1>2. CASE handler' = handler BY <1>1, <1>2, IdleAlone
<1>3. CASE Update(h)
    <2>1. PICK r \in items :
            Set(h, [Idle EXCEPT !.pc = "edit", !.op = "update", !.rows = {r}])
        BY <1>3 DEF Update
    <2> DEFINE x == [Idle EXCEPT !.pc = "edit", !.op = "update", !.rows = {r}]
    <2>2. x.pc = "edit" /\ x.op = "update" BY DEF Idle
    <2>3. Set(h, x) BY <2>1
    <2> HIDE DEF x
    <2>4. Alone(x, items', draft')
        BY <2>2 DEF Alone, Known, AtWork, Validating, Checked, Offered, Copied
    <2> QED BY <1>0, <2>3, <2>4, SetAlone
<1>4. CASE Save(h)
    <2>1. PICK d \in Drafts :
            Set(h, [Idle EXCEPT !.pc = "save", !.op = "save", !.draft = {d},
                                !.rows = ItemsOf(d)])
        BY <1>4 DEF Save
    <2> DEFINE x == [Idle EXCEPT !.pc = "save", !.op = "save", !.draft = {d},
                                 !.rows = ItemsOf(d)]
    <2>2. x.pc = "save" /\ x.op = "save" BY DEF Idle
    <2>3. Set(h, x) BY <2>1
    <2> HIDE DEF x
    <2>4. Alone(x, items', draft')
        BY <2>2 DEF Alone, Known, AtWork, Validating, Checked, Offered, Copied
    <2> QED BY <1>0, <2>3, <2>4, SetAlone
<1>5. CASE Validate(h) \/ Intake(h)
    <2>1. PICK d \in Drafts, op \in {"validate", "intake"} :
            Exists(d) /\ Set(h, Reading([Idle EXCEPT !.op = op], d))
        BY <1>5 DEF Validate, Intake
    <2>2. items' = items /\ draft' = draft BY <1>5 DEF Validate, Intake, drafts
    <2> DEFINE x == [Idle EXCEPT !.op = op]
    <2>3. x \in Handler /\ x.op = op BY IdleType DEF Idle, Handler, Op
    <2>4. Set(h, Reading(x, d)) BY <2>1
    <2> HIDE DEF x
    <2>5. x.op # "rollback" BY <2>3
    <2>6. Alone(Reading(x, d), items, draft) BY <2>1, <2>3, <2>5, ReadingAlone
    <2>7. Alone(Reading(x, d), items', draft') BY <2>2, <2>6
    <2> QED BY <1>0, <2>4, <2>7, SetAlone
<1>6. CASE Publish(h)
    <2>1. PICK d \in Drafts :
            Exists(d) /\ Set(h, [Idle EXCEPT !.pc = "read", !.op = "publish", !.draft = {d}])
        BY <1>6 DEF Publish
    <2>2. draft' = draft BY <1>6 DEF Publish, drafts
    <2> DEFINE x == [Idle EXCEPT !.pc = "read", !.op = "publish", !.draft = {d}]
    <2>3. x.pc = "read" /\ x.op = "publish" /\ x.draft = {d} BY DEF Idle
    <2>4. Set(h, x) BY <2>1
    <2> HIDE DEF x
    <2>5. AtWork(x, draft') BY <2>1, <2>2, <2>3 DEF AtWork, Exists
    <2>6. Alone(x, items', draft')
        BY <2>3, <2>5 DEF Alone, Known, Validating, Checked, Offered, Copied
    <2> QED BY <1>0, <2>4, <2>6, SetAlone
<1>7. ASSUME NEW op \in {"rollback", "changeset"}, NEW old, Copy(h, op, old)
      PROVE  StillAlone
    <2> DEFINE x == [Idle EXCEPT !.pc = "draft", !.op = op, !.from = old, !.more = old]
    <2>1. x.pc = "draft" /\ x.op = op /\ x.from = old /\ x.more = old BY DEF Idle
    <2>2. Set(h, x) BY <1>7 DEF Copy
    <2> HIDE DEF x
    <2>3. Alone(x, items', draft')
        BY <2>1 DEF Alone, Known, AtWork, Validating, Checked, Offered, Copied
    <2> QED BY <1>0, <2>2, <2>3, SetAlone
<1> QED
    BY <1>2, <1>3, <1>4, <1>5, <1>6, <1>7
       DEF Request, Create, Add, Remove, Delete, RollbackDraft, RollbackPackage,
           Changeset, process

(* Rewriting the states of items keeps what they define.                   *)
LEMMA RewrittenAlone ==
    ASSUME NEW f, NEW d, items' = {f[q] : q \in items},
           \A q \in items : /\ f[q].draft = q.draft
                            /\ f[q].cap = q.cap /\ f[q].body = q.body
    PROVE  /\ Twice(RowsOf(items', d)) \subseteq Twice(RowsOf(items, d))
           /\ \A y : Holds(RowsOf(items, d), y) => Holds(RowsOf(items', d), y)
<1>1. ASSUME NEW c \in Twice(RowsOf(items', d)) PROVE c \in Twice(RowsOf(items, d))
    <2>1. PICK a \in RowsOf(items', d), b \in RowsOf(items', d) :
            a # b /\ a.cap = c /\ b.cap = c
        BY DEF Twice
    <2>2. PICK p \in items : a = f[p] BY <2>1 DEF RowsOf
    <2>3. PICK q \in items : b = f[q] BY <2>1 DEF RowsOf
    <2>4. p \in RowsOf(items, d) /\ q \in RowsOf(items, d)
        BY <2>1, <2>2, <2>3 DEF RowsOf
    <2>5. p # q /\ p.cap = c /\ q.cap = c BY <2>1, <2>2, <2>3
    <2>6. c \in Caps BY DEF Twice
    <2> QED BY <2>4, <2>5, <2>6 DEF Twice
<1>2. ASSUME NEW y, Holds(RowsOf(items, d), y) PROVE Holds(RowsOf(items', d), y)
    <2>1. PICK q \in RowsOf(items, d) : <<q.cap, q.body>> = y[2] BY <1>2 DEF Holds
    <2>2. f[q] \in RowsOf(items', d) BY <2>1 DEF RowsOf
    <2>3. <<f[q].cap, f[q].body>> = y[2] BY <2>1 DEF RowsOf
    <2> QED BY <2>2, <2>3 DEF Holds
<1> QED BY <1>1, <1>2

LEMMA ValidateItemAlone ==
    ASSUME Sequential, IInv, AInv, NEW h \in Handlers, ValidateItem(h)
    PROVE  StillAlone /\ ValidatedIsValid'
<1> DEFINE x == handler[h]
<1>0. /\ handler \in [Handlers -> Handler] /\ x \in Handler /\ items \subseteq Row
      /\ \A p, q \in items : p.id = q.id => p = q
    BY DEF IInv, TypeOK
<1>1. x.pc = "validate" /\ draft' = draft BY DEF ValidateItem
<1>2. Alone(x, items, draft) BY DEF AInv
<1>3. PICK d \in Drafts : x.draft = {d} /\ draft[d] \in {"draft", "published"}
    BY <1>1, <1>2 DEF Alone, AtWork
<1>4. PICK r \in x.rows :
        /\ Write(r, [q \in items |-> [q EXCEPT !.state =
                       IF Passes(r, x.twice) THEN "validated" ELSE "draft"]])
        /\ Set(h, [x EXCEPT !.rows = @ \ {r}, !.bad = @ \/ ~Passes(r, x.twice)])
    BY DEF ValidateItem
<1> DEFINE s == IF Passes(r, x.twice) THEN "validated" ELSE "draft"
           f == [q \in items |-> IF q.id = r.id THEN [q EXCEPT !.state = s] ELSE q]
           R == x.rows \ {r}
           b == x.bad \/ ~Passes(r, x.twice)
           w == [x EXCEPT !.rows = R, !.bad = b]
<1>5. Set(h, w) BY <1>4
<1>6. items' = {f[q] : q \in items} BY <1>4 DEF Write
<1>7. /\ x.rows \subseteq RowsOf(items, d)
      /\ Twice(RowsOf(items, d)) \subseteq x.twice
      /\ \A q \in RowsOf(items, d) \ x.rows :
           ~x.bad => q.state = "validated" /\ q.cap \notin x.twice
    BY <1>1, <1>2, <1>3 DEF Alone, Validating
<1>8. r \in items /\ r.draft = d /\ r \in Row BY <1>0, <1>7 DEF RowsOf
<1>9. \A q \in items : q # r => f[q] = q BY <1>0, <1>8
<1>10. f[r] = [r EXCEPT !.state = s] BY <1>8
<1>11. s = "validated" => r.body \in Valid /\ r.cap \notin x.twice BY DEF Passes
<1>12. (~b => ~x.bad /\ s = "validated") /\ b \in BOOLEAN
    <2>1. x.bad \in BOOLEAN BY <1>0 DEF Handler
    <2> QED BY <2>1 DEF Passes
<1>13. s \in {"validated", "draft"} OBVIOUS
<1> HIDE DEF x, s, f, R, b
<1>14. /\ w.rows = R /\ w.bad = b /\ w.pc = x.pc /\ w.op = x.op /\ w.draft = x.draft
       /\ w.twice = x.twice /\ w.from = x.from /\ w.more = x.more
    BY <1>0 DEF Handler
<1> HIDE DEF w
<1>15. /\ f[r].draft = r.draft /\ f[r].cap = r.cap /\ f[r].body = r.body
       /\ f[r].state = s
    BY <1>8, <1>10 DEF Row
<1>16. \A q \in items : f[q].draft = q.draft /\ f[q].cap = q.cap /\ f[q].body = q.body
    BY <1>9, <1>15
<1>17. /\ Twice(RowsOf(items', d)) \subseteq Twice(RowsOf(items, d))
       /\ \A y : Holds(RowsOf(items, d), y) => Holds(RowsOf(items', d), y)
    BY <1>6, <1>16, RewrittenAlone
<1>18. R \subseteq RowsOf(items', d)
    <2> SUFFICES ASSUME NEW q \in R PROVE q \in RowsOf(items', d) OBVIOUS
    <2>1. q \in x.rows /\ q # r BY DEF R
    <2>2. q \in items /\ q.draft = d BY <1>7, <2>1 DEF RowsOf
    <2>3. q \in items' BY <1>6, <1>9, <2>1, <2>2
    <2> QED BY <2>2, <2>3 DEF RowsOf
<1>19. ASSUME NEW q \in RowsOf(items', d) \ R, ~b
       PROVE  q.state = "validated" /\ q.cap \notin x.twice
    <2>1. q \in items' /\ q.draft = d /\ q \notin R BY DEF RowsOf
    <2>2. PICK p \in items : q = f[p] BY <1>6, <2>1
    <2>3. CASE p = r BY <1>11, <1>12, <1>15, <1>19, <2>2, <2>3
    <2>4. CASE p # r
        <3>1. q = p BY <1>9, <2>2, <2>4
        <3>2. q \in RowsOf(items, d) /\ q \notin x.rows
            BY <2>1, <2>4, <3>1 DEF RowsOf, R
        <3> QED BY <1>7, <1>12, <1>19, <3>2
    <2> QED BY <2>3, <2>4
<1>20. Validating(w, items')
    BY <1>3, <1>7, <1>14, <1>17, <1>18, <1>19 DEF Validating
<1>21. Copied(w, items')
    <2> SUFFICES ASSUME x.op = "rollback" PROVE Copied(w, items') BY <1>14 DEF Copied
    <2>1. x.more = {} /\ \A y \in x.from \ x.more : Holds(RowsOf(items, d), y)
        BY <1>1, <1>2, <1>3 DEF Alone, Copied
    <2> QED BY <1>1, <1>3, <1>14, <1>17, <2>1 DEF Copied
<1>22. AtWork(w, draft') BY <1>1, <1>3, <1>14 DEF AtWork
<1>23. Alone(w, items', draft')
    BY <1>1, <1>14, <1>20, <1>21, <1>22 DEF Alone, Known, Checked, Offered
<1>24. ValidatedIsValid'
    <2> SUFFICES ASSUME NEW q \in items', q.state = "validated" PROVE q.body \in Valid
        BY DEF ValidatedIsValid
    <2>1. PICK p \in items : q = f[p] BY <1>6
    <2>2. CASE p = r BY <1>11, <1>15, <2>1, <2>2
    <2>3. CASE p # r BY <1>9, <2>1, <2>3 DEF AInv, ValidatedIsValid
    <2> QED BY <2>2, <2>3
<1> QED BY <1>0, <1>5, <1>23, <1>24, SetAlone

LEMMA ValidatedAlone ==
    ASSUME Sequential, IInv, AInv, NEW h \in Handlers, Validated(h)
    PROVE  StillAlone
<1> DEFINE x == handler[h]
<1>0. handler \in [Handlers -> Handler] /\ x \in Handler BY DEF IInv, TypeOK
<1>1. /\ x.pc = "validate" /\ x.rows = {} /\ draft' = draft /\ items' = items
    BY DEF Validated, drafts
<1>2. Alone(x, items, draft) BY DEF AInv
<1>3. PICK d \in Drafts : x.draft = {d} /\ draft[d] \in {"draft", "published"}
    BY <1>1, <1>2 DEF Alone, AtWork
<1>4. CASE Return(h) BY <1>0, <1>4, ReturnAlone
<1>5. CASE ~x.bad /\ Set(h, [x EXCEPT !.pc = "read"])
    <2> DEFINE w == [x EXCEPT !.pc = "read"]
    <2>1. /\ w.pc = "read" /\ w.op = x.op /\ w.draft = x.draft
          /\ w.from = x.from /\ w.more = x.more
        BY <1>0 DEF Handler
    <2>2. Set(h, w) BY <1>5
    <2>3. /\ \A r \in RowsOf(items, d) : r.state = "validated" /\ r.cap \notin x.twice
          /\ Twice(RowsOf(items, d)) \subseteq x.twice
        BY <1>1, <1>2, <1>3, <1>5 DEF Alone, Validating
    <2> HIDE DEF w, x
    <2>4. Twice(RowsOf(items, d)) = {}
        <3> SUFFICES ASSUME NEW c \in Twice(RowsOf(items, d)) PROVE FALSE OBVIOUS
        <3>1. PICK r \in RowsOf(items, d) : r.cap = c BY DEF Twice
        <3> QED BY <2>3, <3>1
    <2>5. Checked(w, items) BY <1>3, <2>1, <2>3, <2>4 DEF Checked
    <2>6. Copied(w, items) BY <1>1, <1>2, <2>1 DEF Alone, Copied
    <2>7. AtWork(w, draft) BY <1>3, <2>1 DEF AtWork
    <2>8. Alone(w, items, draft)
        BY <2>1, <2>5, <2>6, <2>7 DEF Alone, Known, Validating, Offered
    <2> QED BY <1>0, <1>1, <2>2, <2>8, SetAlone
<1>6. CASE x.op = "intake" /\ Set(h, [x EXCEPT !.pc = "discard"])
    <2> DEFINE w == [x EXCEPT !.pc = "discard"]
    <2>1. w.pc = "discard" /\ w.op = x.op /\ w.draft = x.draft BY <1>0 DEF Handler
    <2>2. Set(h, w) BY <1>6
    <2> HIDE DEF w, x
    <2>3. AtWork(w, draft) BY <1>3, <2>1 DEF AtWork
    <2>4. Alone(w, items, draft)
        BY <1>6, <2>1, <2>3 DEF Alone, Known, Validating, Checked, Offered, Copied
    <2> QED BY <1>0, <1>1, <2>2, <2>4, SetAlone
<1> QED BY <1>4, <1>5, <1>6 DEF Validated

LEMMA ReadAlone ==
    ASSUME Sequential, IInv, AInv, NEW h \in Handlers, ReadForPublish(h)
    PROVE  StillAlone
<1> DEFINE x == handler[h]
<1>0. handler \in [Handlers -> Handler] /\ x \in Handler BY DEF IInv, TypeOK
<1>1. x.pc = "read" /\ draft' = draft /\ items' = items
    BY DEF ReadForPublish, drafts
<1>2. Alone(x, items, draft) BY DEF AInv
<1>3. PICK d \in x.draft :
        Set(h, IF Exists(d) /\ ~Refused(ItemsOf(d))
               THEN [x EXCEPT !.pc = "publish", !.rows = Ready(ItemsOf(d))]
               ELSE Idle)
    BY DEF ReadForPublish
<1>4. CASE ~(Exists(d) /\ ~Refused(ItemsOf(d)))
    <2>1. Return(h) BY <1>3, <1>4 DEF Return
    <2> QED BY <1>0, <2>1, ReturnAlone
<1>5. CASE Exists(d) /\ ~Refused(ItemsOf(d))
    <2> DEFINE R == Ready(ItemsOf(d))
               w == [x EXCEPT !.pc = "publish", !.rows = R]
    <2>1. Set(h, w) BY <1>3, <1>5
    <2>2. Twice(R) = {} BY <1>5 DEF Refused
    <2>3. R \subseteq RowsOf(items, d) BY DEF Ready, ItemsOf, RowsOf
    <2>4. (\A r \in RowsOf(items, d) : r.state = "validated") => R = RowsOf(items, d)
        BY DEF Ready, ItemsOf, RowsOf
    <2> HIDE DEF R, x
    <2>5. /\ w.pc = "publish" /\ w.rows = R /\ w.op = x.op /\ w.draft = x.draft
          /\ w.from = x.from /\ w.more = x.more
        BY <1>0 DEF Handler
    <2> HIDE DEF w
    <2>6. Offered(w, items) BY <2>2, <2>3, <2>5 DEF Offered, RowsOf
    <2>7. Copied(w, items)
        <3> SUFFICES ASSUME x.op = "rollback" PROVE Copied(w, items) BY <2>5 DEF Copied
        <3>1. x.more = {} /\ \A y \in x.from \ x.more : Holds(RowsOf(items, d), y)
            BY <1>1, <1>2, <1>3 DEF Alone, Copied
        <3>2. R = RowsOf(items, d) BY <1>1, <1>2, <1>3, <2>4 DEF Alone, Checked
        <3> QED BY <2>5, <3>1, <3>2 DEF Copied
    <2>8. AtWork(w, draft) BY <1>1, <1>2, <2>5 DEF Alone, AtWork
    <2>9. Alone(w, items, draft)
        BY <2>5, <2>6, <2>7, <2>8 DEF Alone, Known, Validating, Checked
    <2> QED BY <1>0, <1>1, <2>1, <2>9, SetAlone
<1> QED BY <1>4, <1>5

LEMMA CopyCreateAlone ==
    ASSUME Sequential, IInv, AInv, NEW h \in Handlers, CopyCreate(h)
    PROVE  StillAlone
<1> DEFINE x == handler[h]
<1>0. /\ handler \in [Handlers -> Handler] /\ x \in Handler
      /\ draft \in [Drafts -> {"new", "draft", "published", "deleted"}]
    BY DEF IInv, TypeOK
<1>1. x.pc = "draft" BY DEF CopyCreate
<1>2. Alone(x, items, draft) BY DEF AInv
<1>3. PICK d \in Drafts :
        /\ draft' = [draft EXCEPT ![d] = "draft"]
        /\ Set(h, [x EXCEPT !.pc = "adopt", !.draft = {d}])
    BY DEF CopyCreate
<1> DEFINE w == [x EXCEPT !.pc = "adopt", !.draft = {d}]
<1>4. Set(h, w) BY <1>3
<1>5. draft'[d] = "draft" BY <1>0, <1>3
<1> HIDE DEF x
<1>6. /\ w.pc = "adopt" /\ w.op = x.op /\ w.draft = {d}
      /\ w.from = x.from /\ w.more = x.more
    BY <1>0 DEF Handler
<1> HIDE DEF w
<1>7. x.op \in {"rollback", "changeset"} BY <1>1, <1>2 DEF Alone, Known
<1>8. Known(w) /\ AtWork(w, draft') BY <1>5, <1>6, <1>7 DEF Known, AtWork
<1>9. x.op = "rollback" => x.more = x.from BY <1>1, <1>2 DEF Alone, Copied
<1>10. Copied(w, items') BY <1>6, <1>9 DEF Copied
<1>11. Alone(w, items', draft')
    BY <1>6, <1>8, <1>10 DEF Alone, Validating, Checked, Offered
<1> QED BY <1>0, <1>4, <1>11, SetAlone

LEMMA AdoptAlone ==
    ASSUME Sequential, IInv, AInv, NEW h \in Handlers, Adopt(h)
    PROVE  StillAlone /\ ValidatedIsValid'
<1> DEFINE x == handler[h]
<1>0. handler \in [Handlers -> Handler] /\ x \in Handler BY DEF IInv, TypeOK
<1>1. x.pc = "adopt" /\ draft' = draft BY DEF Adopt
<1>2. Alone(x, items, draft) BY DEF AInv
<1>3. PICK d \in x.draft, y \in x.more :
        IF Exists(d)
        THEN NewItem(d, y[2]) /\ Set(h, [x EXCEPT !.more = @ \ {y}])
        ELSE UNCHANGED <<items, made>> /\ Return(h)
    BY DEF Adopt
<1>4. x.draft = {d} /\ draft[d] \in {"draft", "published"}
    BY <1>1, <1>2, <1>3 DEF Alone, AtWork
<1>5. NewItem(d, y[2]) /\ Set(h, [x EXCEPT !.more = @ \ {y}])
    BY <1>3, <1>4 DEF Exists
<1>6. y[2] = <<y[2][1], y[2][2]>> BY <1>0, <1>3 DEF Handler, Content
<1> DEFINE new == [id |-> made + 1, draft |-> d, cap |-> y[2][1], body |-> y[2][2],
                   state |-> "draft"]
           M == x.more \ {y}
           w == [x EXCEPT !.more = M]
<1>7. items' = items \cup {new} BY <1>5 DEF NewItem
<1>8. Set(h, w) BY <1>5
<1>9. new.draft = d /\ <<new.cap, new.body>> = y[2] /\ new.state = "draft" BY <1>6
<1> HIDE DEF x, new, M
<1>10. /\ w.pc = "adopt" /\ w.op = x.op /\ w.draft = x.draft
       /\ w.from = x.from /\ w.more = M
    BY <1>0, <1>1 DEF Handler
<1> HIDE DEF w
<1>11. Known(w) BY <1>1, <1>2, <1>10 DEF Alone, Known
<1>12. AtWork(w, draft') BY <1>1, <1>2, <1>10 DEF Alone, AtWork
<1>13. ASSUME NEW z \in w.from \ w.more, w.op = "rollback"
       PROVE  Holds(RowsOf(items', d), z)
    <2>1. CASE z = y
        <3>1. new \in RowsOf(items', d) BY <1>7, <1>9 DEF RowsOf
        <3> QED BY <1>9, <2>1, <3>1 DEF Holds
    <2>2. CASE z # y
        <3>1. z \in x.from \ x.more BY <1>10, <2>2 DEF M
        <3>2. Holds(RowsOf(items, d), z)
            BY <1>1, <1>2, <1>3, <1>10, <1>13, <3>1 DEF Alone, Copied
        <3>3. RowsOf(items, d) \subseteq RowsOf(items', d) BY <1>7 DEF RowsOf
        <3> QED BY <3>2, <3>3 DEF Holds
    <2> QED BY <2>1, <2>2
<1>14. Copied(w, items') BY <1>4, <1>10, <1>13 DEF Copied
<1>15. Alone(w, items', draft')
    BY <1>10, <1>11, <1>12, <1>14 DEF Alone, Validating, Checked, Offered
<1>16. ValidatedIsValid' BY <1>7, <1>9 DEF AInv, ValidatedIsValid
<1> QED BY <1>0, <1>8, <1>15, <1>16, SetAlone

LEMMA AdoptedAlone ==
    ASSUME Sequential, IInv, AInv, NEW h \in Handlers, Adopted(h)
    PROVE  StillAlone
<1> DEFINE x == handler[h]
<1>0. handler \in [Handlers -> Handler] /\ x \in Handler BY DEF IInv, TypeOK
<1>1. /\ x.pc = "adopt" /\ x.more = {} /\ draft' = draft /\ items' = items
    BY DEF Adopted, drafts
<1>2. Alone(x, items, draft) BY DEF AInv
<1>3. PICK d \in x.draft :
        Set(h, IF x.op = "changeset" THEN [x EXCEPT !.pc = "read"] ELSE Reading(x, d))
    BY DEF Adopted
<1>4. d \in Drafts /\ x.draft = {d} /\ Exists(d)
    BY <1>1, <1>2, <1>3 DEF Alone, AtWork, Exists
<1>5. CASE x.op = "changeset"
    <2> DEFINE w == [x EXCEPT !.pc = "read"]
    <2>1. Set(h, w) BY <1>3, <1>5
    <2>2. w.pc = "read" /\ w.op = "changeset" /\ w.draft = x.draft
        BY <1>0, <1>5 DEF Handler
    <2> HIDE DEF w, x
    <2>3. AtWork(w, draft) BY <1>4, <2>2 DEF AtWork, Exists
    <2>4. Alone(w, items, draft)
        BY <2>2, <2>3 DEF Alone, Known, Validating, Checked, Offered, Copied
    <2> QED BY <1>0, <1>1, <2>1, <2>4, SetAlone
<1>6. CASE x.op # "changeset"
    <2>1. Set(h, Reading(x, d)) BY <1>3, <1>6
    <2>2. x.op = "rollback" BY <1>1, <1>2, <1>6 DEF Alone, Known
    <2>3. ItemsOf(d) = RowsOf(items, d) BY DEF ItemsOf, RowsOf
    <2>4. \A y \in x.from : Holds(ItemsOf(d), y)
        BY <1>1, <1>2, <2>2, <2>3 DEF Alone, Copied
    <2>5. Alone(Reading(x, d), items, draft)
        BY <1>0, <1>1, <1>4, <2>4, ReadingAlone
    <2> QED BY <1>0, <1>1, <2>1, <2>5, SetAlone
<1> QED BY <1>5, <1>6

LEMMA ContinueAlone ==
    ASSUME Sequential, IInv, AInv, NEW h \in Handlers, Continue(h)
    PROVE  StillAlone
<1>0. handler \in [Handlers -> Handler] BY DEF IInv, TypeOK
<1>1. CASE Return(h) BY <1>0, <1>1, ReturnAlone
<1> QED
    BY <1>1, ValidateItemAlone, ValidatedAlone, ReadAlone, CopyCreateAlone,
       AdoptAlone, AdoptedAlone
       DEF Continue, Edit, SaveVersion, Discard, PublishDraft, PublishRows, PublishRaises

(* What is marked as validated is valid.                                   *)
LEMMA ValidStep ==
    ASSUME Sequential, IInv, AInv, [Next]_vars
    PROVE  ValidatedIsValid'
<1>0. ValidatedIsValid BY DEF AInv
<1>1. CASE items' \subseteq items BY <1>0, <1>1 DEF ValidatedIsValid
<1>2. ASSUME NEW h \in Handlers, Add(h) PROVE ValidatedIsValid'
    <2>1. PICK d \in Drafts, x \in Content : NewItem(d, x) BY <1>2 DEF Add
    <2> QED BY <1>0, <2>1 DEF NewItem, ValidatedIsValid
<1>3. ASSUME NEW h \in Handlers, Edit(h) PROVE ValidatedIsValid'
    <2>1. PICK r \in handler[h].rows, x \in Content :
            Write(r, [q \in items |->
              [q EXCEPT !.cap = x[1], !.body = x[2], !.state = "draft"]])
        BY <1>3 DEF Edit
    <2>2. items \subseteq Row BY DEF IInv, TypeOK
    <2> DEFINE f == [q \in items |->
                       [q EXCEPT !.cap = x[1], !.body = x[2], !.state = "draft"]]
    <2>3. \A q \in items : f[q].state = "draft" BY <2>2 DEF Row
    <2>4. items' = {IF q.id = r.id THEN f[q] ELSE q : q \in items} BY <2>1 DEF Write
    <2> HIDE DEF f
    <2> QED BY <1>0, <2>3, <2>4 DEF ValidatedIsValid
<1>4. ASSUME NEW h \in Handlers, PublishDraft(h) PROVE ValidatedIsValid'
    <2>1. PICK d \in handler[h].draft :
            items' = {IF q.draft = d /\ q.state = "validated"
                      THEN [q EXCEPT !.state = "published"] ELSE q : q \in items}
        BY <1>4 DEF PublishDraft, PublishRows
    <2>2. items \subseteq Row BY DEF IInv, TypeOK
    <2>3. \A q \in items : [q EXCEPT !.state = "published"].state = "published"
        BY <2>2 DEF Row
    <2> QED BY <1>0, <2>1, <2>3 DEF ValidatedIsValid
<1>5. ASSUME NEW h \in Handlers, Request(h) PROVE ValidatedIsValid'
    BY <1>1, <1>2, <1>5
       DEF Request, Create, Remove, Delete, DeleteDraft, Update, Save, Validate,
           Publish, Intake, RollbackDraft, RollbackPackage, Changeset, Copy, drafts
<1>6. ASSUME NEW h \in Handlers, Continue(h) PROVE ValidatedIsValid'
    BY <1>1, <1>3, <1>4, <1>6, ValidateItemAlone, AdoptAlone
       DEF Continue, SaveVersion, Validated, Discard, DeleteDraft, ReadForPublish,
           PublishRaises, CopyCreate, Adopted, drafts
<1>7. CASE UNCHANGED drafts BY <1>1, <1>7 DEF drafts
<1>8. CASE Next
    BY <1>5, <1>6, <1>7, <1>8 DEF Next, Fault, Lookup, Restart, Resync
<1>9. CASE UNCHANGED vars BY <1>7, <1>9 DEF vars
<1> QED BY <1>8, <1>9

LEMMA AInvStep ==
    ASSUME Sequential
    PROVE  IInv /\ AInv /\ [Next]_vars => AInv'
<1> SUFFICES ASSUME IInv, AInv, [Next]_vars PROVE AInv' OBVIOUS
<1>0. handler \in [Handlers -> Handler] BY DEF IInv, TypeOK
<1>1. ASSUME NEW h \in Handlers, Fault(h) PROVE StillAlone
    BY <1>0, <1>1, ReturnAlone DEF Fault
<1>2. CASE Restart
    <2>1. Idle.pc = "idle" BY DEF Idle
    <2>2. \A g \in Handlers : handler'[g] = Idle BY <1>2 DEF Restart
    <2>3. Alone(Idle, items', draft') BY <2>1, RestAlone
    <2> QED BY <2>2, <2>3, ValidStep DEF AInv
<1>3. CASE UNCHANGED <<drafts, handler>> BY <1>3, ValidStep DEF AInv, drafts
<1>4. CASE UNCHANGED vars BY <1>3, <1>4 DEF vars
<1>5. CASE Resync \/ \E c \in Caps : Lookup(c) BY <1>3, <1>5 DEF Resync, Lookup
<1>6. CASE StillAlone BY <1>6, ValidStep DEF StillAlone, AInv
<1> QED BY <1>1, <1>2, <1>4, <1>5, <1>6, RequestAlone, ContinueAlone DEF Next

LEMMA AInvariance ==
    ASSUME Sequential
    PROVE  Spec => []AInv
<1>1. Init => AInv
    <2> SUFFICES ASSUME Init PROVE AInv OBVIOUS
    <2>1. \A h \in Handlers : handler[h].pc = "idle" BY DEF Init, Idle
    <2>2. \A h \in Handlers : Alone(handler[h], items, draft) BY <2>1, RestAlone
    <2> QED BY <2>2 DEF Init, AInv, ValidatedIsValid
<1>2. IInv /\ AInv /\ [Next]_vars => AInv' BY AInvStep
<1> QED BY <1>1, <1>2, Invariance, PTL DEF Spec

(* With one handler at a time, and whatever is edited, validated, published *)
(* or undone in which order, an item marked "validated" has a content that  *)
(* passes validate_capability.                                              *)
THEOREM ValidatedStaysValid == Sequential => (Spec => []ValidatedIsValid)
<1> SUFFICES ASSUME Sequential PROVE Spec => []ValidatedIsValid OBVIOUS
<1>1. AInv => ValidatedIsValid BY DEF AInv
<1> QED BY <1>1, AInvariance, PTL

LEMMA RecordMoves ==
    ASSUME IInv, Settled, Next, record' # record, restarts' = restarts
    PROVE  \E h \in Handlers : PublishDraft(h)
<1>1. \A h \in Handlers : Request(h) \/ Fault(h) => record' = record
    BY DEF Request, Fault, Create, Add, Remove, Delete, Update, Save, Validate,
           Publish, Intake, RollbackDraft, RollbackPackage, Changeset, Copy, catalog
<1>2. \A h \in Handlers : Continue(h) /\ ~PublishDraft(h) => record' = record
    BY DEF Continue, Edit, SaveVersion, ValidateItem, Validated, Discard,
           ReadForPublish, PublishRaises, CopyCreate, Adopt, Adopted, catalog
<1>3. ~Restart
    <2>1. restarts \in Nat BY CatalogConstants DEF IInv, TypeOK
    <2> QED BY <2>1 DEF Restart
<1>4. Resync => record' = record BY DEF Resync, Settled
<1>5. \A c \in Caps : Lookup(c) => record' = record BY DEF Lookup, catalog
<1> QED BY <1>1, <1>2, <1>3, <1>4, <1>5 DEF Next

LEMMA RestoresAll ==
    ASSUME IInv, AInv, NEW h \in Handlers, PublishDraft(h), handler[h].op = "rollback",
           NEW y \in handler[h].from
    PROVE  record'[y[2][1]].spec = y[2][2]
<1> DEFINE x == handler[h]
           R == x.rows
<1>0. x \in Handler /\ x.pc = "publish" /\ record' = Installed(record, R)
    BY DEF IInv, TypeOK, PublishDraft, PublishRows
<1>1. Alone(x, items, draft) BY DEF AInv
<1>2. Twice(R) = {} /\ Holds(R, y) BY <1>0, <1>1 DEF Alone, Offered, Copied
<1>3. PICK r \in R : <<r.cap, r.body>> = y[2] BY <1>2 DEF Holds
<1>4. y[2][1] = r.cap /\ y[2][2] = r.body BY <1>3
<1>5. r.cap \in Caps BY <1>0 DEF Handler, Row
<1>6. Defines(R, r.cap) BY DEF Defines
<1>7. \A q \in R : q.cap = r.cap => q = r BY <1>2, <1>5 DEF Twice
<1>8. BodyFor(R, r.cap) = r.body BY <1>6, <1>7 DEF BodyFor, Defines
<1> HIDE DEF R
<1>9. record'[r.cap] = [state |-> "installed", source |-> "publication",
                        spec |-> BodyFor(R, r.cap), code |-> CodeOf(BodyFor(R, r.cap))]
    BY <1>0, <1>5, <1>6 DEF Installed
<1> QED BY <1>4, <1>8, <1>9

(* With one handler at a time, a rollback that publishes anything installs *)
(* exactly the contents it was asked to restore: none was lost on the way  *)
(* through the new draft, its validation and its publication.              *)
THEOREM RollbackIsWhole == Sequential => (Spec => RollbackRestores)
<1> SUFFICES ASSUME Sequential PROVE Spec => RollbackRestores OBVIOUS
<1> DEFINE Restores ==
             \A h \in Handlers :
               handler[h].op = "rollback" /\ record' # record /\ restarts' = restarts
               => \A x \in handler[h].from : record'[x[2][1]].spec = x[2][2]
<1>1. IInv /\ AInv /\ Settled /\ [Next]_vars => [Restores]_vars
    <2> SUFFICES ASSUME IInv, AInv, Settled, Next PROVE Restores BY DEF vars
    <2> SUFFICES ASSUME NEW h \in Handlers, handler[h].op = "rollback",
                        record' # record, restarts' = restarts,
                        NEW x \in handler[h].from
                 PROVE  record'[x[2][1]].spec = x[2][2]
        OBVIOUS
    <2>1. PICK g \in Handlers : PublishDraft(g) BY RecordMoves
    <2>2. g = h BY DEF Sequential
    <2> QED BY <2>1, <2>2, RestoresAll
<1> QED BY <1>1, AInvariance, Invariance, SyncHasSettled, PTL DEF Spec, RollbackRestores

(* The intake ends in PublishDraft or in Discard, and in nothing else.     *)
LEMMA IntakeEnds ==
    ASSUME Sequential, MaxFaults = 0, IInv, AInv, Next, NEW h \in Handlers,
           handler[h].op = "intake", handler[h].pc # "idle", handler'[h].pc = "idle",
           restarts' = restarts, NEW d \in handler[h].draft
    PROVE  draft'[d] \in {"published", "deleted"}
<1> DEFINE x == handler[h]
<1>0. /\ handler \in [Handlers -> Handler] /\ x \in Handler /\ items \subseteq Row
      /\ draft \in [Drafts -> {"new", "draft", "published", "deleted"}]
      /\ faults = 0 /\ restarts \in Nat
      /\ Valid \subseteq Installable
    BY CatalogConstants DEF IInv, TypeOK
<1>1. Alone(x, items, draft) /\ ValidatedIsValid BY DEF AInv
<1>2. d \in Drafts BY <1>0 DEF Handler
<1>3. \A g \in Handlers : g = h BY DEF Sequential
<1>4. Continue(h)
    <2>1. ~Restart BY <1>0 DEF Restart
    <2>2. handler' # handler OBVIOUS
    <2>3. ~Resync /\ \A c \in Caps : ~Lookup(c) BY <2>2 DEF Resync, Lookup
    <2>4. ~Fault(h) BY <1>0 DEF Fault
    <2>5. ~Request(h)
        BY DEF Request, Create, Add, Remove, Delete, Update, Save, Validate, Publish,
               Intake, RollbackDraft, RollbackPackage, Changeset, Copy, Call
    <2> QED BY <1>3, <2>1, <2>3, <2>4, <2>5 DEF Next
<1>6. CASE PublishDraft(h)
    <2>1. PICK e \in x.draft : draft' = [draft EXCEPT ![e] = "published"]
        BY <1>6 DEF PublishDraft, PublishRows
    <2>2. x.pc = "publish" BY <1>6 DEF PublishDraft
    <2>3. e = d BY <1>1, <2>1, <2>2 DEF Alone, AtWork
    <2> QED BY <1>0, <1>2, <2>1, <2>3
<1>7. CASE Discard(h)
    <2>1. PICK e \in x.draft : IF Exists(e) THEN DeleteDraft(e) ELSE UNCHANGED drafts
        BY <1>7 DEF Discard
    <2>2. x.pc = "discard" BY <1>7 DEF Discard
    <2>3. e = d /\ Exists(e) BY <1>1, <2>1, <2>2 DEF Alone, AtWork, Exists
    <2> QED BY <1>0, <1>2, <2>1, <2>3 DEF DeleteDraft
<1>8. ~PublishRaises(h)
    <2> SUFFICES ASSUME PublishRaises(h) PROVE FALSE OBVIOUS
    <2>1. x.pc = "publish" /\ ~References(h) BY DEF PublishRaises
    <2>2. \A e \in x.draft : Exists(e) BY <1>1, <2>1 DEF Alone, AtWork, Exists
    <2>3. x.rows \subseteq items BY <1>1, <2>1 DEF Alone, Offered
    <2> QED BY <2>1, <2>2, <2>3 DEF References
<1>9. ~ReadForPublish(h)
    <2> SUFFICES ASSUME ReadForPublish(h) PROVE FALSE OBVIOUS
    <2>1. x.pc = "read" BY DEF ReadForPublish
    <2>2. PICK e \in x.draft :
            Set(h, IF Exists(e) /\ ~Refused(ItemsOf(e))
                   THEN [x EXCEPT !.pc = "publish", !.rows = Ready(ItemsOf(e))]
                   ELSE Idle)
        BY DEF ReadForPublish
    <2>3. Exists(e) BY <1>1, <2>1, <2>2 DEF Alone, AtWork, Exists
    <2>4. Twice(ItemsOf(e)) = {} /\ \A r \in ItemsOf(e) : r.state = "validated"
        BY <1>1, <2>1, <2>2 DEF Alone, Checked, RowsOf, ItemsOf
    <2>5. Ready(ItemsOf(e)) = ItemsOf(e) BY <2>4 DEF Ready
    <2>6. \A r \in ItemsOf(e) : r.body \in Installable
        BY <1>0, <1>1, <2>4 DEF ValidatedIsValid, ItemsOf
    <2>7. ~Refused(ItemsOf(e)) BY <2>4, <2>5, <2>6 DEF Refused
    <2> DEFINE R == Ready(ItemsOf(e))
               w == [x EXCEPT !.pc = "publish", !.rows = R]
    <2>8. Set(h, w) BY <2>2, <2>3, <2>7
    <2> HIDE DEF R
    <2>9. w.pc = "publish" BY <1>0 DEF Handler
    <2> HIDE DEF w
    <2>10. handler'[h] = w BY <1>0, <2>8 DEF Set
    <2> QED BY <2>9, <2>10
<1>10. ~Edit(h) /\ ~SaveVersion(h) BY <1>1 DEF Alone, Known, Edit, SaveVersion
<1>11. ~Adopt(h) /\ ~Adopted(h) /\ ~CopyCreate(h)
    BY <1>1 DEF Alone, Known, Adopt, Adopted, CopyCreate
<1>12. ~ValidateItem(h)
    <2> SUFFICES ASSUME ValidateItem(h) PROVE FALSE OBVIOUS
    <2>1. PICK r \in x.rows :
            Set(h, [x EXCEPT !.rows = @ \ {r}, !.bad = @ \/ ~Passes(r, x.twice)])
        BY DEF ValidateItem
    <2>2. handler'[h] = [x EXCEPT !.rows = @ \ {r}, !.bad = @ \/ ~Passes(r, x.twice)]
        BY <1>0, <2>1 DEF Set
    <2>3. handler'[h].pc = x.pc BY <1>0, <2>2 DEF Handler
    <2> QED BY <2>3
<1>13. ~Validated(h)
    <2> SUFFICES ASSUME Validated(h) PROVE FALSE OBVIOUS
    <2>1. PICK pc \in {"read", "discard"} : Set(h, [x EXCEPT !.pc = pc])
        BY DEF Validated
    <2>2. handler'[h] = [x EXCEPT !.pc = pc] BY <1>0, <2>1 DEF Set
    <2>3. handler'[h].pc = pc BY <1>0, <2>2 DEF Handler
    <2> QED BY <2>3
<1> QED
    BY <1>4, <1>6, <1>7, <1>8, <1>9, <1>10, <1>11, <1>12, <1>13 DEF Continue

(* With one handler at a time and no transaction that raises, the intake   *)
(* leaves no orphaned draft behind: at its end the draft is published or   *)
(* deleted, because nothing it has validated can be refused.               *)
THEOREM IntakeLeavesNothing ==
    Sequential /\ MaxFaults = 0 => (Spec => NoOrphans)
<1> SUFFICES ASSUME Sequential, MaxFaults = 0 PROVE Spec => NoOrphans OBVIOUS
<1> DEFINE Ends ==
             \A h \in Handlers :
               /\ handler[h].op = "intake" /\ handler[h].pc # "idle"
               /\ handler'[h].pc = "idle" /\ restarts' = restarts
               => \A d \in handler[h].draft : draft'[d] \in {"published", "deleted"}
<1>1. IInv /\ AInv /\ [Next]_vars => [Ends]_vars
    <2> SUFFICES ASSUME IInv, AInv, Next PROVE Ends BY DEF vars
    <2> QED BY IntakeEnds
<1> QED BY <1>1, AInvariance, Invariance, PTL DEF Spec, NoOrphans
=============================================================================
