------------------------------- MODULE Evidence -------------------------------
(***************************************************************************)
(* What a decision's signature is evidence of.  A request is stored with   *)
(* its recipients and a salt; the issuer keeps the create response, every  *)
(* device gets its own projection of the request, signs a digest it        *)
(* recomputes from that projection, and the server accepts any digest that *)
(* some release could have issued.  Later the issuer checks the recorded   *)
(* decision against the create response and keys pinned out of band        *)
(* (verify_decision_receipt, nod-verify).                                  *)
(*                                                                         *)
(* A digest is the tag and the content that is hashed, so that two digests *)
(* are equal exactly if tag and content are; a signature is the key and    *)
(* the payload.  Nonces are in Requests.                                   *)
(***************************************************************************)
EXTENDS Naturals, Sequences, FiniteSets

CONSTANTS
    Cards,          \* requests
    Content,        \* what each request says: recips, perUser, field, opts, body, extra
    Release,        \* the release that answered each create: "plain" (line snapshot
                    \* only), "tagged" (older context tags) or "current"
    Signers,        \* devices
    SignerUser,     \* the user of each device
    Incapable,      \* devices of an app that does not know value requests
    OldApps,        \* devices that may still run an older release
    KindOf,         \* the kind of each option id
    Notes,          \* texts, among "none", "blank", "note" and "padded"
    Answers,        \* values the answer fields admit
    MaxStarts,      \* server starts
    MaxPosts,       \* submissions in all
    Unset

ASSUME EvidenceAssumption ==
    /\ Release \in [Cards -> {"plain", "tagged", "current"}]
    /\ \A k \in Cards : Content[k].field \in BOOLEAN /\ (Content[k].field => Release[k] # "plain")
    /\ Incapable \subseteq Signers /\ OldApps \subseteq Signers
    /\ \A set \in {Signers, {SignerUser[d] : d \in Signers}, Answers, DOMAIN KindOf} : Unset \notin set
    /\ {MaxStarts, MaxPosts} \subseteq Nat

VARIABLES
    salt,       \* the salt of each stored request, 0 before it has one
    issued,     \* the create responses the issuer saved, by request
    view,       \* the copy rendered last, and the device that did
    posts,      \* submissions on their way
    decided,    \* the recorded decisions of each request, by user
    signed,     \* what each device put its key to (history)
    starts      \* server starts so far

evidenceVars == <<salt, issued, view, posts, decided, signed, starts>>

Dismiss == "dismiss"
\* trimmed_text.
Trim(text) == IF text \in {"note", "padded"} THEN "note" ELSE "none"
----------------------------------------------------------------------------
(***************************************************************************)
(* Digests.                                                                *)
(***************************************************************************)
LineSnapshot(w) == <<"v1", [id |-> w.id, recips |-> w.recips, perUser |-> w.perUser,
                            body |-> w.body, opts |-> w.opts]>>

StructuredDigest(w, commitment, tag) ==
    <<tag, [id |-> w.id, commitment |-> commitment, perUser |-> w.perUser,
            body |-> w.body, extra |-> w.extra, opts |-> w.opts]>>

ValueDigest(w, commitment, tag) ==
    <<tag, [id |-> w.id, commitment |-> commitment, perUser |-> w.perUser,
            body |-> w.body, extra |-> w.extra, opts |-> w.opts, field |-> w.field]>>

\* The answer field of the row selects the encoder.
ContextDigest(w, commitment, tag) ==
    IF w.field THEN ValueDigest(w, commitment, tag) ELSE StructuredDigest(w, commitment, tag)

RecipientsCommitment(recips, s) == <<s, recips>>

\* An absent digest, and an absent signing context.
NoDigest == <<"none", Unset>>
NoContext == [tag |-> "none", commitment |-> Unset, digest |-> NoDigest]
HasContext(w) == w.ctx.tag # "none"

\* Mutant: the tag alone selects the encoder.
RecomputedByTag(w) ==
    CASE w.ctx.tag \in {"v1", "v2"} -> StructuredDigest(w, w.ctx.commitment, w.ctx.tag)
      [] w.ctx.tag = "v3" -> ValueDigest(w, w.ctx.commitment, w.ctx.tag)
      [] OTHER -> NoDigest

\* The encoder a client uses for a received context: the answer field and the
\* tag select it; an unknown tag has none.
Recomputed(w) ==
    CASE w.field /\ w.ctx.tag \in {"v2", "v3"} -> ValueDigest(w, w.ctx.commitment, w.ctx.tag)
      [] ~w.field /\ w.ctx.tag \in {"v1", "v2"} -> StructuredDigest(w, w.ctx.commitment, w.ctx.tag)
      [] OTHER -> NoDigest

\* Every digest some release could have issued for this copy: what the server
\* accepts and what a receipt may carry.
Candidates(w) ==
    LET tags == IF ~HasContext(w) THEN {} ELSE IF w.field THEN {"v2", "v3"} ELSE {"v1", "v2"}
    IN  {d \in {LineSnapshot(w)} : ~w.field} \cup {ContextDigest(w, w.ctx.commitment, t) : t \in tags}
----------------------------------------------------------------------------
(***************************************************************************)
(* The server's copies.                                                    *)
(***************************************************************************)
Row(k) == [id |-> k, recips |-> Content[k].recips, perUser |-> Content[k].perUser,
           field |-> Content[k].field, opts |-> Content[k].opts, body |-> Content[k].body,
           extra |-> Content[k].extra, digest |-> NoDigest, ctx |-> NoContext]

WithContext(w, commitment, tag) ==
    [w EXCEPT !.ctx = [tag |-> tag, commitment |-> commitment,
                       digest |-> ContextDigest(w, commitment, tag)]]

\* The context is derived on every read, under the current tags.
RequestFromRows(k) ==
    WithContext(Row(k), RecipientsCommitment(Content[k].recips, salt[k]),
                IF Content[k].field THEN "v2" ELSE "v1")

\* to_wire: full ordinary snapshots still carry the line digest.
ToWire(w, private) ==
    IF private \/ w.field THEN w ELSE [w EXCEPT !.digest = LineSnapshot(w)]

\* The create response as the release that answered it wrote it.
CreateResponse(k) ==
    CASE Release[k] = "plain" -> ToWire(Row(k), FALSE)
      [] Release[k] = "tagged" ->
            ToWire(WithContext(Row(k), RecipientsCommitment(Content[k].recips, salt[k]),
                               IF Content[k].field THEN "v3" ELSE "v2"), FALSE)
      [] Release[k] = "current" -> ToWire(RequestFromRows(k), FALSE)

Visible(w, user) == SelectSeq(w.recips, LAMBDA u : u = user)

\* project_request_for_user, then to_wire.
HttpView(k, user) ==
    LET w == RequestFromRows(k)
    IN  ToWire([w EXCEPT !.recips = Visible(w, user)], Len(w.recips) > 1)

\* filter_request_for_user on the broadcast snapshot.
SocketView(k, user) ==
    LET w == ToWire(RequestFromRows(k), FALSE)
    IN  [w EXCEPT !.recips = <<user>>, !.digest = IF Len(w.recips) > 1 THEN NoDigest ELSE @]

\* legacy_value_projection, for apps without the value contract.
LegacyProjection(w) ==
    IF ~w.field THEN w
    ELSE [w EXCEPT !.field = FALSE, !.body = "update the app", !.extra = "default",
                   !.digest = NoDigest, !.opts = {"open"}]

Contract(w, d) == IF d \in Incapable THEN LegacyProjection(w) ELSE w

OptionOf(w, option) ==
    IF option \in w.opts \/ (w.opts = {} /\ ~w.field /\ option = Dismiss) THEN option ELSE Unset
----------------------------------------------------------------------------
\* Rows of older releases are in the database, their create responses saved;
\* those from before the salt column have none until the server starts.
EvidenceInit ==
    /\ salt = [k \in Cards |-> IF Release[k] = "tagged" THEN 1 ELSE 0]
    /\ issued = [k \in {j \in Cards : Release[j] # "current"} |-> CreateResponse(k)]
    /\ view = [device |-> Unset]
    /\ posts = {} /\ decided = [k \in Cards |-> [u \in {} |-> Unset]] /\ signed = {}
    /\ starts = 0

\* The migration at connect salts the rows that have no salt.
Migrated == [k \in Cards |-> IF salt[k] = 0 THEN starts + 2 ELSE salt[k]]

ServerStarts ==
    /\ starts < MaxStarts /\ starts' = starts + 1
    /\ salt' = Migrated
    /\ UNCHANGED <<issued, view, posts, decided, signed>>

\* create_request: the salt is drawn with the row.
CardCreated(k) ==
    /\ starts > 0 /\ k \notin DOMAIN issued
    /\ issued' = [j \in DOMAIN issued \cup {k} |-> IF j = k THEN CreateResponse(k) ELSE issued[j]]
    /\ UNCHANGED <<salt, view, posts, decided, signed, starts>>

\* A page, a single read or a socket event brings the request to a device.
\* Apps without the value contract are refused single reads of value requests.
DeviceReceives(d, k, socket) ==
    LET u == SignerUser[d]
        copy == Contract(IF socket THEN SocketView(k, u) ELSE HttpView(k, u), d)
    IN  /\ starts > 0 /\ k \in DOMAIN issued /\ Visible(Row(k), u) # <<>>
        /\ view' = [device |-> d, copy |-> copy] /\ view' # view
        /\ UNCHANGED <<salt, issued, posts, decided, signed, starts>>

\* asserted_request_digest.
Asserted(w) == IF HasContext(w) THEN w.ctx.digest ELSE w.digest

\* The digest is reproduced from the content the device holds.
Reproduces(w) ==
    /\ Asserted(w) # NoDigest
    /\ Asserted(w) = IF HasContext(w) THEN Recomputed(w) ELSE LineSnapshot(w)

SigningPayload(version, id, digest, option, d, at, text, answer) ==
    [version |-> version, id |-> id, digest |-> digest, option |-> option,
     kind |-> KindOf[option], user |-> SignerUser[d], device |-> d, at |-> at, text |-> text,
     answer |-> answer]

\* A submission of device d whose signature carries the time in the given form.
Submission(d, k, w, digest, option, text, answer, form) ==
    LET version == IF answer = Unset THEN "d1" ELSE "d2"
    IN  [card |-> k, device |-> d, option |-> option, text |-> text, answer |-> answer,
         sig |-> [version |-> version, digest |-> digest, form |-> form, key |-> d,
                  bytes |-> SigningPayload(version, k, digest, option, d, "canonical",
                                           text, answer)]]

Puts(p, w) ==
    /\ Cardinality(posts) < MaxPosts /\ posts' = posts \cup {p}
    /\ signed' = signed \cup {[device |-> p.device, option |-> p.option, text |-> p.text,
                               answer |-> p.answer, copy |-> w]}
    /\ UNCHANGED <<salt, issued, view, decided, starts>>

AnswerFits(w, answer) == IF w.field THEN answer \in Answers ELSE answer = Unset

\* submit_request_option and build_value_decision_signature: the copy on
\* screen, still asserted by the server, reproduced, with an option it offers.
DeviceSigns(option, text, answer) ==
    LET w == view.copy
        d == view.device
    IN  /\ starts > 0 /\ d # Unset /\ d \notin Incapable
        /\ Asserted(w) = Asserted(HttpView(w.id, SignerUser[d]))
        /\ AnswerFits(w, answer) /\ Reproduces(w) /\ OptionOf(w, option) # Unset
        /\ \A p \in posts : p.device # d \/ p.card # w.id
        /\ Puts(Submission(d, w.id, w, Asserted(w), option, Trim(text), answer, "canonical"), w)

\* An app of an older release signs what the older server had issued, and may
\* write the time in another form than the one it signed.
OlderAppSigns(d, k, option, text, answer, form) ==
    LET w == CreateResponse(k)
    IN  /\ Release[k] # "current" /\ Visible(w, SignerUser[d]) # <<>>
        /\ AnswerFits(w, answer) /\ OptionOf(w, option) # Unset
        /\ \A p \in posts : p.device # d \/ p.card # k
        /\ Puts(Submission(d, k, w, Asserted(w), option, Trim(text), answer, form), w)

\* verify_value_decision_signature: the payload is rebuilt with the time in
\* canonical form; value submissions must already have sent it that way.
ServerVerifies(p) ==
    LET w == ToWire(RequestFromRows(p.card), FALSE)
    IN  /\ p.sig.digest \in Candidates(w)
        /\ AnswerFits(w, p.answer)
        /\ p.sig.version = IF w.field THEN "d2" ELSE "d1"
        /\ w.field => p.sig.form = "canonical"
        /\ p.sig.key = p.device
        /\ p.sig.bytes = SigningPayload(p.sig.version, p.card, p.sig.digest, p.option, p.device,
                                        "canonical", p.text, p.answer)

StillUndecided(k, user) ==
    IF Content[k].perUser THEN user \notin DOMAIN decided[k] ELSE DOMAIN decided[k] = {}

\* record_decision.
ServerRecords(p) ==
    LET u == SignerUser[p.device]
        decision == [id |-> p.card, option |-> p.option, kind |-> KindOf[p.option],
                     text |-> Trim(p.text), answer |-> p.answer, user |-> u, device |-> p.device,
                     sig |-> p.sig]
    IN  /\ starts > 0 /\ p \in posts
        /\ StillUndecided(p.card, u) /\ Visible(Row(p.card), u) # <<>>
        /\ OptionOf(Row(p.card), p.option) # Unset /\ ServerVerifies(p)
        /\ decided' = [decided EXCEPT ![p.card] =
                [v \in DOMAIN @ \cup {u} |-> IF v = u THEN decision ELSE @[v]]]
        /\ UNCHANGED <<salt, issued, view, posts, signed, starts>>

EvidenceNext ==
    \/ ServerStarts
    \/ \E k \in Cards : CardCreated(k)
    \/ \E d \in Signers, k \in Cards, socket \in BOOLEAN : DeviceReceives(d, k, socket)
    \/ \E option \in DOMAIN KindOf, text \in Notes, answer \in Answers \cup {Unset} :
        \/ DeviceSigns(option, text, answer)
        \/ \E d \in OldApps, k \in Cards, form \in {"canonical", "offset"} :
                OlderAppSigns(d, k, option, text, answer, form)
    \/ \E p \in posts : ServerRecords(p)

EvidenceSpec == EvidenceInit /\ [][EvidenceNext]_evidenceVars
----------------------------------------------------------------------------
(***************************************************************************)
(* The verifier.                                                           *)
(***************************************************************************)
\* Mutant: the stored payload is checked, not the fields of the decision.
PayloadRebuiltTrusting(decision) == TRUE

\* The payload rebuilt from the decision's fields is the one that is stored.
PayloadRebuilt(decision) ==
    decision.sig.bytes =
        [SigningPayload(decision.sig.version, decision.id, decision.sig.digest, decision.option,
                        decision.device, "canonical", decision.text, decision.answer)
            EXCEPT !.user = decision.user, !.kind = decision.kind]

\* verify_decision_receipt with every device's key pinned; a clock outside the
\* tolerance only warns unless time is strict.
VerifyDecisionReceipt(created, decision) ==
    /\ decision.id = created.id
    /\ created.field => HasContext(created)
    /\ decision.sig.digest \in Candidates(created)
    /\ OptionOf(created, decision.option) # Unset /\ decision.kind = KindOf[decision.option]
    /\ \E d \in Signers : /\ SignerUser[d] = decision.user /\ d = decision.sig.key
                          /\ d = decision.device
    /\ IF decision.sig.version = "d1" THEN decision.answer = Unset /\ ~created.field
       ELSE decision.answer # Unset
    /\ PayloadRebuilt(decision)

\* Mutant: the expected user only checks, and does not select.
LoadDecisionOfAll(k, user) == DOMAIN decided[k]

\* load_decision: a shared decision, or the entries of the expected user, or
\* all entries where no user is expected.
LoadDecision(k, user) ==
    LET users == DOMAIN decided[k]
    IN  IF Content[k].perUser /\ user # Unset THEN users \cap {user} ELSE users

\* The exit code of nod-verify on the issuer's files: 2 where it cannot tell
\* which decision is meant, 1 where there is none or it does not pass.
NodVerify(created, k, user, option) ==
    LET users == LoadDecision(k, user)
    IN  CASE Cardinality(users) > 1 -> 2
          [] users = {} -> 1
          [] OTHER -> LET decision == decided[k][CHOOSE u \in users : TRUE]
                      IN  IF /\ VerifyDecisionReceipt(created, decision)
                             /\ user \in {Unset, decision.user}
                             /\ option \in {Unset, decision.option}
                          THEN 0 ELSE 1
----------------------------------------------------------------------------
(***************************************************************************)
(* Properties.                                                             *)
(***************************************************************************)
\* Whatever route a request took to a device, and however its recipients were
\* hidden on the way, a value-capable device reproduces a digest the server
\* accepts, so that no projection makes a request unanswerable; a device
\* without the value contract never holds a value request it could sign.
ViewsCanBeSigned ==
    LET w == view.copy
    IN  view.device # Unset =>
            IF view.device \in Incapable THEN Content[w.id].field => ~Reproduces(w)
            ELSE Reproduces(w) /\ Asserted(w) \in Candidates(RequestFromRows(w.id))

\* Every recorded decision passes nod-verify against the create response, for
\* the user and the option it names, across upgrades and restarts.  A response
\* of a release without signing contexts only covers line-snapshot signatures.
HonestReceiptsVerify ==
    \A k \in Cards : \A u \in DOMAIN decided[k] :
        HasContext(issued[k]) \/ decided[k][u].sig.digest = LineSnapshot(issued[k]) =>
            NodVerify(issued[k], k, u, decided[k][u].option) = 0

\* Create responses and decisions that are not the ones of this request: of
\* another request, or changed after they were saved.
OtherResponses(w) ==
    {w} \cup {issued[k] : k \in DOMAIN issued}
        \cup {[w EXCEPT !.body = "other"], [w EXCEPT !.extra = "other"],
              [w EXCEPT !.opts = @ \cup {"other"}], [w EXCEPT !.perUser = ~@]}

OtherDecisions(x) ==
    {x} \cup {[x EXCEPT !.option = o, !.kind = KindOf[o]] : o \in DOMAIN KindOf}
        \cup {[x EXCEPT !.text = t] : t \in {"none", "note"}}
        \cup {[x EXCEPT !.answer = a] : a \in Answers}
        \cup {[x EXCEPT !.device = d, !.user = SignerUser[d]] : d \in Signers}
        \cup {[x EXCEPT !.id = k] : k \in Cards}

\* What a digest says of a copy: the line snapshot leaves out notification and
\* callback, and the other encoders replace the recipients by a commitment.
Covered(w, digest) ==
    IF digest = LineSnapshot(w) THEN LineSnapshot(w)
    ELSE <<w.id, w.ctx.commitment, w.perUser, w.body, w.extra, w.opts, w.field>>

\* "A pass proves the pinned device signed exactly this option on exactly this
\* request": whatever files the verifier is given, what it passes was signed.
VerifiedMeansSigned ==
    \A k \in Cards : \A u \in DOMAIN decided[k] :
        \A w \in OtherResponses(issued[k]), x \in OtherDecisions(decided[k][u]) :
            VerifyDecisionReceipt(w, x) =>
                \E s \in signed :
                    /\ s.device = x.device /\ s.option = x.option
                    /\ s.text = x.text /\ s.answer = x.answer
                    /\ Covered(s.copy, x.sig.digest) = Covered(w, x.sig.digest)
==============================================================================
