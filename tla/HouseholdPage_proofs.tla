------------------------ MODULE HouseholdPage_proofs ------------------------
(***************************************************************************)
(* What a household's page promises, for every number of members and of    *)
(* requests.  The invariant has a part for each of the page's own: the     *)
(* form and its zone, the owner, the table of members, the invitations.    *)
(* The first holds whatever the user does; the others for a user who waits *)
(* for what is under way (~Eager), until the page is left.                 *)
(***************************************************************************)
EXTENDS Pages_proofs

-----------------------------------------------------------------------------
(* The pages of a household                                                *)

LEMMA HouseholdWire ==
  /\ \A w, k, a : Household!SendAgain(w, k, a) = SendAgain(w, k, a)
  /\ \A w, k : Household!Ignore(w, k) = Ignore(w, k)
  /\ \A w, k, a : Household!Send(w, k, a) = Send(w, k, a)
  /\ \A k, a : Household!Call(k, a) = Call(k, a)
  /\ \A w, i, a : Household!Ok(w, i, a) = Ok(w, i, a)
  /\ \A w, i, s : Household!Settle(w, i, s) = Settle(w, i, s)
  /\ \A w, i : Household!Received(w, i) = Received(w, i)
  /\ \A w, K : Household!Out(w, K) = Out(w, K)
  /\ \A w : Household!Settled(w) = Settled(w)
  /\ \A w : Household!Waiting(w) = Waiting(w)
  /\ \A r : Household!Data(r) = Data(r)
<1>1. \A S : Household!Cardinality(S) = Cardinality(S)
  BY DEF Household!Cardinality, Cardinality
<1>2. \A S, n : Household!Place(S, n) = Place(S, n)
  BY DEF Household!Place, Place, Household!Cardinality, Cardinality
<1>3. \A w, S : Household!Sift(w, S) = Sift(w, S)
  BY <1>1, <1>2 DEF Household!Sift, Sift
<1>4. \A w, k : Household!Ignore(w, k) = Ignore(w, k)
  BY <1>3 DEF Household!Ignore, Ignore
<1>5. \A w, k, a : Household!SendAgain(w, k, a) = SendAgain(w, k, a)
  BY <1>4 DEF Household!SendAgain, Household!Send, Household!Call, SendAgain, Send, Call
<1>6. \A w, k, a : Household!Send(w, k, a) = Send(w, k, a)
  BY DEF Household!Send, Household!Call, Send, Call
<1>7. \A k, a : Household!Call(k, a) = Call(k, a)
  BY DEF Household!Call, Call
<1> QED BY <1>4, <1>5, <1>6, <1>7
        DEF Household!Ok, Household!Settle, Household!Received, Household!Out, Household!Settled, Household!Waiting, Household!Data,
            Ok, Settle, Received, Out, Settled, Waiting, Data

LEMMA HouseholdSifts ==
  \A w, S : Household!Sift(w, S) = Sift(w, S)
<1>1. \A S : Household!Cardinality(S) = Cardinality(S)
  BY DEF Household!Cardinality, Cardinality
<1>2. \A S, n : Household!Place(S, n) = Place(S, n)
  BY DEF Household!Place, Place, Household!Cardinality, Cardinality
<1> QED BY <1>1, <1>2 DEF Household!Sift, Sift

HouseholdFields ==
  {"page", "at", "mount", "loading", "error", "lost", "refused", "household", "myRole", "zone", "picked",
   "saving", "confirming", "confirmed", "roster", "promoted", "staged", "candidates", "chosen",
   "invitations", "creating"}
WorldFields == {"admin", "zone", "deleted", "roles", "invitations", "made", "elsewhere"}

Owned == {"household", "transfer", "restore"}
Copying(r) == r.kind \in Owned /\ r.is = "ok"

(* The household itself: what is on the wire before and after it came.     *)
HouseholdType(v, w, d) ==
  /\ IsWire(w) /\ DOMAIN v = HouseholdFields /\ DOMAIN d = WorldFields
  /\ v.page \in {"new", "admin_new"} => ~Out(w, Owned)
  /\ v.page \in {"new", "admin_new"} => v.household = {} /\ v.zone \in Household!Zones
  /\ v.page \in {"mine", "admin", "new", "admin_new"}
  /\ v.household = {} \/ \E h : v.household = {h}
  /\ One(w, {"household"})
  /\ v.household = {} => ~Out(w, {"transfer", "restore"}) /\ v.promoted = {}
  /\ v.household # {} => ~Out(w, {"household"})
  /\ v.household = {} /\ v.page \notin {"new", "admin_new"} => ~Out(w, {"save"})
  /\ \A r \in Requests(w) : r.is \in {"sent", "ok", "invalid", "refused", "lost"}
  /\ \A r \in Requests(w) : r.is = "ok" => \E a : r.answer = {a}

(* The zone: until one is picked, every copy of the household has the same.*)
ZoneRests(v, w, d) ==
  v.page \notin {"new", "admin_new"} /\ ~v.picked =>
    /\ v.household # {} => v.zone = Household!Household(v).zone /\ v.zone = d.zone
    /\ \A r \in Requests(w) : /\ Copying(r) => Data(r).zone = d.zone
                              /\ r.kind = "save" => r.arg.of = {}

ZoneSound(v, w, d) ==
  /\ One(w, {"save"}) /\ (Out(w, {"save"}) => v.saving)
  /\ v.confirming => ~v.saving /\ v.household # {}
  /\ \A r \in Requests(w) :
       /\ r.kind = "save" /\ v.household # {} => r.arg.of \subseteq v.confirmed
       /\ r.kind = "save" /\ r.arg.of = {Household!Legacy} => v.picked
       /\ r.is = "invalid" => r.kind = "save" /\ v.picked
  /\ v.refused = "invalid" => v.picked
  /\ ZoneRests(v, w, d)

(* The user has left, or the page has.                                     *)
Gone(v, w) ==
  \/ v.at # "page"
  \/ \E r \in Requests(w) : (r.kind = "leave" /\ r.is = "ok") \/ (r.kind = "refresh" /\ r.arg.of = "leave")

(* Whom a transfer has promoted, unseen by the table of members.           *)
Unseen(v, w, d) ==
  IF \E r \in Requests(w) : r.kind = "transfer" /\ r.is = "ok" THEN v.promoted \cup {d.admin} ELSE v.promoted
RosterShows(roster, v, w, d) ==
  DOMAIN roster = DOMAIN d.roles /\ \A m \in DOMAIN d.roles \ Unseen(v, w, d) : roster[m] = d.roles[m]
Rereading(v, w) ==
  \E r \in Requests(w) : r.kind \in {"role", "remove"} /\ r.is = "ok" /\ r.arg.mount = v.mount

(* The owner and the user, as the page has them.                           *)
OwnerSound(v, w, d) ==
  /\ One(w, Owned) /\ ~(Out(w, {"transfer"}) /\ Out(w, {"role"} \cup Household!Keeping))
  /\ \A r \in Requests(w) : Copying(r) => Data(r).admin = d.admin
  /\ v.household # {} /\ ~(\E r \in Requests(w) : r.kind = "transfer" /\ r.is = "ok")
       => Household!Household(v).admin = d.admin
  /\ v.page = "mine" /\ v.household # {} /\ Household!Household(v).admin # Household!Me
       => ~Out(w, {"transfer"}) /\ v.promoted = {}
  /\ \A r \in Requests(w) :
       r.kind \in {"role", "remove"} \cup Household!Keeping /\ r.arg.mount # v.mount
       => r.kind = "remove" /\ v.page = "mine" /\ v.household # {} /\ Household!Household(v).admin # Household!Me
  /\ v.page = "mine" =>
       /\ Household!Me \in DOMAIN d.roles /\ v.myRole = d.roles[Household!Me]
       /\ d.admin = Household!Me => v.myRole = Household!Organiser
       /\ \A r \in Requests(w) : r.kind = "refresh" /\ r.is = "ok" => Data(r) = v.myRole

RosterSound(v, w, d) ==
  /\ One(w, {"roster"})
  /\ v.household = {} => ~Out(w, {"roster", "role", "remove"}) /\ v.roster = {} /\ v.staged = <<>>
  /\ \A r \in Requests(w) :
       r.kind = "roster" /\ r.is = "ok" /\ ~Rereading(v, w) => RosterShows(Data(r), v, w, d)
  /\ v.household # {} /\ ~v.lost /\ ~Out(w, {"roster"}) /\ ~Rereading(v, w)
       => \E roster : v.roster = {roster} /\ RosterShows(roster, v, w, d)

(* The invitations: newest first, so that a list is the set of those in it.*)
Falling(list) ==
  /\ \E T : list \in Seq(T)
  /\ \A i \in DOMAIN list :
       /\ list[i] = [id |-> list[i].id, status |-> list[i].status]
       /\ list[i].id \in Nat /\ list[i].status \in {"pending", "revoked"}
  /\ \A i, j \in DOMAIN list : i < j => list[j].id < list[i].id
Items(list) == {list[i] : i \in DOMAIN list}
Ids(list) == {list[i].id : i \in DOMAIN list}
Made(id, status) == [id |-> id, status |-> status]

Answered(w, kind) == {r \in Requests(w) : r.kind = kind /\ r.is = "ok"}
(* The last one the list can know of.                                      *)
Known(w, d) == IF Answered(w, "invite") # {} THEN d.made - 1 ELSE d.made

ListFollows(v, w, d) ==
  /\ Falling(v.invitations)
  /\ \A x \in Items(v.invitations) :
       /\ x.id <= Known(w, d)
       /\ x.status = "pending" =>
            x \in Items(d.invitations) \/ (Made(x.id, "revoked") \in Items(d.invitations)
                                           /\ \E r \in Answered(w, "revoke") : r.arg.of = x.id)
       /\ x.status = "revoked" =>
            x \in Items(d.invitations) \/ (x.id \notin Ids(d.invitations)
                                           /\ \E r \in Answered(w, "discard") : r.arg.of = x.id)
  /\ \A y \in Items(d.invitations) : y.id \in Ids(v.invitations) \/ (Answered(w, "invite") # {} /\ y.id = d.made)
  /\ \A r \in Answered(w, "invite") : /\ Data(r) = Made(d.made, "pending")
                                      /\ Data(r) \in Items(d.invitations)
  /\ \A r \in Answered(w, "revoke") : /\ Data(r) = Made(r.arg.of, "revoked")
                                      /\ Made(r.arg.of, "pending") \notin Items(d.invitations)
  /\ \A r \in Answered(w, "discard") : r.arg.of \notin Ids(d.invitations)
  /\ \A r \in Requests(w) : r.kind \in {"revoke", "discard"} => r.arg.of \in Nat /\ r.arg.of <= Known(w, d)
  /\ \A r \in Requests(w) : r.kind = "discard" => Made(r.arg.of, "pending") \notin Items(v.invitations)

InvitationsSound(v, w, d) ==
  /\ One(w, {"invites"}) /\ One(w, {"invite"}) /\ (Out(w, {"invite"}) => v.creating)
  /\ Out(w, {"invites"}) => ~Out(w, Household!Keeping)
  /\ v.household = {} => ~Out(w, {"invites"} \cup Household!Keeping)
  /\ v.page # "mine" \/ v.myRole # Household!Organiser => ~Out(w, {"invites"} \cup Household!Keeping)
  /\ ~d.elsewhere =>
       /\ Falling(d.invitations) /\ d.made \in Nat /\ \A y \in Items(d.invitations) : y.id <= d.made
       /\ \A r \in Answered(w, "invites") : Data(r) = d.invitations
       /\ v.page = "mine" /\ v.myRole = Household!Organiser /\ v.household # {} /\ ~v.lost /\ ~Out(w, {"invites"})
            => ListFollows(v, w, d)

HouseholdSound(v, w, d) ==
  /\ HouseholdType(v, w, d) /\ ZoneSound(v, w, d)
  /\ ~Eager /\ ~Gone(v, w) => OwnerSound(v, w, d) /\ RosterSound(v, w, d) /\ InvitationsSound(v, w, d)

HouseholdInv == HouseholdSound(view, wire, world)


(* What a wire without request i, and one with the call c more, amount to. *)
Leaves(w2, w, i) ==
  /\ IsWire(w2) /\ w[i] \in Requests(w)
  /\ Requests(w2) \subseteq Requests(w) /\ Requests(w) \subseteq Requests(w2) \cup {w[i]}
  /\ \A K : Out(w2, K) => Out(w, K)
  /\ \A K : Out(w, K) /\ w[i].kind \notin K => Out(w2, K)
  /\ \A K : One(w, K) => One(w2, K)
  /\ \A K : One(w, K) /\ w[i].kind \in K => ~Out(w2, K)

Adds(w2, w, c) ==
  /\ IsWire(w2) /\ c.is = "sent" /\ c.answer = {}
  /\ Requests(w2) = Requests(w) \cup {c}
  /\ \A K : Out(w2, K) <=> Out(w, K) \/ c.kind \in K
  /\ \A K : One(w, K) /\ ~(c.kind \in K /\ Out(w, K)) => One(w2, K)

LEMMA ReceivedLeaves ==
  ASSUME NEW w, IsWire(w), NEW i \in DOMAIN w
  PROVE  Leaves(Received(w, i), w, i)
<1>1. w[i] \in Requests(w)
  BY DEF Requests
<1> QED BY <1>1, ReceivedRequests DEF Leaves

LEMMA SendAdds ==
  ASSUME NEW w, IsWire(w), NEW k, NEW a
  PROVE  Adds(Send(w, k, a), w, Call(k, a)) /\ Call(k, a).kind = k /\ Call(k, a).arg = a
BY SendRequests, CallFields DEF Adds

LEMMA OutRequests ==
  ASSUME NEW w PROVE \A K : Out(w, K) <=> \E r \in Requests(w) : r.kind \in K
BY DEF Out, Requests

-----------------------------------------------------------------------------
(* What each part of the invariant needs of an answer, of one received and *)
(* of a request sent.                                                      *)

LEMMA TypeAnswered ==
  ASSUME NEW v, NEW w, NEW d, NEW w2, NEW d2, NEW i, NEW r, HouseholdType(v, w, d),
         Becomes(w2, w, i, r), r.kind = w[i].kind, DOMAIN d2 = WorldFields,
         r.is \in {"sent", "ok", "invalid", "refused", "lost"}, r.is = "ok" => \E a : r.answer = {a}
  PROVE  HouseholdType(v, w2, d2)
BY DEF HouseholdType, Becomes

LEMMA TypeReceived ==
  ASSUME NEW v, NEW w, NEW d, NEW v2, NEW w2, NEW i, HouseholdType(v, w, d), Leaves(w2, w, i),
         DOMAIN v2 = HouseholdFields, v2.page = v.page, v2.household = v.household,
         v2.promoted = v.promoted \/ v2.promoted = {}, v2.zone = v.zone
  PROVE  HouseholdType(v2, w2, d)
BY DEF HouseholdType, Leaves

LEMMA TypeSent ==
  ASSUME NEW v, NEW w, NEW d, NEW v2, NEW w2, NEW c, HouseholdType(v, w, d), Adds(w2, w, c),
         DOMAIN v2 = HouseholdFields, v2.page = v.page, v2.household = v.household, v2.promoted = v.promoted,
         v2.zone = v.zone,
         c.kind # "household", c.kind \in {"transfer", "restore"} => v.household # {},
         c.kind = "save" => v.household # {} \/ v.page \in {"new", "admin_new"}
  PROVE  HouseholdType(v2, w2, d)
BY DEF HouseholdType, Adds, Owned

LEMMA ZoneAnswered ==
  ASSUME NEW v, NEW w, NEW d, NEW w2, NEW d2, NEW i, NEW r, ZoneSound(v, w, d),
         Becomes(w2, w, i, r), r.kind = w[i].kind, r.arg = w[i].arg, d2.zone = d.zone,
         Copying(r) => Data(r).zone = d.zone, r.is = "invalid" => r.kind = "save" /\ v.picked
  PROVE  ZoneSound(v, w2, d2)
BY DEF ZoneSound, ZoneRests, Becomes

LEMMA ZoneReceived ==
  ASSUME NEW v, NEW w, NEW d, NEW v2, NEW w2, NEW i, ZoneSound(v, w, d), Leaves(w2, w, i),
         v2.page = v.page, v2.picked = v.picked, v2.household = v.household, v2.zone = v.zone,
         v2.saving = v.saving, v2.confirming = v.confirming, v2.confirmed = v.confirmed, v2.refused = v.refused
  PROVE  ZoneSound(v2, w2, d)
BY DEF ZoneSound, ZoneRests, Leaves, Household!Household

LEMMA ZoneSent ==
  ASSUME NEW v, NEW w, NEW d, NEW v2, NEW w2, NEW c, ZoneSound(v, w, d), Adds(w2, w, c), c.kind # "save",
         v2.page = v.page, v2.picked = v.picked, v2.household = v.household, v2.zone = v.zone,
         v2.saving = v.saving, v2.confirming = v.confirming, v2.confirmed = v.confirmed, v2.refused = v.refused
  PROVE  ZoneSound(v2, w2, d)
BY DEF ZoneSound, ZoneRests, Adds, Household!Household, Copying

LEMMA OwnerAnswered ==
  ASSUME NEW v, NEW w, NEW d, NEW w2, NEW d2, NEW i, NEW r, OwnerSound(v, w, d),
         Becomes(w2, w, i, r), r.kind = w[i].kind, r.arg = w[i].arg, w[i].is = "sent",
         d2.admin = d.admin, v.page = "mine" => Household!Me \in DOMAIN d2.roles,
         v.page = "mine" => d2.roles[Household!Me] = d.roles[Household!Me],
         Copying(r) => Data(r).admin = d.admin,
         r.kind = "refresh" /\ r.is = "ok" /\ v.page = "mine" => Data(r) = v.myRole
  PROVE  OwnerSound(v, w2, d2)
BY DEF OwnerSound, Becomes

LEMMA OwnerReceived ==
  ASSUME NEW v, NEW w, NEW d, NEW v2, NEW w2, NEW i, OwnerSound(v, w, d), Leaves(w2, w, i),
         ~(w[i].kind = "transfer" /\ w[i].is = "ok"),
         v2.page = v.page, v2.household = v.household, v2.promoted = v.promoted \/ v2.promoted = {},
         v2.mount = v.mount, v.page = "mine" => v2.myRole = v.myRole
  PROVE  OwnerSound(v2, w2, d)
<1>1. \A r \in Requests(w) : r # w[i] => r \in Requests(w2)
  BY DEF Leaves
<1>2. (\E r \in Requests(w2) : r.kind = "transfer" /\ r.is = "ok")
        <=> \E r \in Requests(w) : r.kind = "transfer" /\ r.is = "ok"
  BY <1>1 DEF Leaves
<1> QED BY <1>2 DEF OwnerSound, Leaves, Household!Household

LEMMA OwnerSent ==
  ASSUME NEW v, NEW w, NEW d, NEW v2, NEW w2, NEW c, OwnerSound(v, w, d), Adds(w2, w, c),
         c.kind \notin Owned,
         c.kind \in {"role", "remove"} \cup Household!Keeping => c.arg.mount = v.mount,
         c.kind \in {"role"} \cup Household!Keeping => ~Out(w, {"transfer"}),
         v2.page = v.page, v2.household = v.household, v2.promoted = v.promoted,
         v2.mount = v.mount, v2.myRole = v.myRole
  PROVE  OwnerSound(v2, w2, d)
<1>1. c.kind # "transfer" /\ ~Copying(c) /\ c.is = "sent"
  BY DEF Owned, Copying, Adds
<1>2. (\E r \in Requests(w2) : r.kind = "transfer" /\ r.is = "ok")
        <=> \E r \in Requests(w) : r.kind = "transfer" /\ r.is = "ok"
  BY <1>1 DEF Adds
<1> QED BY <1>1, <1>2 DEF OwnerSound, Adds, Household!Household

LEMMA RosterAnswered ==
  ASSUME NEW v, NEW w, NEW d, NEW w2, NEW d2, NEW i, NEW r, RosterSound(v, w, d),
         Becomes(w2, w, i, r), r.kind = w[i].kind, r.arg = w[i].arg, w[i].is = "sent",
         d2.admin = d.admin, d2.roles = d.roles,
         r.is = "ok" => r.kind \notin {"role", "remove", "transfer"},
         r.kind = "roster" /\ r.is = "ok" => Data(r) = d.roles
  PROVE  RosterSound(v, w2, d2)
<1>1. Requests(w2) \subseteq Requests(w) \cup {r} /\ \A q \in Requests(w) : q.is # "sent" => q \in Requests(w2)
  BY DEF Becomes
<1>2. Rereading(v, w2) <=> Rereading(v, w)
  BY <1>1 DEF Rereading
<1>3. Unseen(v, w2, d2) = Unseen(v, w, d)
  <2>1. (\E q \in Requests(w2) : q.kind = "transfer" /\ q.is = "ok")
          <=> \E q \in Requests(w) : q.kind = "transfer" /\ q.is = "ok"
    BY <1>1
  <2> QED BY <2>1 DEF Unseen
<1>4. \A roster : RosterShows(roster, v, w2, d2) <=> RosterShows(roster, v, w, d)
  BY <1>3 DEF RosterShows
<1>5. RosterShows(d.roles, v, w, d)
  BY DEF RosterShows
<1> HIDE DEF RosterShows
<1>6. \A K : (Out(w2, K) <=> Out(w, K)) /\ (One(w, K) => One(w2, K))
  BY DEF Becomes
<1> QED BY <1>1, <1>2, <1>4, <1>5, <1>6 DEF RosterSound

LEMMA RosterReceived ==
  ASSUME NEW v, NEW w, NEW d, NEW v2, NEW w2, NEW i, RosterSound(v, w, d), Leaves(w2, w, i),
         w[i].kind # "roster", w[i].is = "ok" => w[i].kind # "transfer",
         w[i].kind \in {"role", "remove"} /\ w[i].is = "ok" => w[i].arg.mount # v.mount,
         v2.mount = v.mount, v2.household = {} <=> v.household = {}, v2.promoted = v.promoted, v2.roster = v.roster,
         v2.staged = v.staged, v.lost => v2.lost
  PROVE  RosterSound(v2, w2, d)
<1>1. Requests(w2) \subseteq Requests(w) /\ \A q \in Requests(w) : q # w[i] => q \in Requests(w2)
  BY DEF Leaves
<1>2. Rereading(v2, w2) <=> Rereading(v, w)
  BY <1>1 DEF Rereading
<1>3. Unseen(v2, w2, d) = Unseen(v, w, d)
  <2>1. (\E q \in Requests(w2) : q.kind = "transfer" /\ q.is = "ok")
          <=> \E q \in Requests(w) : q.kind = "transfer" /\ q.is = "ok"
    BY <1>1
  <2> QED BY <2>1 DEF Unseen
<1>4. \A roster : RosterShows(roster, v2, w2, d) <=> RosterShows(roster, v, w, d)
  BY <1>3 DEF RosterShows
<1>5. /\ \A K : (Out(w2, K) => Out(w, K)) /\ (One(w, K) => One(w2, K))
      /\ Out(w, {"roster"}) => Out(w2, {"roster"})
  BY DEF Leaves
<1> QED BY <1>1, <1>2, <1>4, <1>5 DEF RosterSound

LEMMA RosterSent ==
  ASSUME NEW v, NEW w, NEW d, NEW v2, NEW w2, NEW c, RosterSound(v, w, d), Adds(w2, w, c), c.kind # "roster",
         c.kind \in {"role", "remove"} => v.household # {},
         v2.mount = v.mount, v2.household = v.household, v2.promoted = v.promoted, v2.roster = v.roster,
         v2.staged = v.staged \/ v2.staged = <<>>, v2.lost = v.lost
  PROVE  RosterSound(v2, w2, d)
<1>1. Requests(w2) = Requests(w) \cup {c} /\ c.is = "sent"
  BY DEF Adds
<1>2. Rereading(v2, w2) <=> Rereading(v, w)
  BY <1>1 DEF Rereading
<1>3. Unseen(v2, w2, d) = Unseen(v, w, d)
  <2>1. (\E q \in Requests(w2) : q.kind = "transfer" /\ q.is = "ok")
          <=> \E q \in Requests(w) : q.kind = "transfer" /\ q.is = "ok"
    BY <1>1
  <2> QED BY <2>1 DEF Unseen
<1>4. \A roster : RosterShows(roster, v2, w2, d) <=> RosterShows(roster, v, w, d)
  BY <1>3 DEF RosterShows
<1>5. /\ \A K : (Out(w2, K) <=> Out(w, K) \/ c.kind \in K)
      /\ \A K : One(w, K) /\ ~(c.kind \in K /\ Out(w, K)) => One(w2, K)
  BY DEF Adds
<1> QED BY <1>1, <1>2, <1>4, <1>5 DEF RosterSound


(* The list follows the API's as far as the same answers are outstanding.  *)
LEMMA ListFollowsSame ==
  ASSUME NEW v, NEW w, NEW d, NEW v2, NEW w2, NEW d2, ListFollows(v, w, d),
         v2.invitations = v.invitations, d2.invitations = d.invitations, d2.made = d.made,
         \A k \in Household!Keeping : Answered(w2, k) = Answered(w, k),
         \A r \in Requests(w2) : r.kind \in {"revoke", "discard"} =>
           \/ \E q \in Requests(w) : q.kind = r.kind /\ q.arg = r.arg
           \/ /\ r.arg.of \in Nat /\ r.arg.of <= Known(w, d)
              /\ r.kind = "discard" => Made(r.arg.of, "pending") \notin Items(v.invitations)
  PROVE  ListFollows(v2, w2, d2)
<1>1. Answered(w2, "invite") = Answered(w, "invite") /\ Answered(w2, "revoke") = Answered(w, "revoke")
        /\ Answered(w2, "discard") = Answered(w, "discard")
  BY DEF Household!Keeping
<1>2. Known(w2, d2) = Known(w, d)
  BY <1>1 DEF Known
<1> QED BY <1>1, <1>2 DEF ListFollows

LEMMA InvitationsAnswered ==
  ASSUME NEW v, NEW w, NEW d, NEW w2, NEW d2, NEW i, NEW r, InvitationsSound(v, w, d),
         Becomes(w2, w, i, r), r.kind = w[i].kind, r.arg = w[i].arg, w[i].is = "sent",
         d2.invitations = d.invitations, d2.made = d.made, d2.elsewhere = d.elsewhere,
         r.is = "ok" => r.kind \notin Household!Keeping,
         r.kind = "invites" /\ r.is = "ok" => Data(r) = d.invitations
  PROVE  InvitationsSound(v, w2, d2)
<1>1. Requests(w2) \subseteq Requests(w) \cup {r} /\ \A q \in Requests(w) : q.is # "sent" => q \in Requests(w2)
  BY DEF Becomes
<1>2. \A k \in Household!Keeping : Answered(w2, k) = Answered(w, k)
  BY <1>1 DEF Answered
<1>3. \A q \in Requests(w2) : \E p \in Requests(w) : p.kind = q.kind /\ p.arg = q.arg
  BY <1>1 DEF Becomes
<1>4. ListFollows(v, w, d) => ListFollows(v, w2, d2)
  BY <1>2, <1>3, ListFollowsSame
<1>5. \A K : (Out(w2, K) <=> Out(w, K)) /\ (One(w, K) => One(w2, K))
  BY DEF Becomes
<1>6. \A q \in Answered(w2, "invites") : q \in Answered(w, "invites") \/ Data(q) = d.invitations
  BY <1>1 DEF Answered
<1> QED BY <1>4, <1>5, <1>6 DEF InvitationsSound

LEMMA InvitationsReceived ==
  ASSUME NEW v, NEW w, NEW d, NEW v2, NEW w2, NEW i, InvitationsSound(v, w, d), Leaves(w2, w, i),
         w[i].kind # "invites", w[i].is = "ok" => w[i].kind \notin Household!Keeping,
         v2.page = v.page, v2.household = {} <=> v.household = {}, v.page = "mine" => v2.myRole = v.myRole,
         v.lost => v2.lost, v2.invitations = v.invitations,
         v2.creating = v.creating \/ w[i].kind = "invite"
  PROVE  InvitationsSound(v2, w2, d)
<1>1. Requests(w2) \subseteq Requests(w) /\ \A q \in Requests(w) : q # w[i] => q \in Requests(w2)
  BY DEF Leaves
<1>2. \A k \in Household!Keeping : Answered(w2, k) = Answered(w, k)
  BY <1>1 DEF Answered
<1>4. ListFollows(v, w, d) => ListFollows(v2, w2, d)
  BY <1>1, <1>2, ListFollowsSame
<1>5. /\ \A K : (Out(w2, K) => Out(w, K)) /\ (One(w, K) => One(w2, K))
      /\ Out(w, {"invites"}) => Out(w2, {"invites"})
      /\ w[i].kind = "invite" /\ One(w, {"invite"}) => ~Out(w2, {"invite"})
  BY DEF Leaves
<1>6. \A q \in Answered(w2, "invites") : q \in Answered(w, "invites")
  BY <1>1 DEF Answered
<1> QED BY <1>4, <1>5, <1>6 DEF InvitationsSound

LEMMA InvitationsSent ==
  ASSUME NEW v, NEW w, NEW d, NEW v2, NEW w2, NEW c, InvitationsSound(v, w, d), Adds(w2, w, c),
         c.kind \notin {"invites"} \cup Household!Keeping,
         v2.page = v.page, v2.household = v.household, v2.myRole = v.myRole, v2.lost = v.lost,
         v2.invitations = v.invitations, v2.creating = v.creating
  PROVE  InvitationsSound(v2, w2, d)
<1>1. Requests(w2) = Requests(w) \cup {c} /\ c.is = "sent"
  BY DEF Adds
<1>2. \A k : Answered(w2, k) = Answered(w, k)
  BY <1>1 DEF Answered
<1>3. \A q \in Requests(w2) : q.kind \in Household!Keeping => q \in Requests(w)
  BY <1>1
<1>4. ListFollows(v, w, d) => ListFollows(v2, w2, d)
  BY <1>2, <1>3, ListFollowsSame DEF Household!Keeping
<1>5. /\ \A K : c.kind \notin K => (Out(w2, K) <=> Out(w, K)) /\ (One(w, K) => One(w2, K))
  BY DEF Adds
<1>6. /\ Out(w2, {"invites"}) <=> Out(w, {"invites"})
      /\ Out(w2, {"invite"}) <=> Out(w, {"invite"})
      /\ Out(w2, Household!Keeping) <=> Out(w, Household!Keeping)
      /\ Out(w2, {"invites"} \cup Household!Keeping) <=> Out(w, {"invites"} \cup Household!Keeping)
      /\ One(w, {"invites"}) => One(w2, {"invites"})
      /\ One(w, {"invite"}) => One(w2, {"invite"})
  BY <1>5 DEF Household!Keeping
<1> QED BY <1>2, <1>4, <1>6 DEF InvitationsSound

(* Who has gone stays away.                                                *)
LEMMA GoneAnswered ==
  ASSUME NEW v, NEW w, NEW w2, NEW i, NEW r, Becomes(w2, w, i, r), r.kind = w[i].kind, r.arg = w[i].arg,
         w[i].is = "sent", Gone(v, w)
  PROVE  Gone(v, w2)
<1>1. \A q \in Requests(w) : q \in Requests(w2) \/ q = w[i]
  BY DEF Becomes
<1>2. r \in Requests(w2)
  BY DEF Becomes
<1> QED BY <1>1, <1>2 DEF Gone

LEMMA GoneReceived ==
  ASSUME NEW v, NEW w, NEW v2, NEW w2, NEW i, Leaves(w2, w, i), v2.at = v.at,
         ~(w[i].kind = "leave" /\ w[i].is = "ok"), ~(w[i].kind = "refresh" /\ w[i].arg.of = "leave")
  PROVE  Gone(v, w) => Gone(v2, w2)
BY DEF Gone, Leaves

LEMMA GoneSent ==
  ASSUME NEW v, NEW w, NEW v2, NEW w2, NEW c, Adds(w2, w, c), v2.at = v.at
  PROVE  Gone(v, w) => Gone(v2, w2)
BY DEF Gone, Adds


-----------------------------------------------------------------------------
(* The API answers                                                         *)

LEMMA HouseholdUnserved ==
  ASSUME HouseholdInv, NEW i \in DOMAIN wire, wire[i].is = "sent", NEW s \in {"invalid", "refused", "lost"},
         wire' = Settle(wire, i, s), s = "invalid" => wire[i].kind = "save" /\ view.picked,
         view' = view, world' = world
  PROVE  HouseholdInv'
<1>1. HouseholdType(view, wire, world) /\ ZoneSound(view, wire, world) /\ IsWire(wire)
  BY DEF HouseholdInv, HouseholdSound, HouseholdType
<1>2. PICK r : /\ r.kind = wire[i].kind /\ r.arg = wire[i].arg /\ r.is = s /\ r.answer = wire[i].answer
               /\ Becomes(wire', wire, i, r)
  BY <1>1, SettleRequest
<1>3. r.is # "ok" /\ ~Copying(r)
  BY <1>2 DEF Copying
<1>4. HouseholdType(view, wire', world)
  <2>1. r.is \in {"sent", "ok", "invalid", "refused", "lost"} /\ DOMAIN world = WorldFields
    BY <1>1, <1>2 DEF HouseholdType
  <2> QED BY <1>1, <1>2, <1>3, <2>1, TypeAnswered
<1>5. ZoneSound(view, wire', world)
  BY <1>1, <1>2, <1>3, ZoneAnswered
<1>6. ASSUME ~Eager, ~Gone(view, wire')
      PROVE  OwnerSound(view, wire', world) /\ RosterSound(view, wire', world) /\ InvitationsSound(view, wire', world)
  <2>1. ~Gone(view, wire)
    BY <1>2, <1>6, GoneAnswered
  <2>2. OwnerSound(view, wire, world) /\ RosterSound(view, wire, world) /\ InvitationsSound(view, wire, world)
    BY <1>6, <2>1 DEF HouseholdInv, HouseholdSound
  <2>3. OwnerSound(view, wire', world)
    <3>1. view.page = "mine" => Household!Me \in DOMAIN world.roles
      BY <2>2 DEF OwnerSound
    <3> QED BY <1>2, <1>3, <2>2, <3>1, OwnerAnswered
  <2>4. RosterSound(view, wire', world)
    BY <1>2, <1>3, <2>2, RosterAnswered
  <2>5. InvitationsSound(view, wire', world)
    BY <1>2, <1>3, <2>2, InvitationsAnswered
  <2> QED BY <2>3, <2>4, <2>5
<1> QED BY <1>4, <1>5, <1>6 DEF HouseholdInv, HouseholdSound

LEMMA HouseholdReads ==
  ASSUME HouseholdInv, NEW i \in DOMAIN wire, Household!ServeRead(i)
  PROVE  HouseholdInv'
<1>1. HouseholdType(view, wire, world) /\ ZoneSound(view, wire, world) /\ IsWire(wire)
  BY DEF HouseholdInv, HouseholdSound, HouseholdType
<1>2. PICK a : /\ wire' = Ok(wire, i, a)
               /\ wire[i].kind \in {"household", "roster", "candidates", "invites", "refresh"}
               /\ wire[i].kind = "household" => a = Household!Copy
               /\ wire[i].kind = "roster" => a = world.roles
               /\ wire[i].kind = "invites" => a = world.invitations
               /\ wire[i].kind = "refresh" =>
                    a = IF Household!Member(Household!Me) THEN world.roles[Household!Me] ELSE Household!NotMember
  BY HouseholdWire DEF Household!ServeRead
<1>3. wire[i].is = "sent" /\ view' = view /\ world' = world
  BY HouseholdWire DEF Household!ServeRead, Waiting
<1>4. PICK r : /\ r.kind = wire[i].kind /\ r.arg = wire[i].arg /\ r.is = "ok" /\ r.answer = {a}
               /\ Becomes(wire', wire, i, r)
  BY <1>1, <1>2, OkRequest
<1>5. Data(r) = a
  BY <1>4, DataAnswered
<1>6. Copying(r) => Data(r).zone = world.zone /\ Data(r).admin = world.admin
  BY <1>2, <1>4, <1>5 DEF Copying, Owned, Household!Copy
<1>7. HouseholdType(view, wire', world)
  <2>1. DOMAIN world = WorldFields
    BY <1>1 DEF HouseholdType
  <2> QED BY <1>1, <1>4, <2>1, TypeAnswered
<1>8. ZoneSound(view, wire', world)
  BY <1>1, <1>4, <1>6, ZoneAnswered
<1>9. ASSUME ~Eager, ~Gone(view, wire')
      PROVE  OwnerSound(view, wire', world) /\ RosterSound(view, wire', world) /\ InvitationsSound(view, wire', world)
  <2>1. ~Gone(view, wire)
    BY <1>3, <1>4, <1>9, GoneAnswered
  <2>2. OwnerSound(view, wire, world) /\ RosterSound(view, wire, world) /\ InvitationsSound(view, wire, world)
    BY <1>9, <2>1 DEF HouseholdInv, HouseholdSound
  <2>3. view.page = "mine" => Household!Me \in DOMAIN world.roles /\ view.myRole = world.roles[Household!Me]
    BY <2>2 DEF OwnerSound
  <2>4. r.kind = "refresh" /\ r.is = "ok" /\ view.page = "mine" => Data(r) = view.myRole
    BY <1>2, <1>4, <1>5, <2>3 DEF Household!Member
  <2>5. OwnerSound(view, wire', world)
    BY <1>3, <1>4, <1>6, <2>2, <2>3, <2>4, OwnerAnswered
  <2>6. RosterSound(view, wire', world)
    BY <1>2, <1>3, <1>4, <1>5, <2>2, RosterAnswered
  <2>7. InvitationsSound(view, wire', world)
    BY <1>2, <1>3, <1>4, <1>5, <2>2, InvitationsAnswered DEF Household!Keeping
  <2> QED BY <2>5, <2>6, <2>7
<1> QED BY <1>3, <1>7, <1>8, <1>9 DEF HouseholdInv, HouseholdSound


LEMMA HouseholdChangesRoles ==
  ASSUME HouseholdInv, NEW i \in DOMAIN wire, wire[i].is = "sent", wire[i].kind \in {"role", "remove"},
         NEW a, wire' = Ok(wire, i, a), view' = view, DOMAIN world' = WorldFields,
         world'.admin = world.admin, world'.zone = world.zone, world'.invitations = world.invitations,
         world'.made = world.made, world'.elsewhere = world.elsewhere,
         wire[i].kind = "remove" => Household!InCharge,
         (view.page = "mine" /\ Household!Me \in DOMAIN world.roles /\
          (world.admin = Household!Me => world.roles[Household!Me] = Household!Organiser))
         => /\ Household!Me \in DOMAIN world'.roles
            /\ world'.roles[Household!Me] = world.roles[Household!Me]
  PROVE  HouseholdInv'
<1>1. HouseholdType(view, wire, world) /\ ZoneSound(view, wire, world) /\ IsWire(wire)
  BY DEF HouseholdInv, HouseholdSound, HouseholdType
<1>2. PICK r : /\ r.kind = wire[i].kind /\ r.arg = wire[i].arg /\ r.is = "ok" /\ r.answer = {a}
               /\ Becomes(wire', wire, i, r)
  BY <1>1, OkRequest
<1>3. ~Copying(r) /\ r.kind # "refresh" /\ r.kind # "invites" /\ r.kind \notin Household!Keeping
  BY <1>2 DEF Copying, Owned, Household!Keeping
<1>4. HouseholdType(view, wire', world')
  BY <1>1, <1>2, TypeAnswered
<1>5. ZoneSound(view, wire', world')
  BY <1>1, <1>2, <1>3, ZoneAnswered
<1>6. ASSUME ~Eager, ~Gone(view, wire')
      PROVE  OwnerSound(view, wire', world') /\ RosterSound(view, wire', world') /\ InvitationsSound(view, wire', world')
  <2>1. ~Gone(view, wire)
    BY <1>2, <1>6, GoneAnswered
  <2>2. OwnerSound(view, wire, world) /\ RosterSound(view, wire, world) /\ InvitationsSound(view, wire, world)
    BY <1>6, <2>1 DEF HouseholdInv, HouseholdSound
  <2>3. view.page = "mine" => /\ Household!Me \in DOMAIN world'.roles
                              /\ world'.roles[Household!Me] = world.roles[Household!Me]
    BY <2>2 DEF OwnerSound
  <2>4. OwnerSound(view, wire', world')
    BY <1>2, <1>3, <2>2, <2>3, OwnerAnswered
  <2>5. InvitationsSound(view, wire', world')
    BY <1>2, <1>3, <2>2, InvitationsAnswered
  <2>6. r.arg.mount = view.mount
    <3>1. SUFFICES ASSUME r.arg.mount # view.mount PROVE FALSE
      OBVIOUS
    <3>2. wire[i] \in Requests(wire)
      BY DEF Requests
    <3>3. /\ wire[i].kind = "remove" /\ view.page = "mine" /\ view.household # {}
          /\ Household!Household(view).admin # Household!Me
      BY <1>2, <2>2, <3>1, <3>2 DEF OwnerSound
    <3>4. ~Out(wire, {"transfer"})
      BY <2>2, <3>3 DEF OwnerSound
    <3>5. ~\E q \in Requests(wire) : q.kind = "transfer" /\ q.is = "ok"
      BY <3>4, OutRequests
    <3>6. Household!Household(view).admin = world.admin
      BY <2>2, <3>3, <3>5 DEF OwnerSound
    <3> QED BY <3>3, <3>6 DEF Household!InCharge
  <2>7. Rereading(view, wire')
    BY <1>2, <2>6 DEF Rereading, Becomes
  <2>8. RosterSound(view, wire', world')
    BY <1>2, <2>2, <2>7 DEF RosterSound, Becomes
  <2> QED BY <2>4, <2>5, <2>8
<1> QED BY <1>4, <1>5, <1>6 DEF HouseholdInv, HouseholdSound

(* A transfer: the new owner is an organiser.                              *)
LEMMA HouseholdTransfers ==
  ASSUME HouseholdInv, NEW i \in DOMAIN wire, wire[i].is = "sent", wire[i].kind = "transfer",
         NEW a, wire' = Ok(wire, i, a), view' = view, DOMAIN world' = WorldFields, NEW of,
         of \in DOMAIN world.roles, Household!InCharge,
         a.admin = of, a.zone = world.zone,
         world'.admin = of, world'.roles = [world.roles EXCEPT ![of] = Household!Organiser],
         world'.zone = world.zone, world'.invitations = world.invitations,
         world'.made = world.made, world'.elsewhere = world.elsewhere
  PROVE  HouseholdInv'
<1>1. HouseholdType(view, wire, world) /\ ZoneSound(view, wire, world) /\ IsWire(wire)
  BY DEF HouseholdInv, HouseholdSound, HouseholdType
<1>2. PICK r : /\ r.kind = wire[i].kind /\ r.arg = wire[i].arg /\ r.is = "ok" /\ r.answer = {a}
               /\ Becomes(wire', wire, i, r)
  BY <1>1, OkRequest
<1>3. Data(r) = a /\ Copying(r) /\ r \in Requests(wire')
  <2>0. r.answer = {a}
    BY <1>2
  <2>1. Data(r) = a
    BY <2>0, DataAnswered, ZenonT(60)
  <2>2. Copying(r)
    BY <1>2 DEF Copying, Owned
  <2>3. r \in Requests(wire')
    BY <1>2 DEF Becomes
  <2> QED BY <2>1, <2>2, <2>3
<1>4. HouseholdType(view, wire', world')
  BY <1>1, <1>2, TypeAnswered
<1>5. ZoneSound(view, wire', world')
  BY <1>1, <1>2, <1>3, ZoneAnswered
<1>6. ASSUME ~Eager, ~Gone(view, wire')
      PROVE  OwnerSound(view, wire', world') /\ RosterSound(view, wire', world') /\ InvitationsSound(view, wire', world')
  <2>1. ~Gone(view, wire)
    BY <1>2, <1>6, GoneAnswered
  <2>2. OwnerSound(view, wire, world) /\ RosterSound(view, wire, world) /\ InvitationsSound(view, wire, world)
    BY <1>6, <2>1 DEF HouseholdInv, HouseholdSound
  <2>3. /\ DOMAIN world'.roles = DOMAIN world.roles
        /\ \A m \in DOMAIN world.roles : world'.roles[m] = IF m = of THEN Household!Organiser ELSE world.roles[m]
    OBVIOUS
  <2>4. \A q \in Requests(wire) : Copying(q) => q = wire[i]
    <3>1. One(wire, Owned) /\ wire[i].kind \in Owned
      BY <2>2 DEF OwnerSound, Owned
    <3> QED BY <3>1 DEF One, Requests, Copying
  <2>5. \A q \in Requests(wire') : Copying(q) => q = r
    BY <1>2, <2>4 DEF Becomes, Copying
  <2>6. \A q \in Requests(wire) : q.kind = "transfer" => q.is # "ok"
    BY <2>4 DEF Copying, Owned
  <2>7. /\ \A K : (Out(wire', K) <=> Out(wire, K)) /\ (One(wire, K) => One(wire', K))
        /\ \A q \in Requests(wire') : q = r \/ q \in Requests(wire)
    BY <1>2 DEF Becomes
  <2>8. view.page = "mine" =>
          /\ Household!Me \in DOMAIN world'.roles /\ view.myRole = world'.roles[Household!Me]
          /\ world'.admin = Household!Me => view.myRole = Household!Organiser
    BY <2>2, <2>3 DEF OwnerSound, Household!InCharge
  <2>9. OwnerSound(view, wire', world')
    <3>1. \A q \in Requests(wire') : Copying(q) => Data(q).admin = world'.admin
      BY <1>3, <2>5
    <3>2. \E q \in Requests(wire') : q.kind = "transfer" /\ q.is = "ok"
      BY <1>2, <1>3
    <3>3. \A q \in Requests(wire') :
            q.kind \in {"role", "remove"} \cup Household!Keeping /\ q.arg.mount # view.mount
            => q.kind = "remove" /\ view.page = "mine" /\ view.household # {}
               /\ Household!Household(view).admin # Household!Me
      BY <1>2, <2>2, <2>7 DEF OwnerSound, Household!Keeping
    <3>4. \A q \in Requests(wire') : q.kind = "refresh" => q \in Requests(wire)
      BY <1>2, <2>7
    <3> QED BY <2>2, <2>7, <2>8, <3>1, <3>2, <3>3, <3>4 DEF OwnerSound
  <2>10. Unseen(view, wire, world) = view.promoted /\ Unseen(view, wire', world') = view.promoted \cup {of}
    BY <1>2, <1>3, <2>6 DEF Unseen
  <2>11. \A roster : RosterShows(roster, view, wire, world) => RosterShows(roster, view, wire', world')
    BY <2>3, <2>10 DEF RosterShows
  <2>12. Rereading(view, wire') <=> Rereading(view, wire)
    BY <1>2, <2>7 DEF Rereading, Becomes
  <2>13. RosterSound(view, wire', world')
    BY <1>2, <2>2, <2>7, <2>11, <2>12 DEF RosterSound
  <2>14. InvitationsSound(view, wire', world')
    BY <1>2, <2>2, InvitationsAnswered DEF Household!Keeping
  <2> QED BY <2>9, <2>13, <2>14
<1> QED BY <1>4, <1>5, <1>6 DEF HouseholdInv, HouseholdSound

(* What is restored, left or saved.                                        *)
LEMMA HouseholdSettles ==
  ASSUME HouseholdInv, NEW i \in DOMAIN wire, wire[i].is = "sent", wire[i].kind \in {"restore", "leave", "save"},
         NEW a, wire' = Ok(wire, i, a), view' = view, DOMAIN world' = WorldFields,
         wire[i].kind = "restore" => a.admin = world.admin /\ a.zone = world.zone,
         wire[i].kind # "leave" => world'.roles = world.roles,
         (wire[i].kind = "save" /\ wire[i].arg.of # {}) \/ world'.zone = world.zone,
         world'.admin = world.admin, world'.invitations = world.invitations,
         world'.made = world.made, world'.elsewhere = world.elsewhere
  PROVE  HouseholdInv'
<1>1. HouseholdType(view, wire, world) /\ ZoneSound(view, wire, world) /\ IsWire(wire)
  BY DEF HouseholdInv, HouseholdSound, HouseholdType
<1>2. PICK r : /\ r.kind = wire[i].kind /\ r.arg = wire[i].arg /\ r.is = "ok" /\ r.answer = {a}
               /\ Becomes(wire', wire, i, r)
  BY <1>1, OkRequest
<1>3. Copying(r) => Data(r).zone = world.zone /\ Data(r).admin = world.admin
  BY <1>2, DataAnswered DEF Copying, Owned
<1>4. HouseholdType(view, wire', world')
  BY <1>1, <1>2, TypeAnswered
<1>5. ZoneSound(view, wire', world')
  <2>1. CASE world'.zone = world.zone
    BY <1>1, <1>2, <1>3, <2>1, ZoneAnswered
  <2>2. CASE wire[i].kind = "save" /\ wire[i].arg.of # {}
    <3>1. wire[i] \in Requests(wire)
      BY DEF Requests
    <3>2. view.page \in {"new", "admin_new"} \/ view.picked
      BY <1>1, <2>2, <3>1 DEF ZoneSound, ZoneRests
    <3>3. ZoneRests(view, wire', world')
      BY <3>2 DEF ZoneRests
    <3> QED BY <1>1, <1>2, <3>3 DEF ZoneSound, Becomes
  <2> QED BY <2>1, <2>2
<1>6. ASSUME ~Eager, ~Gone(view, wire')
      PROVE  OwnerSound(view, wire', world') /\ RosterSound(view, wire', world') /\ InvitationsSound(view, wire', world')
  <2>1. ~Gone(view, wire)
    BY <1>2, <1>6, GoneAnswered
  <2>2. OwnerSound(view, wire, world) /\ RosterSound(view, wire, world) /\ InvitationsSound(view, wire, world)
    BY <1>6, <2>1 DEF HouseholdInv, HouseholdSound
  <2>3. wire[i].kind # "leave"
    BY <1>2, <1>6 DEF Gone, Becomes
  <2>4. view.page = "mine" => Household!Me \in DOMAIN world'.roles
    BY <2>2, <2>3 DEF OwnerSound
  <2>5. OwnerSound(view, wire', world')
    BY <1>2, <1>3, <2>2, <2>3, <2>4, OwnerAnswered
  <2>6. RosterSound(view, wire', world')
    BY <1>2, <2>2, <2>3, RosterAnswered
  <2>7. InvitationsSound(view, wire', world')
    BY <1>2, <2>2, InvitationsAnswered DEF Household!Keeping
  <2> QED BY <2>5, <2>6, <2>7
<1> QED BY <1>4, <1>5, <1>6 DEF HouseholdInv, HouseholdSound


-----------------------------------------------------------------------------
(* Lists of invitations                                                    *)

LEMMA FallingPlaces ==
  ASSUME NEW l, Falling(l)
  PROVE  /\ Len(l) \in Nat /\ DOMAIN l = 1..Len(l)
         /\ \A i, j \in DOMAIN l : l[i].id = l[j].id => i = j
<1>1. PICK T : l \in Seq(T)
  BY DEF Falling
<1>2. Len(l) \in Nat /\ DOMAIN l = 1..Len(l)
  BY <1>1
<1>3. ASSUME NEW i \in DOMAIN l, NEW j \in DOMAIN l, l[i].id = l[j].id PROVE i = j
  <2>1. i \in Nat /\ j \in Nat /\ l[i].id \in Nat /\ l[j].id \in Nat
    BY <1>2 DEF Falling
  <2>2. ~(i < j) /\ ~(j < i)
    BY <1>3, <2>1 DEF Falling
  <2> QED BY <2>1, <2>2
<1> QED BY <1>2, <1>3

LEMMA FallingItems ==
  ASSUME NEW l, Falling(l)
  PROVE  /\ \A x, y \in Items(l) : x.id = y.id => x = y
         /\ \A x \in Items(l) : x = Made(x.id, x.status) /\ x.id \in Nat /\ x.status \in {"pending", "revoked"}
         /\ Ids(l) = {x.id : x \in Items(l)}
<1>1. \A x, y \in Items(l) : x.id = y.id => x = y
  BY FallingPlaces DEF Items
<1>2. \A x \in Items(l) : x = Made(x.id, x.status) /\ x.id \in Nat /\ x.status \in {"pending", "revoked"}
  BY DEF Falling, Items, Made
<1>3. Ids(l) = {x.id : x \in Items(l)}
  BY DEF Ids, Items
<1> QED BY <1>1, <1>2, <1>3

LEMMA FallingPrepends ==
  ASSUME NEW l, Falling(l), NEW n \in Nat, \A x \in Items(l) : x.id < n, NEW l2, l2 = <<Made(n, "pending")>> \o l
  PROVE  Falling(l2) /\ Items(l2) = {Made(n, "pending")} \cup Items(l)
<1> DEFINE x == Made(n, "pending")
<1>1. PICK T : l \in Seq(T)
  BY DEF Falling
<1>2. Len(l) \in Nat /\ DOMAIN l = 1..Len(l)
  BY <1>1
<1>3. l \in Seq(T \cup {x}) /\ <<x>> \in Seq(T \cup {x}) /\ Len(<<x>>) = 1 /\ <<x>>[1] = x
  BY <1>1
<1>4. /\ l2 \in Seq(T \cup {x}) /\ Len(l2) = 1 + Len(l)
      /\ \A k \in 1..(1 + Len(l)) : l2[k] = IF k <= 1 THEN <<x>>[k] ELSE l[k - 1]
  BY <1>3, Concatenated
<1>5. DOMAIN l2 = 1..(Len(l) + 1) /\ l2[1] = x /\ \A i \in 1..Len(l) : l2[i + 1] = l[i]
  BY <1>2, <1>3, <1>4
<1>6. x.id = n /\ x.status = "pending" /\ x = [id |-> x.id, status |-> x.status]
  BY DEF Made
<1> HIDE DEF x
<1>7. \A k \in DOMAIN l2 : k = 1 \/ (k - 1 \in 1..Len(l) /\ l2[k] = l[k - 1])
  BY <1>2, <1>5
<1>8. \A k \in DOMAIN l2 : /\ l2[k] = [id |-> l2[k].id, status |-> l2[k].status]
                           /\ l2[k].id \in Nat /\ l2[k].status \in {"pending", "revoked"}
  BY <1>2, <1>5, <1>6, <1>7 DEF Falling
<1>9. \A i \in 1..Len(l) : l[i].id < n /\ l[i].id \in Nat
  BY <1>2 DEF Items, Falling
<1>10. ASSUME NEW i \in DOMAIN l2, NEW j \in DOMAIN l2, i < j PROVE l2[j].id < l2[i].id
  <2>1. j - 1 \in 1..Len(l) /\ l2[j] = l[j - 1]
    BY <1>2, <1>5, <1>7, <1>10
  <2>2. CASE i = 1
    BY <2>1, <2>2, <1>5, <1>6, <1>9
  <2>3. CASE i # 1
    <3>1. i - 1 \in 1..Len(l) /\ l2[i] = l[i - 1] /\ i - 1 < j - 1
      BY <1>2, <1>5, <1>7, <1>10, <2>3
    <3> QED BY <1>2, <2>1, <3>1 DEF Falling
  <2> QED BY <2>2, <2>3
<1>11. Falling(l2)
  BY <1>4, <1>8, <1>10 DEF Falling
<1>12. Items(l2) = {x} \cup Items(l)
  <2>1. ASSUME NEW y \in Items(l2) PROVE y \in {x} \cup Items(l)
    BY <1>2, <1>5, <1>7 DEF Items
  <2>2. ASSUME NEW y \in Items(l) PROVE y \in Items(l2)
    <3>1. PICK i \in 1..Len(l) : y = l[i]
      BY <1>2 DEF Items
    <3>2. i + 1 \in DOMAIN l2 /\ l2[i + 1] = y
      BY <1>2, <1>5, <3>1
    <3> QED BY <3>2 DEF Items
  <2>3. x \in Items(l2)
    BY <1>2, <1>5 DEF Items
  <2> QED BY <2>1, <2>2, <2>3
<1> QED BY <1>11, <1>12 DEF x

LEMMA FallingWith ==
  ASSUME NEW l, Falling(l), NEW u, u = Made(u.id, "revoked"), u.id \in Nat, NEW l2, l2 = Household!With(l, u)
  PROVE  /\ Falling(l2) /\ Ids(l2) = Ids(l)
         /\ Items(l2) = {IF x.id = u.id THEN u ELSE x : x \in Items(l)}
<1>1. PICK T : l \in Seq(T)
  BY DEF Falling
<1>2. Len(l) \in Nat /\ DOMAIN l = 1..Len(l) /\ \A i \in 1..Len(l) : l[i] \in T
  BY <1>1
<1>3. l2 = [i \in 1..Len(l) |-> IF l[i].id = u.id THEN u ELSE l[i]]
  BY <1>2 DEF Household!With
<1>4. l2 \in Seq(T \cup {u})
  BY <1>2, <1>3
<1>5. DOMAIN l2 = DOMAIN l /\ \A i \in DOMAIN l : l2[i] = IF l[i].id = u.id THEN u ELSE l[i]
  BY <1>2, <1>3
<1>6. \A i \in DOMAIN l : l2[i].id = l[i].id
  BY <1>5
<1>7. \A i \in DOMAIN l : /\ l2[i] = [id |-> l2[i].id, status |-> l2[i].status]
                          /\ l2[i].id \in Nat /\ l2[i].status \in {"pending", "revoked"}
  BY <1>5 DEF Falling, Made
<1>8. \A i, j \in DOMAIN l2 : i < j => l2[j].id < l2[i].id
  BY <1>5, <1>6 DEF Falling
<1>9. Falling(l2)
  BY <1>4, <1>5, <1>7, <1>8 DEF Falling
<1>10. Ids(l2) = Ids(l)
  BY <1>5, <1>6 DEF Ids
<1>11. Items(l2) = {IF x.id = u.id THEN u ELSE x : x \in Items(l)}
  BY <1>5 DEF Items
<1> QED BY <1>9, <1>10, <1>11

LEMMA FallingWithout ==
  ASSUME NEW l, Falling(l), NEW id, NEW l2, l2 = Household!Without(l, id)
  PROVE  Falling(l2) /\ Items(l2) = {x \in Items(l) : x.id # id}
<1> DEFINE S == {i \in DOMAIN l : l[i].id # id}
<1>1. PICK T : l \in Seq(T)
  BY DEF Falling
<1>2. l2 = Sift(l, S)
  BY HouseholdSifts DEF Household!Without
<1>3. l2 \in Seq(T) /\ Keeps(l2, l, S)
  BY <1>1, <1>2, SiftKeeps
<1>4. PICK f \in [DOMAIN l2 -> S] :
         /\ \A n \in DOMAIN l2 : l2[n] = l[f[n]]
         /\ \A m, n \in DOMAIN l2 : m < n => f[m] < f[n]
         /\ \A i \in S : \E n \in DOMAIN l2 : f[n] = i
  BY <1>3 DEF Keeps
<1>5. \A n \in DOMAIN l2 : f[n] \in DOMAIN l /\ f[n] \in S
  BY <1>4
<1>6. \A n \in DOMAIN l2 : /\ l2[n] = [id |-> l2[n].id, status |-> l2[n].status]
                           /\ l2[n].id \in Nat /\ l2[n].status \in {"pending", "revoked"}
  BY <1>4, <1>5 DEF Falling
<1>7. \A m, n \in DOMAIN l2 : m < n => l2[n].id < l2[m].id
  BY <1>4, <1>5 DEF Falling
<1>8. Falling(l2)
  BY <1>3, <1>6, <1>7 DEF Falling
<1>9. Items(l2) = {x \in Items(l) : x.id # id}
  <2>1. ASSUME NEW x \in Items(l2) PROVE x \in Items(l) /\ x.id # id
    BY <1>4, <1>5 DEF Items
  <2>2. ASSUME NEW x \in Items(l), x.id # id PROVE x \in Items(l2)
    <3>1. PICK i \in DOMAIN l : x = l[i]
      BY <2>2 DEF Items
    <3>2. i \in S
      BY <2>2, <3>1
    <3>3. PICK n \in DOMAIN l2 : f[n] = i
      BY <1>4, <3>2
    <3> QED BY <1>4, <3>1, <3>3 DEF Items
  <2> QED BY <2>1, <2>2
<1> QED BY <1>8, <1>9

(* Lists with the same invitations are the same.                           *)
LEMMA FallingSame ==
  ASSUME NEW l, NEW m, Falling(l), Falling(m), Items(l) = Items(m)
  PROVE  l = m
<1>1. /\ Len(l) \in Nat /\ DOMAIN l = 1..Len(l) /\ Len(m) \in Nat /\ DOMAIN m = 1..Len(m)
  BY FallingPlaces
<1>2. \A n \in Nat \ {0} : n \in DOMAIN l \/ n \in DOMAIN m => n \in DOMAIN l /\ n \in DOMAIN m /\ l[n] = m[n]
  <2> DEFINE Same(n) == n \in DOMAIN l \/ n \in DOMAIN m => n \in DOMAIN l /\ n \in DOMAIN m /\ l[n] = m[n]
             A == {n \in Nat \ {0} : ~Same(n)}
  <2>1. SUFFICES ASSUME A # {} PROVE FALSE
    OBVIOUS
  <2>2. PICK n \in A : \A k \in A : ~(<<k, n>> \in OpToRel(<, Nat))
    <3>1. IsWellFoundedOn(OpToRel(<, Nat), Nat)
      BY NatLessThanWellFounded
    <3>2. A \subseteq Nat
      OBVIOUS
    <3> HIDE DEF A
    <3> QED BY <2>1, <3>1, <3>2, WFMin
  <2>3. \A k \in Nat \ {0} : k < n => Same(k)
    <3>1. SUFFICES ASSUME NEW k \in A, k < n PROVE FALSE
      OBVIOUS
    <3>2. <<k, n>> \in Nat \X Nat /\ n \in Nat /\ k \in Nat
      OBVIOUS
    <3>3. <<k, n>> \in OpToRel(<, Nat)
      BY <3>1, <3>2 DEF OpToRel
    <3> QED BY <2>2, <3>3
  <2>4. \A k \in 1..(n - 1) : k \in DOMAIN l /\ k \in DOMAIN m => l[k] = m[k]
    BY <2>3
  <2>5. ASSUME NEW p, NEW q, Falling(p), Falling(q), Items(p) = Items(q), n \in DOMAIN p,
               DOMAIN p = 1..Len(p), DOMAIN q = 1..Len(q), Len(p) \in Nat, Len(q) \in Nat,
               \A k \in 1..(n - 1) : k \in DOMAIN p /\ k \in DOMAIN q /\ p[k] = q[k]
        PROVE  n \in DOMAIN q /\ p[n].id <= q[n].id
    <3>1. PICK j \in DOMAIN q : q[j] = p[n]
      BY <2>5 DEF Items
    <3>2. ~(j < n)
      <4>1. SUFFICES ASSUME j < n PROVE FALSE
        OBVIOUS
      <4>2. j \in 1..(n - 1)
        BY <2>5, <4>1
      <4>3. p[j] = p[n] /\ j \in DOMAIN p
        BY <2>5, <3>1, <4>2
      <4> QED BY <2>5, <4>1, <4>3, FallingPlaces
    <3>3. n \in DOMAIN q
      BY <2>5, <3>1, <3>2
    <3>4. p[n].id \in Nat /\ q[n].id \in Nat /\ (n < j => q[j].id < q[n].id)
      BY <2>5, <3>1, <3>3 DEF Falling
    <3>5. n = j \/ n < j
      BY <2>5, <3>2
    <3> QED BY <3>1, <3>3, <3>4, <3>5
  <2>6. ~Same(n) /\ n \in Nat \ {0}
    OBVIOUS
  <2> HIDE DEF A
  <2>7. \A k \in 1..(n - 1) : k \in DOMAIN l /\ k \in DOMAIN m /\ l[k] = m[k]
    <3>1. n \in DOMAIN l \/ n \in DOMAIN m
      BY <2>6
    <3>2. \A k \in 1..(n - 1) : k \in DOMAIN l \/ k \in DOMAIN m
      BY <1>1, <2>6, <3>1
    <3> QED BY <2>3, <2>6, <3>2
  <2>8. n \in DOMAIN l => n \in DOMAIN m /\ l[n].id <= m[n].id
    BY <1>1, <2>5, <2>7
  <2>9. n \in DOMAIN m => n \in DOMAIN l /\ m[n].id <= l[n].id
    BY <1>1, <2>5, <2>7
  <2>10. n \in DOMAIN l /\ n \in DOMAIN m
    BY <2>6, <2>8, <2>9
  <2>11. l[n].id \in Nat /\ m[n].id \in Nat
    BY <2>10 DEF Falling
  <2>12. l[n].id = m[n].id
    BY <2>8, <2>9, <2>10, <2>11
  <2>13. l[n] \in Items(l) /\ m[n] \in Items(l)
    BY <2>10 DEF Items
  <2>14. l[n] = m[n]
    BY <2>12, <2>13, FallingItems
  <2> QED BY <2>6, <2>10, <2>14
<1>3. \A n \in DOMAIN l : n \in DOMAIN m /\ l[n] = m[n]
  BY <1>1, <1>2
<1>4. \A n \in DOMAIN m : n \in DOMAIN l
  BY <1>1, <1>2
<1>5. DOMAIN l = DOMAIN m
  BY <1>3, <1>4
<1>6. PICK T : l \in Seq(T)
  BY DEF Falling
<1>7. PICK U : m \in Seq(U)
  BY DEF Falling
<1>8. l = [n \in DOMAIN l |-> l[n]] /\ m = [n \in DOMAIN m |-> m[n]]
  BY <1>6, <1>7
<1> QED BY <1>3, <1>5, <1>8


-----------------------------------------------------------------------------
(* The API changes something                                               *)

LEMMA WorldFieldsKept ==
  ASSUME NEW d, DOMAIN d = WorldFields
  PROVE  /\ \A x, y : LET e == [d EXCEPT !.roles[x] = y] IN
              /\ DOMAIN e = WorldFields /\ e.roles = [d.roles EXCEPT ![x] = y] /\ e.admin = d.admin
              /\ e.zone = d.zone /\ e.invitations = d.invitations /\ e.made = d.made /\ e.elsewhere = d.elsewhere
         /\ \A x : LET e == [d EXCEPT !.roles = x] IN
              /\ DOMAIN e = WorldFields /\ e.roles = x /\ e.admin = d.admin
              /\ e.zone = d.zone /\ e.invitations = d.invitations /\ e.made = d.made /\ e.elsewhere = d.elsewhere
         /\ \A x, y : LET e == [d EXCEPT !.admin = x, !.roles[x] = y] IN
              /\ DOMAIN e = WorldFields /\ e.roles = [d.roles EXCEPT ![x] = y] /\ e.admin = x
              /\ e.zone = d.zone /\ e.invitations = d.invitations /\ e.made = d.made /\ e.elsewhere = d.elsewhere
         /\ \A x : LET e == [d EXCEPT !.deleted = x] IN
              /\ DOMAIN e = WorldFields /\ e.roles = d.roles /\ e.admin = d.admin
              /\ e.zone = d.zone /\ e.invitations = d.invitations /\ e.made = d.made /\ e.elsewhere = d.elsewhere
         /\ \A x : LET e == [d EXCEPT !.zone = x] IN
              /\ DOMAIN e = WorldFields /\ e.roles = d.roles /\ e.admin = d.admin
              /\ e.zone = x /\ e.invitations = d.invitations /\ e.made = d.made /\ e.elsewhere = d.elsewhere
         /\ \A x : LET e == [d EXCEPT !.invitations = x] IN
              /\ DOMAIN e = WorldFields /\ e.roles = d.roles /\ e.admin = d.admin
              /\ e.zone = d.zone /\ e.invitations = x /\ e.made = d.made /\ e.elsewhere = d.elsewhere
         /\ \A x, y : LET e == [d EXCEPT !.made = x, !.invitations = y] IN
              /\ DOMAIN e = WorldFields /\ e.roles = d.roles /\ e.admin = d.admin
              /\ e.zone = d.zone /\ e.invitations = y /\ e.made = x /\ e.elsewhere = d.elsewhere
BY DEF WorldFields

LEMMA HouseholdServesChange ==
  ASSUME HouseholdInv, NEW i \in DOMAIN wire, Household!ServeChange(i)
  PROVE  HouseholdInv'
<1> DEFINE r == wire[i]
           of == wire[i].arg.of
<1>1. r.is = "sent" /\ view' = view
  BY HouseholdWire DEF Household!ServeChange, Waiting
<1>2. DOMAIN world = WorldFields
  BY DEF HouseholdInv, HouseholdSound, HouseholdType
<1>3. ASSUME world' = world, wire' = Settle(wire, i, "refused") PROVE HouseholdInv'
  BY <1>1, <1>3, HouseholdUnserved
<1>4. CASE r.kind = "role"
  <2>1. Household!Does(i, Household!MayAssign(of[1], of[2]), [world EXCEPT !.roles[of[1]] = of[2]], TRUE)
    BY <1>4 DEF Household!ServeChange
  <2>2. CASE Household!MayAssign(of[1], of[2])
    <3>1. PICK x, y : x = of[1] /\ y = of[2]
      OBVIOUS
    <3>2. wire' = Ok(wire, i, TRUE) /\ world' = [world EXCEPT !.roles[x] = y]
      BY <2>1, <2>2, <3>1, HouseholdWire DEF Household!Does
    <3>3. /\ DOMAIN world' = WorldFields /\ world'.roles = [world.roles EXCEPT ![x] = y] /\ world'.admin = world.admin
          /\ world'.zone = world.zone /\ world'.invitations = world.invitations /\ world'.made = world.made
          /\ world'.elsewhere = world.elsewhere
      BY <1>2, <3>2, WorldFieldsKept
    <3>4. Household!MayAssign(x, y)
      BY <2>2, <3>1
    <3>5. view.page = "mine" /\ Household!Me \in DOMAIN world.roles /\
          (world.admin = Household!Me => world.roles[Household!Me] = Household!Organiser) => x # Household!Me
      BY <3>4 DEF Household!MayAssign, Household!InCharge
    <3>6. view.page = "mine" /\ Household!Me \in DOMAIN world.roles /\
          (world.admin = Household!Me => world.roles[Household!Me] = Household!Organiser) =>
          Household!Me \in DOMAIN world'.roles /\ world'.roles[Household!Me] = world.roles[Household!Me]
      BY <3>3, <3>5
    <3>7. r.kind \in {"role", "remove"} /\ r.kind # "remove"
      BY <1>4
    <3> QED BY <1>1, <3>2, <3>3, <3>6, <3>7, HouseholdChangesRoles
  <2>3. CASE ~Household!MayAssign(of[1], of[2])
    BY <1>3, <2>1, <2>3, HouseholdWire DEF Household!Does
  <2> QED BY <2>2, <2>3
<1>5. CASE r.kind = "remove"
  <2>1. Household!Does(i, Household!MayRemove(of),
                       [world EXCEPT !.roles = [m \in DOMAIN world.roles \ {of} |-> world.roles[m]]], TRUE)
    BY <1>5 DEF Household!ServeChange
  <2>2. CASE Household!MayRemove(of)
    <3>1. PICK roles : roles = [m \in DOMAIN world.roles \ {of} |-> world.roles[m]]
      OBVIOUS
    <3>2. wire' = Ok(wire, i, TRUE) /\ world' = [world EXCEPT !.roles = roles]
      BY <2>1, <2>2, <3>1, HouseholdWire DEF Household!Does
    <3>3. /\ DOMAIN world' = WorldFields /\ world'.roles = roles /\ world'.admin = world.admin
          /\ world'.zone = world.zone /\ world'.invitations = world.invitations /\ world'.made = world.made
          /\ world'.elsewhere = world.elsewhere
      BY <1>2, <3>2, WorldFieldsKept
    <3>4. Household!InCharge /\ (view.page = "mine" => of # Household!Me)
      BY <2>2 DEF Household!MayRemove, Household!InCharge
    <3>5. view.page = "mine" /\ Household!Me \in DOMAIN world.roles =>
          Household!Me \in DOMAIN world'.roles /\ world'.roles[Household!Me] = world.roles[Household!Me]
      BY <3>1, <3>3, <3>4
    <3>6. r.kind \in {"role", "remove"}
      BY <1>5
    <3> QED BY <1>1, <3>2, <3>3, <3>4, <3>5, <3>6, HouseholdChangesRoles
  <2>3. CASE ~Household!MayRemove(of)
    BY <1>3, <2>1, <2>3, HouseholdWire DEF Household!Does
  <2> QED BY <2>2, <2>3
<1>6. CASE r.kind = "transfer"
  <2>1. Household!Does(i, Household!InCharge /\ Household!Member(of),
                       [world EXCEPT !.admin = of, !.roles[of] = Household!Organiser],
                       [Household!Copy EXCEPT !.admin = of])
    BY <1>6 DEF Household!ServeChange
  <2>2. CASE Household!InCharge /\ Household!Member(of)
    <3>1. PICK x, a : x = of /\ a = [Household!Copy EXCEPT !.admin = of]
      OBVIOUS
    <3>2. wire' = Ok(wire, i, a) /\ world' = [world EXCEPT !.admin = x, !.roles[x] = Household!Organiser]
      BY <2>1, <2>2, <3>1, HouseholdWire DEF Household!Does
    <3>3. /\ DOMAIN world' = WorldFields /\ world'.roles = [world.roles EXCEPT ![x] = Household!Organiser]
          /\ world'.admin = x /\ world'.zone = world.zone /\ world'.invitations = world.invitations
          /\ world'.made = world.made /\ world'.elsewhere = world.elsewhere
      BY <1>2, <3>2, WorldFieldsKept
    <3>4. a.admin = x /\ a.zone = world.zone
      BY <3>1 DEF Household!Copy
    <3>5. x \in DOMAIN world.roles /\ Household!InCharge
      BY <2>2, <3>1 DEF Household!Member
    <3> HIDE DEF of
    <3> QED BY <1>1, <1>6, <3>2, <3>3, <3>4, <3>5, HouseholdTransfers
  <2>3. CASE ~(Household!InCharge /\ Household!Member(of))
    BY <1>3, <2>1, <2>3, HouseholdWire DEF Household!Does
  <2> QED BY <2>2, <2>3
<1>7. CASE r.kind = "restore"
  <2>1. Household!Does(i, TRUE, [world EXCEPT !.deleted = FALSE], [Household!Copy EXCEPT !.deleted = FALSE])
    BY <1>7 DEF Household!ServeChange
  <2>2. PICK a : a = [Household!Copy EXCEPT !.deleted = FALSE]
    OBVIOUS
  <2>3. wire' = Ok(wire, i, a) /\ world' = [world EXCEPT !.deleted = FALSE]
    BY <2>1, <2>2, HouseholdWire DEF Household!Does
  <2>4. /\ DOMAIN world' = WorldFields /\ world'.roles = world.roles
        /\ world'.admin = world.admin /\ world'.zone = world.zone /\ world'.invitations = world.invitations
        /\ world'.made = world.made /\ world'.elsewhere = world.elsewhere
    BY <1>2, <2>3, WorldFieldsKept
  <2>5. a.admin = world.admin /\ a.zone = world.zone
    BY <2>2 DEF Household!Copy
  <2>6. r.kind \in {"restore", "leave", "save"}
    BY <1>7
  <2> QED BY <1>1, <2>3, <2>4, <2>5, <2>6, HouseholdSettles
<1>8. CASE r.kind = "leave"
  <2>1. Household!Does(i, Household!Member(Household!Me) /\ world.admin # Household!Me,
                       [world EXCEPT !.roles = [m \in DOMAIN world.roles \ {Household!Me} |-> world.roles[m]]], TRUE)
    BY <1>8 DEF Household!ServeChange
  <2>2. CASE Household!Member(Household!Me) /\ world.admin # Household!Me
    <3>1. PICK roles : roles = [m \in DOMAIN world.roles \ {Household!Me} |-> world.roles[m]]
      OBVIOUS
    <3>2. wire' = Ok(wire, i, TRUE) /\ world' = [world EXCEPT !.roles = roles]
      BY <2>1, <2>2, <3>1, HouseholdWire DEF Household!Does
    <3>3. /\ DOMAIN world' = WorldFields /\ world'.admin = world.admin
          /\ world'.zone = world.zone /\ world'.invitations = world.invitations /\ world'.made = world.made
          /\ world'.elsewhere = world.elsewhere
      BY <1>2, <3>2, WorldFieldsKept
    <3>4. r.kind \in {"restore", "leave", "save"} /\ r.kind # "restore"
      BY <1>8
    <3> QED BY <1>1, <1>8, <3>2, <3>3, <3>4, HouseholdSettles
  <2>3. CASE ~(Household!Member(Household!Me) /\ world.admin # Household!Me)
    BY <1>3, <2>1, <2>3, HouseholdWire DEF Household!Does
  <2> QED BY <2>2, <2>3
<1>9. CASE r.kind = "save"
  <2>1. CASE of = {Household!Legacy}
    <3>1. world' = world /\ wire' = Settle(wire, i, "invalid")
      BY <1>9, <2>1, HouseholdWire DEF Household!ServeChange
    <3>2. wire[i] \in Requests(wire)
      BY DEF Requests
    <3>3. view.picked
      BY <1>9, <2>1, <3>2 DEF HouseholdInv, HouseholdSound, ZoneSound
    <3> QED BY <1>1, <1>9, <3>1, <3>3, HouseholdUnserved
  <2>2. CASE of # {Household!Legacy}
    <3>1. PICK allowed, d : /\ d = IF of = {} THEN world ELSE [world EXCEPT !.zone = CHOOSE z \in of : TRUE]
                            /\ Household!Does(i, allowed, d, TRUE)
      BY <1>9, <2>2 DEF Household!ServeChange
    <3>2. CASE world' = d /\ wire' = Ok(wire, i, TRUE)
      <4>1. PICK zone : zone = CHOOSE z \in of : TRUE
        OBVIOUS
      <4>2. /\ DOMAIN world' = WorldFields /\ world'.roles = world.roles
            /\ world'.admin = world.admin /\ world'.invitations = world.invitations
            /\ world'.made = world.made /\ world'.elsewhere = world.elsewhere
            /\ of # {} \/ world'.zone = world.zone
        <5>1. CASE of = {}
          BY <1>2, <3>1, <3>2, <5>1
        <5>2. CASE of # {}
          <6>1. world' = [world EXCEPT !.zone = zone]
            BY <3>1, <3>2, <4>1, <5>2
          <6> QED BY <1>2, <5>2, <6>1, WorldFieldsKept
        <5> QED BY <5>1, <5>2
      <4>3. r.kind \in {"restore", "leave", "save"} /\ r.kind # "restore"
        BY <1>9
      <4> QED BY <1>1, <1>9, <3>2, <4>2, <4>3, HouseholdSettles
    <3>3. CASE world' = world /\ wire' = Settle(wire, i, "refused")
      BY <1>3, <3>3
    <3> QED BY <3>1, <3>2, <3>3, HouseholdWire DEF Household!Does
  <2> QED BY <2>1, <2>2
<1> QED BY <1>4, <1>5, <1>6, <1>7, <1>8, <1>9 DEF Household!ServeChange

LEMMA HouseholdLoses ==
  ASSUME HouseholdInv, NEW i \in DOMAIN wire, Household!Lose(i)
  PROVE  HouseholdInv'
<1>1. wire[i].is = "sent" /\ wire' = Settle(wire, i, "lost") /\ view' = view /\ world' = world
  BY HouseholdWire DEF Household!Lose
<1> QED BY <1>1, HouseholdUnserved

-----------------------------------------------------------------------------
(* The API changes the list of invitations, and the page follows           *)

LEMMA OneAnswered ==
  ASSUME NEW w, NEW i \in DOMAIN w, NEW k, One(w, {k}), w[i].kind = k, w[i].is = "sent"
  PROVE  Answered(w, k) = {}
BY DEF One, Answered, Requests

LEMMA ItemsIds == ASSUME NEW l PROVE Ids(l) = {x.id : x \in Items(l)}
BY DEF Ids, Items

LEMMA MadeFields ==
  ASSUME NEW id, NEW s
  PROVE  Made(id, s).id = id /\ Made(id, s).status = s
BY DEF Made

LEMMA ListFollowsInvited ==
  ASSUME NEW v, NEW w, NEW d, NEW w2, NEW d2, NEW i \in DOMAIN w, NEW r, ListFollows(v, w, d), Falling(d.invitations),
         d.made \in Nat, \A y \in Items(d.invitations) : y.id <= d.made, One(w, {"invite"}),
         Becomes(w2, w, i, r), w[i].kind = "invite", w[i].is = "sent", r.kind = "invite", r.is = "ok",
         Data(r) = Made(d.made + 1, "pending"), d2.made = d.made + 1,
         d2.invitations = <<Made(d.made + 1, "pending")>> \o d.invitations
  PROVE  /\ ListFollows(v, w2, d2) /\ Falling(d2.invitations)
         /\ d2.made \in Nat /\ \A y \in Items(d2.invitations) : y.id <= d2.made
<1> DEFINE new == Made(d.made + 1, "pending")
<1>0. new.id = d.made + 1 /\ new.status = "pending" /\ new = Made(d2.made, "pending")
  BY MadeFields
<1>1. \A x \in Items(d.invitations) : x.id \in Nat /\ x.id < d.made + 1
  BY FallingItems
<1>2. Falling(d2.invitations) /\ Items(d2.invitations) = {new} \cup Items(d.invitations)
  <2>1. PICK n \in Nat : n = d.made + 1
    OBVIOUS
  <2>2. d2.invitations = <<Made(n, "pending")>> \o d.invitations /\ \A x \in Items(d.invitations) : x.id < n
    BY <1>1, <2>1
  <2>3. Falling(d2.invitations) /\ Items(d2.invitations) = {Made(n, "pending")} \cup Items(d.invitations)
    BY <2>2, FallingPrepends
  <2> QED BY <2>1, <2>3
<1>3. d2.made \in Nat /\ \A y \in Items(d2.invitations) : y.id <= d2.made
  BY <1>0, <1>1, <1>2
<1>4. Answered(w, "invite") = {}
  BY OneAnswered
<1>5. /\ Answered(w2, "invite") = {r} /\ Answered(w2, "revoke") = Answered(w, "revoke")
      /\ Answered(w2, "discard") = Answered(w, "discard")
  BY <1>4 DEF Answered, Becomes
<1>6. Known(w, d) = d.made /\ Known(w2, d2) = d.made
  <2>1. Answered(w2, "invite") # {}
    BY <1>5
  <2>2. PICK n \in Nat : n = d.made
    OBVIOUS
  <2>3. d2.made = n + 1
    BY <2>2
  <2>4. (n + 1) - 1 = n
    OBVIOUS
  <2> QED BY <1>4, <2>1, <2>2, <2>3, <2>4 DEF Known
<1>7. \A r2 \in Requests(w2) : r2.kind \in {"revoke", "discard"} => r2 \in Requests(w)
  BY DEF Becomes
<1>8. \A id \in Nat : id <= d.made => /\ id \in Ids(d2.invitations) <=> id \in Ids(d.invitations)
                                     /\ \A s : Made(id, s) \in Items(d2.invitations) <=> Made(id, s) \in Items(d.invitations)
  BY <1>0, <1>2, ItemsIds, MadeFields
<1>9. \A x \in Items(v.invitations) : x.id \in Nat /\ x.id <= d.made
  BY <1>6, FallingItems DEF ListFollows
<1> HIDE DEF new
<1>10. \A x \in Items(v.invitations) :
       /\ x.id <= Known(w2, d2)
       /\ x.status = "pending" =>
            x \in Items(d2.invitations) \/ (Made(x.id, "revoked") \in Items(d2.invitations)
                                           /\ \E q \in Answered(w2, "revoke") : q.arg.of = x.id)
       /\ x.status = "revoked" =>
            x \in Items(d2.invitations) \/ (x.id \notin Ids(d2.invitations)
                                           /\ \E q \in Answered(w2, "discard") : q.arg.of = x.id)
  BY <1>2, <1>5, <1>6, <1>8, <1>9 DEF ListFollows
<1>11. \A y \in Items(d2.invitations) :
         y.id \in Ids(v.invitations) \/ (Answered(w2, "invite") # {} /\ y.id = d2.made)
  BY <1>0, <1>2, <1>4, <1>5 DEF ListFollows
<1>12. /\ \A q \in Answered(w2, "invite") : /\ Data(q) = Made(d2.made, "pending")
                                            /\ Data(q) \in Items(d2.invitations)
  BY <1>0, <1>2, <1>5
<1>13. \A q \in Requests(w) : q.kind \in {"revoke", "discard"} => q.arg.of \in Nat /\ q.arg.of <= d.made
  BY <1>6 DEF ListFollows
<1>14. \A q \in Answered(w, "revoke") \cup Answered(w, "discard") : q.arg.of \in Nat /\ q.arg.of <= d.made
  BY <1>13 DEF Answered
<1>15. /\ \A q \in Answered(w2, "revoke") : /\ Data(q) = Made(q.arg.of, "revoked")
                                            /\ Made(q.arg.of, "pending") \notin Items(d2.invitations)
       /\ \A q \in Answered(w2, "discard") : q.arg.of \notin Ids(d2.invitations)
  BY <1>5, <1>8, <1>14 DEF ListFollows
<1>16. Falling(v.invitations) /\
       \A q \in Requests(w2) : q.kind = "discard" => Made(q.arg.of, "pending") \notin Items(v.invitations)
  BY <1>7 DEF ListFollows
<1>17. ListFollows(v, w2, d2)
  BY <1>6, <1>7, <1>10, <1>11, <1>12, <1>13, <1>15, <1>16 DEF ListFollows
<1> QED BY <1>2, <1>3, <1>17

LEMMA ListFollowsRevoked ==
  ASSUME NEW v, NEW w, NEW d, NEW w2, NEW d2, NEW i \in DOMAIN w, NEW r, NEW of,
         ListFollows(v, w, d), Falling(d.invitations),
         d.made \in Nat, \A y \in Items(d.invitations) : y.id <= d.made,
         Becomes(w2, w, i, r), w[i].kind = "revoke", w[i].is = "sent", r.kind = "revoke", r.is = "ok",
         r.arg = w[i].arg, of = w[i].arg.of,
         Data(r) = Made(of, "revoked"), d2.made = d.made, Made(of, "pending") \in Items(d.invitations),
         d2.invitations = Household!With(d.invitations, Made(of, "revoked"))
  PROVE  /\ ListFollows(v, w2, d2) /\ Falling(d2.invitations)
         /\ d2.made \in Nat /\ \A y \in Items(d2.invitations) : y.id <= d2.made
<1>0. PICK u : u = Made(of, "revoked") /\ u.id = of /\ u.status = "revoked"
  BY MadeFields
<1>1. of \in Nat /\ of \in Ids(d.invitations)
  BY FallingItems, ItemsIds, MadeFields
<1>2. /\ Falling(d2.invitations) /\ Ids(d2.invitations) = Ids(d.invitations)
      /\ Items(d2.invitations) = {IF x.id = u.id THEN u ELSE x : x \in Items(d.invitations)}
  BY <1>0, <1>1, FallingWith
<1>3. \A y \in Items(d2.invitations) : y.id <= d2.made
  BY <1>0, <1>2
<1>4. /\ Answered(w2, "invite") = Answered(w, "invite") /\ Answered(w2, "revoke") = Answered(w, "revoke") \cup {r}
      /\ Answered(w2, "discard") = Answered(w, "discard")
  BY DEF Answered, Becomes
<1>5. Known(w2, d2) = Known(w, d)
  BY <1>4 DEF Known
<1>6. w[i] \in Requests(w) /\ \A q \in Requests(w2) : q = r \/ q \in Requests(w)
  BY DEF Becomes
<1>7. \A q \in Requests(w2) : q.kind = "discard" => q \in Requests(w)
  BY <1>6
<1>8. /\ \A x \in Items(d.invitations) : x.id # of => x \in Items(d2.invitations)
      /\ Made(of, "revoked") \in Items(d2.invitations)
      /\ \A x \in Items(d2.invitations) : x.status = "pending" => x \in Items(d.invitations) /\ x.id # of
  BY <1>0, <1>1, <1>2, MadeFields
<1>9. \A x \in Items(d.invitations) : x.id = of => x = Made(of, "pending")
  BY FallingItems, MadeFields
<1>10. \A id : Made(id, "revoked") \in Items(d.invitations) => Made(id, "revoked") \in Items(d2.invitations)
  BY <1>8, <1>9, MadeFields
<1>11. \A x \in Items(v.invitations) :
       /\ x.id <= Known(w2, d2)
       /\ x.status = "pending" =>
            x \in Items(d2.invitations) \/ (Made(x.id, "revoked") \in Items(d2.invitations)
                                           /\ \E q \in Answered(w2, "revoke") : q.arg.of = x.id)
       /\ x.status = "revoked" =>
            x \in Items(d2.invitations) \/ (x.id \notin Ids(d2.invitations)
                                           /\ \E q \in Answered(w2, "discard") : q.arg.of = x.id)
  <2> TAKE x \in Items(v.invitations)
  <2>1. x.id <= Known(w2, d2)
    BY <1>5 DEF ListFollows
  <2>2. ASSUME x.status = "pending"
        PROVE  x \in Items(d2.invitations) \/ (Made(x.id, "revoked") \in Items(d2.invitations)
                                           /\ \E q \in Answered(w2, "revoke") : q.arg.of = x.id)
    <3>1. CASE x \in Items(d.invitations) /\ x.id = of
      BY <3>1, <1>4, <1>8
    <3>2. CASE x \in Items(d.invitations) /\ x.id # of
      BY <3>2, <1>8
    <3>3. CASE x \notin Items(d.invitations)
      BY <3>3, <2>2, <1>4, <1>10 DEF ListFollows
    <3> QED BY <3>1, <3>2, <3>3
  <2>3. ASSUME x.status = "revoked"
        PROVE  x \in Items(d2.invitations) \/ (x.id \notin Ids(d2.invitations)
                                           /\ \E q \in Answered(w2, "discard") : q.arg.of = x.id)
    <3>1. CASE x \in Items(d.invitations)
      BY <3>1, <2>3, <1>8, <1>9, MadeFields
    <3>2. CASE x \notin Items(d.invitations)
      BY <3>2, <2>3, <1>2, <1>4 DEF ListFollows
    <3> QED BY <3>1, <3>2
  <2> QED BY <2>1, <2>2, <2>3
<1>12. \A y \in Items(d2.invitations) :
         y.id \in Ids(v.invitations) \/ (Answered(w2, "invite") # {} /\ y.id = d2.made)
  <2>1. \A y \in Items(d2.invitations) : \E z \in Items(d.invitations) : z.id = y.id
    BY <1>0, <1>2
  <2> QED BY <2>1, <1>4 DEF ListFollows
<1>13. \A q \in Answered(w2, "invite") : /\ Data(q) = Made(d2.made, "pending")
                                         /\ Data(q) \in Items(d2.invitations)
  <2> SUFFICES ASSUME NEW q \in Answered(w, "invite")
               PROVE  Data(q) = Made(d.made, "pending") /\ Data(q) \in Items(d2.invitations)
    BY <1>4
  <2>1. Data(q) = Made(d.made, "pending") /\ Data(q) \in Items(d.invitations)
    BY DEF ListFollows
  <2>2. of <= Known(w, d) /\ Known(w, d) = d.made - 1
    BY <1>6 DEF ListFollows, Known
  <2>3. of # d.made
    BY <2>2, <1>1
  <2> QED BY <2>1, <2>3, <1>8, MadeFields
<1>14. \A q \in Answered(w2, "revoke") : /\ Data(q) = Made(q.arg.of, "revoked")
                                         /\ Made(q.arg.of, "pending") \notin Items(d2.invitations)
  <2> SUFFICES ASSUME NEW q \in Answered(w, "revoke") \cup {r}
               PROVE  /\ Data(q) = Made(q.arg.of, "revoked")
                      /\ Made(q.arg.of, "pending") \notin Items(d2.invitations)
    BY <1>4
  <2>1. CASE q = r
    BY <2>1, <1>8, MadeFields
  <2>2. CASE q \in Answered(w, "revoke")
    BY <2>2, <1>8, MadeFields DEF ListFollows
  <2> QED BY <2>1, <2>2
<1>15. \A q \in Answered(w2, "discard") : q.arg.of \notin Ids(d2.invitations)
  BY <1>2, <1>4 DEF ListFollows
<1>16. Falling(v.invitations) /\
       \A q \in Requests(w2) : q.kind = "discard" => Made(q.arg.of, "pending") \notin Items(v.invitations)
  BY <1>7 DEF ListFollows
<1>17. \A q \in Requests(w2) : q.kind \in {"revoke", "discard"} => q.arg.of \in Nat /\ q.arg.of <= Known(w2, d2)
  BY <1>5, <1>6 DEF ListFollows
<1>18. ListFollows(v, w2, d2)
  BY <1>11, <1>12, <1>13, <1>14, <1>15, <1>16, <1>17 DEF ListFollows
<1> QED BY <1>2, <1>3, <1>18

LEMMA ListFollowsDiscarded ==
  ASSUME NEW v, NEW w, NEW d, NEW w2, NEW d2, NEW i \in DOMAIN w, NEW r, NEW of,
         ListFollows(v, w, d), Falling(d.invitations),
         d.made \in Nat, \A y \in Items(d.invitations) : y.id <= d.made,
         Becomes(w2, w, i, r), w[i].kind = "discard", w[i].is = "sent", r.kind = "discard", r.is = "ok",
         r.arg = w[i].arg, of = w[i].arg.of,
         d2.made = d.made, Made(of, "revoked") \in Items(d.invitations),
         d2.invitations = Household!Without(d.invitations, of)
  PROVE  /\ ListFollows(v, w2, d2) /\ Falling(d2.invitations)
         /\ d2.made \in Nat /\ \A y \in Items(d2.invitations) : y.id <= d2.made
<1>2. /\ Falling(d2.invitations)
      /\ Items(d2.invitations) = {x \in Items(d.invitations) : x.id # of}
  BY FallingWithout
<1>3. \A y \in Items(d2.invitations) : y.id <= d2.made
  BY <1>2
<1>4. /\ Answered(w2, "invite") = Answered(w, "invite") /\ Answered(w2, "discard") = Answered(w, "discard") \cup {r}
      /\ Answered(w2, "revoke") = Answered(w, "revoke")
  BY DEF Answered, Becomes
<1>5. Known(w2, d2) = Known(w, d)
  BY <1>4 DEF Known
<1>6. w[i] \in Requests(w) /\ \A q \in Requests(w2) : q = r \/ q \in Requests(w)
  BY DEF Becomes
<1>7. of \notin Ids(d2.invitations) /\ Ids(d2.invitations) \subseteq Ids(d.invitations)
  BY <1>2, ItemsIds
<1>8. of \in Nat
  BY FallingItems, MadeFields
<1>9. \A x \in Items(d.invitations) : x.id = of => x = Made(of, "revoked")
  BY FallingItems, MadeFields
<1>11. \A x \in Items(v.invitations) :
       /\ x.id <= Known(w2, d2)
       /\ x.status = "pending" =>
            x \in Items(d2.invitations) \/ (Made(x.id, "revoked") \in Items(d2.invitations)
                                           /\ \E q \in Answered(w2, "revoke") : q.arg.of = x.id)
       /\ x.status = "revoked" =>
            x \in Items(d2.invitations) \/ (x.id \notin Ids(d2.invitations)
                                           /\ \E q \in Answered(w2, "discard") : q.arg.of = x.id)
  <2> TAKE x \in Items(v.invitations)
  <2>1. x.id <= Known(w2, d2) /\ x = Made(x.id, x.status)
    BY <1>5, FallingItems DEF ListFollows
  <2>2. ASSUME x.status = "pending"
        PROVE  x \in Items(d2.invitations) \/ (Made(x.id, "revoked") \in Items(d2.invitations)
                                           /\ \E q \in Answered(w2, "revoke") : q.arg.of = x.id)
    <3>1. x.id # of
      BY <2>1, <2>2, <1>6 DEF ListFollows
    <3> QED BY <3>1, <2>2, <1>2, <1>4, MadeFields DEF ListFollows
  <2>3. ASSUME x.status = "revoked"
        PROVE  x \in Items(d2.invitations) \/ (x.id \notin Ids(d2.invitations)
                                           /\ \E q \in Answered(w2, "discard") : q.arg.of = x.id)
    <3>1. CASE x.id = of
      BY <3>1, <1>4, <1>7
    <3>2. CASE x.id # of /\ x \in Items(d.invitations)
      BY <3>2, <1>2
    <3>3. CASE x \notin Items(d.invitations)
      BY <3>3, <2>3, <1>4, <1>7 DEF ListFollows
    <3> QED BY <3>1, <3>2, <3>3
  <2> QED BY <2>1, <2>2, <2>3
<1>12. \A y \in Items(d2.invitations) :
         y.id \in Ids(v.invitations) \/ (Answered(w2, "invite") # {} /\ y.id = d2.made)
  BY <1>2, <1>4 DEF ListFollows
<1>13. \A q \in Answered(w2, "invite") : /\ Data(q) = Made(d2.made, "pending")
                                         /\ Data(q) \in Items(d2.invitations)
  <2> SUFFICES ASSUME NEW q \in Answered(w, "invite")
               PROVE  Data(q) = Made(d.made, "pending") /\ Data(q) \in Items(d2.invitations)
    BY <1>4
  <2>1. Data(q) = Made(d.made, "pending") /\ Data(q) \in Items(d.invitations)
    BY DEF ListFollows
  <2>2. of <= Known(w, d) /\ Known(w, d) = d.made - 1
    BY <1>6 DEF ListFollows, Known
  <2>3. of # d.made
    BY <2>2, <1>8
  <2> QED BY <2>1, <2>3, <1>2, MadeFields
<1>14. \A q \in Answered(w2, "revoke") : /\ Data(q) = Made(q.arg.of, "revoked")
                                         /\ Made(q.arg.of, "pending") \notin Items(d2.invitations)
  BY <1>2, <1>4 DEF ListFollows
<1>15. \A q \in Answered(w2, "discard") : q.arg.of \notin Ids(d2.invitations)
  <2> SUFFICES ASSUME NEW q \in Answered(w, "discard") \cup {r}
               PROVE  q.arg.of \notin Ids(d2.invitations)
    BY <1>4
  <2>1. CASE q = r
    BY <2>1, <1>7
  <2>2. CASE q \in Answered(w, "discard")
    BY <2>2, <1>7 DEF ListFollows
  <2> QED BY <2>1, <2>2
<1>16. Falling(v.invitations) /\
       \A q \in Requests(w2) : q.kind = "discard" => Made(q.arg.of, "pending") \notin Items(v.invitations)
  BY <1>6 DEF ListFollows
<1>17. \A q \in Requests(w2) : q.kind \in {"revoke", "discard"} => q.arg.of \in Nat /\ q.arg.of <= Known(w2, d2)
  BY <1>5, <1>6 DEF ListFollows
<1>18. ListFollows(v, w2, d2)
  BY <1>11, <1>12, <1>13, <1>14, <1>15, <1>16, <1>17 DEF ListFollows
<1> QED BY <1>2, <1>3, <1>18

(* The page takes the answer into its list.                                *)
LEMMA ListFollowsAdded ==
  ASSUME NEW v, NEW w, NEW d, NEW v2, NEW w2, NEW i \in DOMAIN w, ListFollows(v, w, d), d.made \in Nat,
         Leaves(w2, w, i), One(w, {"invite"}), w[i].kind = "invite", w[i].is = "ok",
         v2.invitations = <<Data(w[i])>> \o v.invitations
  PROVE  ListFollows(v2, w2, d)
<1>0. PICK n \in Nat : n = d.made
  OBVIOUS
<1>1. w[i] \in Answered(w, "invite") /\ ~Out(w2, {"invite"})
  BY DEF Answered, Leaves
<1>2. Data(w[i]) = Made(n, "pending") /\ Made(n, "pending") \in Items(d.invitations)
  BY <1>0, <1>1 DEF ListFollows
<1>3. Answered(w2, "invite") = {}
  BY <1>1, OutRequests DEF Answered
<1>4. Known(w, d) = n - 1 /\ Known(w2, d) = n
  BY <1>0, <1>1, <1>3 DEF Known
<1>5. Answered(w2, "revoke") = Answered(w, "revoke") /\ Answered(w2, "discard") = Answered(w, "discard")
  <2>1. \A q \in Requests(w) : q.kind # "invite" => q \in Requests(w2)
    BY DEF Leaves
  <2>2. Requests(w2) \subseteq Requests(w)
    BY DEF Leaves
  <2> QED BY <2>1, <2>2 DEF Answered
<1>6. \A x \in Items(v.invitations) : x.id \in Nat /\ x.id <= n - 1
  BY <1>4, FallingItems DEF ListFollows
<1>7. \A x \in Items(v.invitations) : x.id < n
  BY <1>6
<1>8. Falling(v2.invitations) /\ Items(v2.invitations) = {Made(n, "pending")} \cup Items(v.invitations)
  <2>1. v2.invitations = <<Made(n, "pending")>> \o v.invitations /\ Falling(v.invitations)
    BY <1>2 DEF ListFollows
  <2> QED BY <2>1, <1>7, FallingPrepends
<1>9. Made(n, "pending").id = n /\ Made(n, "pending").status = "pending"
  BY MadeFields
<1>10. \A x \in Items(v2.invitations) :
       /\ x.id <= Known(w2, d)
       /\ x.status = "pending" =>
            x \in Items(d.invitations) \/ (Made(x.id, "revoked") \in Items(d.invitations)
                                           /\ \E r \in Answered(w2, "revoke") : r.arg.of = x.id)
       /\ x.status = "revoked" =>
            x \in Items(d.invitations) \/ (x.id \notin Ids(d.invitations)
                                           /\ \E r \in Answered(w2, "discard") : r.arg.of = x.id)
  <2> TAKE x \in Items(v2.invitations)
  <2>1. CASE x = Made(n, "pending")
    BY <2>1, <1>2, <1>4, <1>9
  <2>2. CASE x \in Items(v.invitations)
    <3>1. x.id <= n
      BY <2>2, <1>6
    <3> QED BY <2>2, <3>1, <1>4, <1>5 DEF ListFollows
  <2> QED BY <2>1, <2>2, <1>8
<1>11. \A y \in Items(d.invitations) : y.id \in Ids(v2.invitations)
  <2>1. Ids(v2.invitations) = {n} \cup Ids(v.invitations)
    BY <1>8, <1>9, ItemsIds
  <2> QED BY <2>1, <1>0 DEF ListFollows
<1>12. \A r \in Requests(w2) : r.kind \in {"revoke", "discard"} => r.arg.of \in Nat /\ r.arg.of <= n - 1
  BY <1>4 DEF ListFollows, Leaves
<1>13. \A r \in Requests(w2) : r.kind = "discard" => Made(r.arg.of, "pending") \notin Items(v2.invitations)
  <2> TAKE r \in Requests(w2)
  <2>1. r.kind = "discard" => r.arg.of # n
    BY <1>12
  <2>2. r.kind = "discard" => Made(r.arg.of, "pending") \notin Items(v.invitations)
    BY DEF ListFollows, Leaves
  <2> QED BY <2>1, <2>2, <1>8, MadeFields
<1>14. \A r \in Requests(w2) : r.kind \in {"revoke", "discard"} => r.arg.of \in Nat /\ r.arg.of <= Known(w2, d)
  BY <1>4, <1>12
<1>15. /\ \A r \in Answered(w2, "revoke") : /\ Data(r) = Made(r.arg.of, "revoked")
                                            /\ Made(r.arg.of, "pending") \notin Items(d.invitations)
       /\ \A r \in Answered(w2, "discard") : r.arg.of \notin Ids(d.invitations)
  BY <1>5 DEF ListFollows
<1> QED BY <1>3, <1>8, <1>10, <1>11, <1>13, <1>14, <1>15 DEF ListFollows

LEMMA ListFollowsWithdrawn ==
  ASSUME NEW v, NEW w, NEW d, NEW v2, NEW w2, NEW i \in DOMAIN w, ListFollows(v, w, d),
         Leaves(w2, w, i), w[i].kind = "revoke", w[i].is = "ok",
         v2.invitations = Household!With(v.invitations, Data(w[i]))
  PROVE  ListFollows(v2, w2, d)
<1>0. PICK of : of = w[i].arg.of
  OBVIOUS
<1>1. w[i] \in Answered(w, "revoke")
  BY DEF Answered, Leaves
<1>2. PICK u : u = Made(of, "revoked") /\ u.id = of /\ u.status = "revoked"
  BY MadeFields
<1>3. Data(w[i]) = u /\ Made(of, "pending") \notin Items(d.invitations)
  BY <1>0, <1>1, <1>2 DEF ListFollows
<1>4. w[i] \in Requests(w) /\ of \in Nat
  BY <1>0 DEF ListFollows, Leaves
<1>5. /\ Falling(v2.invitations) /\ Ids(v2.invitations) = Ids(v.invitations)
      /\ Items(v2.invitations) = {IF x.id = u.id THEN u ELSE x : x \in Items(v.invitations)}
  BY <1>2, <1>3, <1>4, FallingWith DEF ListFollows
<1>6. /\ Answered(w2, "invite") = Answered(w, "invite") /\ Answered(w2, "discard") = Answered(w, "discard")
      /\ Answered(w2, "revoke") \subseteq Answered(w, "revoke")
      /\ \A q \in Answered(w, "revoke") : q.arg.of # of => q \in Answered(w2, "revoke")
  <2>1. \A q \in Requests(w) : q.kind # "revoke" \/ q.arg.of # of => q \in Requests(w2)
    BY <1>0 DEF Leaves
  <2>2. Requests(w2) \subseteq Requests(w)
    BY DEF Leaves
  <2> QED BY <2>1, <2>2 DEF Answered
<1>7. Known(w2, d) = Known(w, d)
  BY <1>6 DEF Known
<1>8. \A x \in Items(v.invitations) : x = Made(x.id, x.status) /\ x.status \in {"pending", "revoked"}
  BY FallingItems DEF ListFollows
<1>9. \A x \in Items(v2.invitations) :
       /\ x.id <= Known(w2, d)
       /\ x.status = "pending" =>
            x \in Items(d.invitations) \/ (Made(x.id, "revoked") \in Items(d.invitations)
                                           /\ \E r \in Answered(w2, "revoke") : r.arg.of = x.id)
       /\ x.status = "revoked" =>
            x \in Items(d.invitations) \/ (x.id \notin Ids(d.invitations)
                                           /\ \E r \in Answered(w2, "discard") : r.arg.of = x.id)
  <2> TAKE x \in Items(v2.invitations)
  <2>1. CASE x \in Items(v.invitations) /\ x.id # of
    BY <2>1, <1>6, <1>7 DEF ListFollows
  <2>2. CASE x = u
    <3>1. PICK y \in Items(v.invitations) : y.id = of
      BY <2>2, <1>2, <1>5
    <3>2. u \in Items(d.invitations) \/ (of \notin Ids(d.invitations)
                                         /\ \E r \in Answered(w2, "discard") : r.arg.of = of)
      <4>1. CASE y.status = "pending"
        BY <4>1, <3>1, <1>2, <1>3, <1>8 DEF ListFollows
      <4>2. CASE y.status = "revoked"
        <5>1. y = u
          BY <4>2, <3>1, <1>2, <1>8
        <5> QED BY <5>1, <4>2, <3>1, <1>6 DEF ListFollows
      <4> QED BY <4>1, <4>2, <1>8, <3>1
    <3>3. of <= Known(w, d)
      BY <3>1 DEF ListFollows
    <3> QED BY <2>2, <3>2, <3>3, <1>2, <1>7
  <2> QED BY <2>1, <2>2, <1>2, <1>5
<1>10. \A r \in Requests(w2) : r.kind = "discard" => Made(r.arg.of, "pending") \notin Items(v2.invitations)
  <2>1. \A x \in Items(v2.invitations) : x.status = "pending" => x \in Items(v.invitations)
    BY <1>2, <1>5
  <2> QED BY <2>1, MadeFields DEF ListFollows, Leaves
<1>11. \A r \in Requests(w2) : r.kind \in {"revoke", "discard"} => r.arg.of \in Nat /\ r.arg.of <= Known(w2, d)
  BY <1>7 DEF ListFollows, Leaves
<1>12. /\ \A y \in Items(d.invitations) : y.id \in Ids(v2.invitations) \/ (Answered(w2, "invite") # {} /\ y.id = d.made)
       /\ \A r \in Answered(w2, "invite") : /\ Data(r) = Made(d.made, "pending")
                                            /\ Data(r) \in Items(d.invitations)
       /\ \A r \in Answered(w2, "revoke") : /\ Data(r) = Made(r.arg.of, "revoked")
                                            /\ Made(r.arg.of, "pending") \notin Items(d.invitations)
       /\ \A r \in Answered(w2, "discard") : r.arg.of \notin Ids(d.invitations)
  BY <1>5, <1>6 DEF ListFollows
<1> QED BY <1>5, <1>9, <1>10, <1>11, <1>12 DEF ListFollows

LEMMA ListFollowsRemoved ==
  ASSUME NEW v, NEW w, NEW d, NEW v2, NEW w2, NEW i \in DOMAIN w, ListFollows(v, w, d),
         Leaves(w2, w, i), w[i].kind = "discard", w[i].is = "ok",
         v2.invitations = Household!Without(v.invitations, w[i].arg.of)
  PROVE  ListFollows(v2, w2, d)
<1>0. PICK of : of = w[i].arg.of
  OBVIOUS
<1>1. w[i] \in Answered(w, "discard")
  BY DEF Answered, Leaves
<1>2. of \notin Ids(d.invitations)
  BY <1>0, <1>1 DEF ListFollows
<1>3. Falling(v2.invitations) /\ Items(v2.invitations) = {x \in Items(v.invitations) : x.id # of}
  BY <1>0, FallingWithout DEF ListFollows
<1>4. Ids(v2.invitations) = Ids(v.invitations) \ {of}
  BY <1>3, ItemsIds
<1>6. /\ Answered(w2, "invite") = Answered(w, "invite") /\ Answered(w2, "revoke") = Answered(w, "revoke")
      /\ Answered(w2, "discard") \subseteq Answered(w, "discard")
      /\ \A q \in Answered(w, "discard") : q.arg.of # of => q \in Answered(w2, "discard")
  <2>1. \A q \in Requests(w) : q.kind # "discard" \/ q.arg.of # of => q \in Requests(w2)
    BY <1>0 DEF Leaves
  <2>2. Requests(w2) \subseteq Requests(w)
    BY DEF Leaves
  <2> QED BY <2>1, <2>2 DEF Answered
<1>7. Known(w2, d) = Known(w, d)
  BY <1>6 DEF Known
<1>9. \A x \in Items(v2.invitations) :
       /\ x.id <= Known(w2, d)
       /\ x.status = "pending" =>
            x \in Items(d.invitations) \/ (Made(x.id, "revoked") \in Items(d.invitations)
                                           /\ \E r \in Answered(w2, "revoke") : r.arg.of = x.id)
       /\ x.status = "revoked" =>
            x \in Items(d.invitations) \/ (x.id \notin Ids(d.invitations)
                                           /\ \E r \in Answered(w2, "discard") : r.arg.of = x.id)
  <2> TAKE x \in Items(v2.invitations)
  <2>1. x \in Items(v.invitations) /\ x.id # of
    BY <1>3
  <2> QED BY <2>1, <1>6, <1>7 DEF ListFollows
<1>10. \A r \in Requests(w2) : r.kind = "discard" => Made(r.arg.of, "pending") \notin Items(v2.invitations)
  BY <1>3 DEF ListFollows, Leaves
<1>11. \A r \in Requests(w2) : r.kind \in {"revoke", "discard"} => r.arg.of \in Nat /\ r.arg.of <= Known(w2, d)
  BY <1>7 DEF ListFollows, Leaves
<1>12. \A y \in Items(d.invitations) : y.id \in Ids(v2.invitations) \/ (Answered(w2, "invite") # {} /\ y.id = d.made)
  <2>1. \A y \in Items(d.invitations) : y.id # of
    BY <1>2, ItemsIds
  <2> QED BY <2>1, <1>4, <1>6 DEF ListFollows
<1>13. /\ \A r \in Answered(w2, "invite") : /\ Data(r) = Made(d.made, "pending")
                                            /\ Data(r) \in Items(d.invitations)
       /\ \A r \in Answered(w2, "revoke") : /\ Data(r) = Made(r.arg.of, "revoked")
                                            /\ Made(r.arg.of, "pending") \notin Items(d.invitations)
       /\ \A r \in Answered(w2, "discard") : r.arg.of \notin Ids(d.invitations)
  BY <1>6 DEF ListFollows
<1> QED BY <1>3, <1>9, <1>10, <1>11, <1>12, <1>13 DEF ListFollows

(* A list just read is the API's.                                          *)
LEMMA ListFollowsRead ==
  ASSUME NEW v, NEW w, NEW d, ~Out(w, Household!Keeping), v.invitations = d.invitations,
         Falling(d.invitations), \A y \in Items(d.invitations) : y.id <= d.made
  PROVE  ListFollows(v, w, d)
<1>1. \A r \in Requests(w) : r.kind \notin {"invite", "revoke", "discard"}
  BY OutRequests DEF Household!Keeping
<1>2. Answered(w, "invite") = {} /\ Answered(w, "revoke") = {} /\ Answered(w, "discard") = {}
  BY <1>1 DEF Answered
<1>3. Known(w, d) = d.made
  BY <1>2 DEF Known
<1>4. \A x \in Items(d.invitations) : x.id \in Ids(d.invitations)
  BY ItemsIds
<1> QED BY <1>1, <1>2, <1>3, <1>4 DEF ListFollows

LEMMA HouseholdServesInvitation ==
  ASSUME HouseholdInv, NEW i \in DOMAIN wire, Household!ServeInvitation(i)
  PROVE  HouseholdInv'
<1>1. wire[i].is = "sent" /\ view' = view /\ wire[i].kind \in {"invite", "revoke", "discard"}
  BY HouseholdWire DEF Household!ServeInvitation, Waiting, Household!Keeping
<1>2. HouseholdType(view, wire, world) /\ ZoneSound(view, wire, world) /\ IsWire(wire) /\ DOMAIN world = WorldFields
  BY DEF HouseholdInv, HouseholdSound, HouseholdType
<1> DEFINE of == wire[i].arg.of
           list == world.invitations
           new == [id |-> world.made + 1, status |-> "pending"]
           revoked == [id |-> of, status |-> "revoked"]
           Live == \E x \in DOMAIN list : list[x].id = of /\ list[x].status = "pending"
           Dead == \E x \in DOMAIN list : list[x].id = of /\ list[x].status # "pending"
<1>3. \/ world' = world /\ wire' = Settle(wire, i, "refused")
      \/ wire[i].kind = "invite" /\ wire' = Ok(wire, i, new)
           /\ world' = [world EXCEPT !.made = world.made + 1, !.invitations = <<new>> \o list]
      \/ wire[i].kind = "revoke" /\ Live /\ wire' = Ok(wire, i, revoked)
           /\ world' = [world EXCEPT !.invitations = Household!With(list, revoked)]
      \/ wire[i].kind = "discard" /\ Dead /\ wire' = Ok(wire, i, TRUE)
           /\ world' = [world EXCEPT !.invitations = Household!Without(list, of)]
  <2> DEFINE here == {x \in DOMAIN list : list[x].id = of}
             live == {x \in here : Household!isLivePending(list[x])}
  <2>1. CASE wire[i].kind = "invite"
    BY <2>1, HouseholdWire DEF Household!ServeInvitation, Household!Does
  <2>2. CASE wire[i].kind = "revoke"
    <3>1. live # {} => Live
      BY DEF Household!isLivePending
    <3> QED BY <2>2, <3>1, HouseholdWire DEF Household!ServeInvitation, Household!Does
  <2>3. CASE wire[i].kind = "discard"
    <3>1. here # live => Dead
      BY DEF Household!isLivePending
    <3> QED BY <2>3, <3>1, HouseholdWire DEF Household!ServeInvitation, Household!Does
  <2> QED BY <1>1, <2>1, <2>2, <2>3
<1>4. ASSUME world' = world, wire' = Settle(wire, i, "refused") PROVE HouseholdInv'
  BY <1>1, <1>4, HouseholdUnserved
<1>5. ASSUME NEW a, wire' = Ok(wire, i, a), NEW l, NEW n,
             \/ world' = [world EXCEPT !.invitations = l] /\ n = world.made
             \/ world' = [world EXCEPT !.made = n, !.invitations = l],
             \/ wire[i].kind = "invite" /\ a = new /\ n = world.made + 1 /\ l = <<new>> \o list
             \/ wire[i].kind = "revoke" /\ a = revoked /\ Live /\ n = world.made /\ l = Household!With(list, revoked)
             \/ wire[i].kind = "discard" /\ Dead /\ n = world.made /\ l = Household!Without(list, of)
      PROVE  HouseholdInv'
  <2>1. /\ DOMAIN world' = WorldFields /\ world'.roles = world.roles /\ world'.admin = world.admin
        /\ world'.zone = world.zone /\ world'.invitations = l /\ world'.made = n /\ world'.elsewhere = world.elsewhere
    <3>1. CASE world' = [world EXCEPT !.invitations = l] /\ n = world.made
      BY <1>2, <3>1, WorldFieldsKept
    <3>2. CASE world' = [world EXCEPT !.made = n, !.invitations = l]
      BY <1>2, <3>2, WorldFieldsKept
    <3> QED BY <1>5, <3>1, <3>2
  <2>2. PICK r : /\ r.kind = wire[i].kind /\ r.arg = wire[i].arg /\ r.is = "ok" /\ r.answer = {a}
                 /\ Becomes(wire', wire, i, r)
    BY <1>2, <1>5, OkRequest
  <2>3. Data(r) = a
    <3>1. r.answer = {a}
      BY <2>2
    <3> QED BY <3>1, DataAnswered, ZenonT(60)
  <2>4. ~Copying(r) /\ r.kind \notin {"role", "remove", "transfer", "roster", "refresh"}
    BY <1>1, <2>2 DEF Copying, Owned
  <2>5. HouseholdType(view, wire', world') /\ ZoneSound(view, wire', world')
    <3>1. HouseholdType(view, wire', world')
      BY <1>2, <2>1, <2>2, TypeAnswered
    <3>2. ZoneSound(view, wire', world')
      BY <1>2, <2>1, <2>2, <2>4, ZoneAnswered
    <3> QED BY <3>1, <3>2
  <2>6. ASSUME ~Eager, ~Gone(view, wire')
        PROVE  OwnerSound(view, wire', world') /\ RosterSound(view, wire', world') /\ InvitationsSound(view, wire', world')
    <3>1. ~Gone(view, wire)
      BY <1>1, <2>2, <2>6, GoneAnswered
    <3>2. OwnerSound(view, wire, world) /\ RosterSound(view, wire, world) /\ InvitationsSound(view, wire, world)
      BY <2>6, <3>1 DEF HouseholdInv, HouseholdSound
    <3>3. OwnerSound(view, wire', world')
      <4>1. view.page = "mine" => Household!Me \in DOMAIN world'.roles
        BY <2>1, <3>2 DEF OwnerSound
      <4>2. world'.roles[Household!Me] = world.roles[Household!Me]
        BY <2>1
      <4> QED BY <1>1, <2>1, <2>2, <2>4, <3>2, <4>1, <4>2, OwnerAnswered
    <3>4. RosterSound(view, wire', world')
      BY <1>1, <2>1, <2>2, <2>4, <3>2, RosterAnswered
    <3>5. ~Out(wire, {"invites"}) /\ view.household # {} /\ view.page = "mine" /\ view.myRole = Household!Organiser
      <4>1. Out(wire, Household!Keeping) /\ Out(wire, {"invites"} \cup Household!Keeping)
        BY <1>1 DEF Out, Household!Keeping
      <4> QED BY <3>2, <4>1 DEF InvitationsSound
    <3>6. /\ \A K : (Out(wire', K) <=> Out(wire, K)) /\ (One(wire, K) => One(wire', K))
          /\ Answered(wire', "invites") = {}
      <4>1. \A K : (Out(wire', K) <=> Out(wire, K)) /\ (One(wire, K) => One(wire', K))
        BY <2>2 DEF Becomes
      <4>2. ~Out(wire', {"invites"})
        BY <3>5, <4>1
      <4> QED BY <4>1, <4>2, OutRequests DEF Answered
    <3>7. ASSUME ~world.elsewhere
          PROVE  /\ Falling(l) /\ n \in Nat /\ \A y \in Items(l) : y.id <= n
                 /\ ~view.lost => ListFollows(view, wire', world')
      <4>1. /\ Falling(list) /\ world.made \in Nat /\ \A y \in Items(list) : y.id <= world.made
            /\ One(wire, {"invite"})
        BY <3>2, <3>7 DEF InvitationsSound
      <4>2. ~view.lost => ListFollows(view, wire, world)
        BY <3>2, <3>5, <3>7 DEF InvitationsSound
      <4>3. \A x \in DOMAIN list : list[x] \in Items(list) /\ list[x] = Made(list[x].id, list[x].status)
                                   /\ list[x].status \in {"pending", "revoked"}
        BY <4>1 DEF Falling, Items, Made
      <4>4. Live => Made(of, "pending") \in Items(list)
        BY <4>3
      <4>5. Dead => Made(of, "revoked") \in Items(list)
        BY <4>3
      <4>6. new = Made(world.made + 1, "pending") /\ revoked = Made(of, "revoked") /\ revoked.id = of
        BY DEF Made
      <4> HIDE DEF new, revoked, Live, Dead
      <4>7. CASE wire[i].kind = "invite"
        <5>1. a = new /\ n = world.made + 1 /\ l = <<new>> \o list
          BY <1>5, <4>7
        <5>2. Falling(l) /\ n \in Nat /\ \A y \in Items(l) : y.id <= n
          <6>1. PICK m \in Nat : m = n
            BY <4>1, <5>1
          <6>2. \A x \in Items(list) : x.id \in Nat /\ x.id < m
            BY <4>1, <5>1, <6>1, FallingItems
          <6>3. l = <<Made(m, "pending")>> \o list
            BY <4>6, <5>1, <6>1
          <6>4. Falling(l) /\ Items(l) = {Made(m, "pending")} \cup Items(list)
            BY <4>1, <6>2, <6>3, FallingPrepends
          <6>5. \A y \in Items(l) : y.id <= m
            BY <6>2, <6>4, MadeFields
          <6> QED BY <6>1, <6>4, <6>5
        <5>3. ASSUME ~view.lost PROVE ListFollows(view, wire', world')
          BY <1>1, <2>1, <2>2, <2>3, <4>1, <4>2, <4>6, <4>7, <5>1, <5>3, ListFollowsInvited
        <5> QED BY <5>2, <5>3
      <4>8. CASE wire[i].kind = "revoke"
        <5>1. a = revoked /\ n = world.made /\ l = Household!With(list, revoked) /\ Live
          BY <1>5, <4>8
        <5>2. Falling(l) /\ n \in Nat /\ \A y \in Items(l) : y.id <= n
          <6>1. of \in Nat /\ of <= world.made
            BY <4>1, <4>4, <5>1, FallingItems, MadeFields
          <6>2. Falling(l) /\ Items(l) = {IF x.id = revoked.id THEN revoked ELSE x : x \in Items(list)}
            BY <4>1, <4>6, <5>1, <6>1, FallingWith
          <6> QED BY <4>1, <4>6, <5>1, <6>1, <6>2
        <5>3. ASSUME ~view.lost PROVE ListFollows(view, wire', world')
          <6>1. PICK id : id = of
            OBVIOUS
          <6>2. Data(r) = Made(id, "revoked") /\ Made(id, "pending") \in Items(world.invitations)
            BY <2>3, <4>4, <4>6, <5>1, <6>1
          <6>3. world'.invitations = Household!With(world.invitations, Made(id, "revoked"))
                /\ world'.made = world.made
            BY <2>1, <4>6, <5>1, <6>1
          <6>4. id = wire[i].arg.of /\ r.kind = "revoke"
            BY <2>2, <4>8, <6>1
          <6> HIDE DEF of, list
          <6> QED BY <1>1, <2>2, <4>1, <4>2, <4>8, <5>3, <6>2, <6>3, <6>4, ListFollowsRevoked DEF list
        <5> QED BY <5>2, <5>3
      <4>9. CASE wire[i].kind = "discard"
        <5>1. n = world.made /\ l = Household!Without(list, of) /\ Dead
          BY <1>5, <4>9
        <5>2. Falling(l) /\ n \in Nat /\ \A y \in Items(l) : y.id <= n
          <6>1. Falling(l) /\ Items(l) = {x \in Items(list) : x.id # of}
            BY <4>1, <5>1, FallingWithout
          <6> QED BY <4>1, <5>1, <6>1
        <5>3. ASSUME ~view.lost PROVE ListFollows(view, wire', world')
          <6>1. PICK id : id = of
            OBVIOUS
          <6>2. /\ Made(id, "revoked") \in Items(world.invitations) /\ world'.made = world.made
                /\ world'.invitations = Household!Without(world.invitations, id)
            BY <2>1, <4>5, <5>1, <6>1
          <6>3. id = wire[i].arg.of /\ r.kind = "discard"
            BY <2>2, <4>9, <6>1
          <6> HIDE DEF of, list
          <6> QED BY <1>1, <2>2, <4>1, <4>2, <4>9, <5>3, <6>2, <6>3, ListFollowsDiscarded DEF list
        <5> QED BY <5>2, <5>3
      <4> QED BY <1>1, <4>7, <4>8, <4>9
    <3>8. InvitationsSound(view, wire', world')
      BY <2>1, <3>2, <3>5, <3>6, <3>7 DEF InvitationsSound
    <3> QED BY <3>3, <3>4, <3>8
  <2> QED BY <1>1, <2>5, <2>6 DEF HouseholdInv, HouseholdSound
<1> QED BY <1>3, <1>4, <1>5

-----------------------------------------------------------------------------
(* What the page reads anew, and what it no longer listens for             *)

Reads == {"roster", "candidates", "invites"}

LEMMA ReadsKinds ==
  /\ \A K \in {{"save"}, {"household"}, {"transfer"}, {"transfer", "restore"}, {"invite"}, Owned, Household!Keeping,
               {"role"} \cup Household!Keeping, {"role", "remove"}} : K \cap Reads = {}
BY DEF Reads, Owned, Household!Keeping

Mounts(w2, w, v) ==
  /\ IsWire(w2) /\ Requests(w) \subseteq Requests(w2)
  /\ \A r \in Requests(w2) : r \in Requests(w) \/ (r.kind \in Reads /\ r.is = "sent")
  /\ \A K : K \cap Reads = {} => (Out(w2, K) <=> Out(w, K)) /\ (One(w, K) => One(w2, K))
  /\ Out(w2, {"roster"}) /\ (~Out(w, {"roster"}) => One(w2, {"roster"}))
  /\ ~Out(w, {"invites"}) => One(w2, {"invites"}) /\ (Out(w2, {"invites"}) <=> Household!Invites(v))

LEMMA JoinTwo == ASSUME NEW x, NEW y PROVE <<x>> \o <<y>> = <<x, y>>
<1>1. PICK s : s = <<x, y>>
  OBVIOUS
<1>2. s = Append(<<x>>, y)
  BY <1>1
<1>3. \A S : \A a \in Seq(S) : a \o <<y>> = Append(a, y)
  OBVIOUS
<1>4. <<x>> \in Seq({x})
  OBVIOUS
<1> QED BY <1>1, <1>2, <1>3, <1>4

LEMMA JoinThree == ASSUME NEW x, NEW y, NEW z PROVE <<x, y>> \o <<z>> = <<x, y, z>>
<1>1. PICK s : s = <<x, y, z>>
  OBVIOUS
<1>2. s = Append(<<x, y>>, z)
  BY <1>1
<1>3. \A S : \A a \in Seq(S) : a \o <<z>> = Append(a, z)
  OBVIOUS
<1>4. <<x, y>> \in Seq({x, y})
  OBVIOUS
<1> QED BY <1>1, <1>2, <1>3, <1>4

LEMMA JoinNone == ASSUME NEW x, NEW y PROVE <<x>> \o <<>> = <<x>> /\ <<x, y>> \o <<>> = <<x, y>>
OBVIOUS

LEMMA MountedMounts ==
  ASSUME NEW v, NEW w, IsWire(w)
  PROVE  Mounts(Household!Mounted(v, w), w, v)
<1> DEFINE g == [of |-> Household!NoOne, mount |-> v.mount]
           r == Call("roster", g)
           c == Call("candidates", g)
           n == Call("invites", g)
           w1 == Send(w, "roster", g)
           w2 == IF Household!canManage(v) THEN Send(w1, "candidates", g) ELSE w1
           w3 == IF Household!Invites(v) THEN Send(w2, "invites", g) ELSE w2
<1>1. Household!Mounted(v, w) = w3
  <2>1. PICK T : w \in Seq(T)
    BY DEF IsWire
  <2>2. /\ \A x : w \o <<x>> = Append(w, x)
        /\ \A x, y : w \o <<x, y>> = Append(Append(w, x), y)
        /\ \A x, y, z : w \o <<x, y, z>> = Append(Append(Append(w, x), y), z)
    BY <2>1
  <2> DEFINE one == IF Household!canManage(v) THEN <<"candidates">> ELSE <<>>
             two == IF Household!Invites(v) THEN <<"invites">> ELSE <<>>
  <2>3. PICK p : p = <<"roster">> \o one \o two
    OBVIOUS
  <2>4. Household!Mounted(v, w) = w \o [i \in DOMAIN p |-> Call(p[i], g)]
    BY <2>3, HouseholdWire DEF Household!Mounted
  <2>5. /\ <<"roster">> \o <<>> \o <<>> = <<"roster">>
        /\ <<"roster">> \o <<"candidates">> \o <<>> = <<"roster", "candidates">>
        /\ <<"roster">> \o <<>> \o <<"invites">> = <<"roster", "invites">>
        /\ <<"roster">> \o <<"candidates">> \o <<"invites">> = <<"roster", "candidates", "invites">>
    <3>1. <<"roster">> \o <<>> = <<"roster">> /\ <<"roster", "candidates">> \o <<>> = <<"roster", "candidates">>
      BY JoinNone
    <3>2. /\ <<"roster">> \o <<"candidates">> = <<"roster", "candidates">>
          /\ <<"roster">> \o <<"invites">> = <<"roster", "invites">>
      BY JoinTwo
    <3>3. <<"roster", "candidates">> \o <<"invites">> = <<"roster", "candidates", "invites">>
      BY JoinThree
    <3> QED BY <3>1, <3>2, <3>3
  <2>6. /\ p = <<"roster">> => [i \in DOMAIN p |-> Call(p[i], g)] = <<r>>
        /\ p = <<"roster", "candidates">> => [i \in DOMAIN p |-> Call(p[i], g)] = <<r, c>>
        /\ p = <<"roster", "invites">> => [i \in DOMAIN p |-> Call(p[i], g)] = <<r, n>>
        /\ p = <<"roster", "candidates", "invites">> => [i \in DOMAIN p |-> Call(p[i], g)] = <<r, c, n>>
    OBVIOUS
  <2>7. /\ Household!canManage(v) /\ Household!Invites(v) => one = <<"candidates">> /\ two = <<"invites">>
        /\ Household!canManage(v) /\ ~Household!Invites(v) => one = <<"candidates">> /\ two = <<>>
        /\ ~Household!canManage(v) /\ Household!Invites(v) => one = <<>> /\ two = <<"invites">>
        /\ ~Household!canManage(v) /\ ~Household!Invites(v) => one = <<>> /\ two = <<>>
    OBVIOUS
  <2>8. /\ Household!canManage(v) /\ Household!Invites(v) => w3 = Append(Append(Append(w, r), c), n)
        /\ Household!canManage(v) /\ ~Household!Invites(v) => w3 = Append(Append(w, r), c)
        /\ ~Household!canManage(v) /\ Household!Invites(v) => w3 = Append(Append(w, r), n)
        /\ ~Household!canManage(v) /\ ~Household!Invites(v) => w3 = Append(w, r)
    BY DEF Send
  <2> HIDE DEF one, two, r, c, n, w3
  <2>9. CASE Household!canManage(v) /\ Household!Invites(v)
    <3>1. Household!Mounted(v, w) = w \o <<r, c, n>>
      BY <2>3, <2>4, <2>5, <2>6, <2>7, <2>9
    <3>2. w \o <<r, c, n>> = Append(Append(Append(w, r), c), n)
      BY <2>2
    <3>3. w3 = Append(Append(Append(w, r), c), n)
      BY <2>8, <2>9
    <3> QED BY <3>1, <3>2, <3>3
  <2>10. CASE Household!canManage(v) /\ ~Household!Invites(v)
    <3>1. Household!Mounted(v, w) = w \o <<r, c>>
      BY <2>3, <2>4, <2>5, <2>6, <2>7, <2>10
    <3> QED BY <2>2, <2>8, <2>10, <3>1
  <2>11. CASE ~Household!canManage(v) /\ Household!Invites(v)
    <3>1. Household!Mounted(v, w) = w \o <<r, n>>
      BY <2>3, <2>4, <2>5, <2>6, <2>7, <2>11
    <3> QED BY <2>2, <2>8, <2>11, <3>1
  <2>12. CASE ~Household!canManage(v) /\ ~Household!Invites(v)
    <3>1. Household!Mounted(v, w) = w \o <<r>>
      BY <2>3, <2>4, <2>5, <2>6, <2>7, <2>12
    <3> QED BY <2>2, <2>8, <2>12, <3>1
  <2> QED BY <2>9, <2>10, <2>11, <2>12
<1>2. Adds(w1, w, r) /\ IsWire(w1) /\ r.kind = "roster"
  BY SendAdds DEF Adds
<1>3. w2 = w1 \/ Adds(w2, w1, c)
  BY <1>2, SendAdds
<1>4. IsWire(w2) /\ c.kind = "candidates" /\ n.kind = "invites"
  BY <1>2, <1>3, SendAdds DEF Adds
<1>5. IF Household!Invites(v) THEN Adds(w3, w2, n) ELSE w3 = w2
  BY <1>4, SendAdds
<1> HIDE DEF r, c, n, w1, w2, w3
<1>6. /\ Requests(w) \subseteq Requests(w2) /\ Requests(w2) \subseteq Requests(w) \cup {r, c}
      /\ r.is = "sent" /\ c.kind = "candidates" /\ (w2 # w1 => c.is = "sent" /\ Requests(w2) = Requests(w1) \cup {c})
      /\ w2 = w1 => Requests(w2) = Requests(w) \cup {r}
      /\ \A K : K \cap Reads = {} => (Out(w2, K) <=> Out(w, K)) /\ (One(w, K) => One(w2, K))
      /\ Out(w2, {"roster"}) /\ (~Out(w, {"roster"}) => One(w2, {"roster"}))
      /\ Out(w2, {"invites"}) <=> Out(w, {"invites"})
  <2>1. /\ \A K : K \cap Reads = {} => r.kind \notin K /\ c.kind \notin K
        /\ c.kind # "roster" /\ c.kind # "invites" /\ r.kind # "invites"
    BY <1>2, <1>4 DEF Reads
  <2>2. /\ \A K : K \cap Reads = {} => (Out(w1, K) <=> Out(w, K)) /\ (One(w, K) => One(w1, K))
        /\ Out(w1, {"roster"}) /\ (~Out(w, {"roster"}) => One(w1, {"roster"}))
        /\ Out(w1, {"invites"}) <=> Out(w, {"invites"})
    <3>1. ~Out(w, {"roster"}) => One(w, {"roster"})
      BY DEF One, Out
    <3> QED BY <1>2, <2>1, <3>1 DEF Adds
  <2>3. Requests(w1) = Requests(w) \cup {r} /\ r.is = "sent"
    BY <1>2 DEF Adds
  <2>4. CASE w2 = w1
    BY <2>2, <2>3, <2>4, <1>4
  <2>5. CASE w2 # w1
    <3>1. Adds(w2, w1, c)
      BY <1>3, <2>5
    <3>2. Requests(w2) = Requests(w1) \cup {c} /\ c.is = "sent"
      BY <3>1 DEF Adds
    <3>3. \A K : c.kind \notin K => (Out(w2, K) <=> Out(w1, K)) /\ (One(w1, K) => One(w2, K))
      BY <3>1 DEF Adds
    <3> QED BY <2>1, <2>2, <2>3, <2>5, <3>2, <3>3, <1>4
  <2> QED BY <2>4, <2>5
<1>7. \A q \in Requests(w2) : q \in Requests(w) \/ (q.kind \in Reads /\ q.is = "sent")
  BY <1>2, <1>4, <1>6 DEF Reads, Adds
<1>8. Mounts(w3, w, v)
  <2>1. CASE Household!Invites(v)
    <3>1. Adds(w3, w2, n) /\ n.kind = "invites"
      BY <1>4, <1>5, <2>1
    <3>2. /\ IsWire(w3) /\ Requests(w3) = Requests(w2) \cup {n} /\ n.is = "sent"
          /\ \A K : (Out(w3, K) <=> Out(w2, K) \/ n.kind \in K)
          /\ \A K : One(w2, K) /\ ~(n.kind \in K /\ Out(w2, K)) => One(w3, K)
      BY <3>1 DEF Adds
    <3>3. \A K : K \cap Reads = {} => n.kind \notin K
      BY <3>1 DEF Reads
    <3>4. ~Out(w2, {"invites"}) => One(w2, {"invites"})
      BY DEF One, Out
    <3>5. n.kind \in Reads
      BY <3>1 DEF Reads
    <3> QED BY <1>6, <1>7, <2>1, <3>1, <3>2, <3>3, <3>4, <3>5 DEF Mounts
  <2>2. CASE ~Household!Invites(v)
    <3>1. w3 = w2
      BY <1>5, <2>2
    <3>2. ~Out(w, {"invites"}) => One(w2, {"invites"}) /\ ~Out(w2, {"invites"})
      BY <1>6 DEF One, Out
    <3> QED BY <1>4, <1>6, <1>7, <2>2, <3>1, <3>2 DEF Mounts
  <2> QED BY <2>1, <2>2
<1> QED BY <1>1, <1>8

(* A household whose parts are mounted on a page that asked for nothing yet. *)
LEMMA HouseholdMounts ==
  ASSUME NEW v, NEW w, NEW d, NEW w2, HouseholdType(v, w, d), ZoneSound(v, w, d), Mounts(w2, w, v),
         v.household # {},
         ~Eager /\ ~Gone(v, w) =>
           /\ OwnerSound(v, w, d) /\ ~Out(w, {"transfer"})
           /\ ~Out(w, {"roster"}) /\ ~Out(w, {"invites"} \cup Household!Keeping)
           /\ ~d.elsewhere => Falling(d.invitations) /\ d.made \in Nat /\ \A y \in Items(d.invitations) : y.id <= d.made
  PROVE  HouseholdSound(v, w2, d)
<1>1. /\ IsWire(w2) /\ Requests(w) \subseteq Requests(w2)
      /\ \A r \in Requests(w2) : r \in Requests(w) \/ (r.kind \in Reads /\ r.is = "sent")
      /\ \A K : K \cap Reads = {} => (Out(w2, K) <=> Out(w, K)) /\ (One(w, K) => One(w2, K))
  BY DEF Mounts
<1>2. /\ \A K \in {{"save"}, {"household"}, {"transfer"}, {"transfer", "restore"}, {"invite"}, Owned, Household!Keeping,
               {"role"} \cup Household!Keeping, {"role", "remove"}} :
            (Out(w2, K) <=> Out(w, K)) /\ (One(w, K) => One(w2, K))
  BY <1>1, ReadsKinds
<1>3. \A r \in Requests(w2) :
        r.is # "sent" \/ r.kind \in {"save", "role", "remove", "refresh", "leave", "transfer"} \cup Owned \cup Household!Keeping
        => r \in Requests(w)
  BY <1>1 DEF Reads, Owned, Household!Keeping
<1>4. HouseholdType(v, w2, d)
  <2>1. \A r \in Requests(w2) : r \in Requests(w) \/ r.is = "sent"
    BY <1>1
  <2> QED BY <1>1, <1>2, <2>1 DEF HouseholdType
<1>5. ZoneSound(v, w2, d)
  BY <1>2, <1>3 DEF ZoneSound, ZoneRests, Copying
<1>6. ASSUME ~Eager, ~Gone(v, w2)
      PROVE  OwnerSound(v, w2, d) /\ RosterSound(v, w2, d) /\ InvitationsSound(v, w2, d)
  <2>1. ~Gone(v, w)
    BY <1>1, <1>6 DEF Gone
  <2>2. /\ OwnerSound(v, w, d) /\ ~Out(w, {"transfer"})
        /\ ~Out(w, {"roster"}) /\ ~Out(w, {"invites"} \cup Household!Keeping)
        /\ ~d.elsewhere => Falling(d.invitations) /\ d.made \in Nat /\ \A y \in Items(d.invitations) : y.id <= d.made
    BY <1>6, <2>1
  <2>3. OwnerSound(v, w2, d)
    <3>1. (\E r \in Requests(w2) : r.kind = "transfer" /\ r.is = "ok")
            <=> \E r \in Requests(w) : r.kind = "transfer" /\ r.is = "ok"
      BY <1>1, <1>3
    <3> QED BY <1>2, <1>3, <2>2, <3>1 DEF OwnerSound, Copying
  <2>4. ~Out(w, {"invites"}) /\ ~Out(w, Household!Keeping)
    BY <2>2 DEF Out
  <2>5. Out(w2, {"roster"}) /\ One(w2, {"roster"}) /\ One(w2, {"invites"}) /\ (Out(w2, {"invites"}) <=> Household!Invites(v))
    BY <2>2, <2>4 DEF Mounts
  <2>6. RosterSound(v, w2, d)
    <3>1. \A r \in Requests(w2) : r.kind = "roster" => r.is # "ok"
      <4>1. \A r \in Requests(w) : r.kind # "roster"
        BY <2>2, OutRequests
      <4> QED BY <1>1, <4>1
    <3> QED BY <2>5, <3>1 DEF RosterSound
  <2>7. Household!Invites(v) <=> v.page = "mine" /\ v.myRole = Household!Organiser
    <3>1. \A r \in Requests(w) : r.kind # "transfer"
      BY <2>2, OutRequests
    <3>2. Household!Household(v).admin = d.admin
      BY <2>2, <3>1 DEF OwnerSound
    <3>3. v.page = "mine" /\ d.admin = Household!Me => v.myRole = Household!Organiser
      BY <2>2 DEF OwnerSound
    <3> QED BY <3>2, <3>3 DEF Household!Invites, Household!canManage, Household!isOrganiser, Household!Loaded
  <2>8. /\ ~Out(w2, Household!Keeping) /\ ~Out(w2, {"invite"}) /\ One(w2, {"invite"})
    <3>1. ~Out(w2, Household!Keeping)
      BY <1>2, <2>4
    <3>2. ~Out(w2, {"invite"})
      BY <3>1 DEF Out, Household!Keeping
    <3> QED BY <3>1, <3>2 DEF One, Out
  <2>9. Answered(w2, "invites") = {}
    <3>1. \A r \in Requests(w) : r.kind # "invites"
      BY <2>4, OutRequests
    <3> QED BY <1>1, <3>1 DEF Answered
  <2>10. Out(w2, {"invites"} \cup Household!Keeping) => Out(w2, {"invites"})
    BY <2>8 DEF Out
  <2>11. InvitationsSound(v, w2, d)
    BY <2>2, <2>5, <2>7, <2>8, <2>9, <2>10 DEF InvitationsSound
  <2> QED BY <2>3, <2>6, <2>11
<1> QED BY <1>4, <1>5, <1>6 DEF HouseholdSound

LEMMA HouseholdReceivesIt ==
  ASSUME HouseholdInv, NEW i \in DOMAIN wire, Household!ReceiveHousehold(i), wire[i].is = "ok"
  PROVE  HouseholdInv'
<1>1. HouseholdType(view, wire, world) /\ ZoneSound(view, wire, world) /\ IsWire(wire)
  BY DEF HouseholdInv, HouseholdSound, HouseholdType
<1>2. PICK w : w = Received(wire, i) /\ Leaves(w, wire, i)
  BY <1>1, ReceivedLeaves
<1>3. PICK v : v = [view EXCEPT !.loading = FALSE, !.household = wire[i].answer]
  OBVIOUS
<1>4. /\ wire[i].kind = "household" /\ world' = world
      /\ view' = [v EXCEPT !.zone = Household!Household(v).zone, !.chosen = Household!Household(v).admin]
      /\ wire' = Household!Mounted(v, w)
  BY <1>2, <1>3, HouseholdWire DEF Household!ReceiveHousehold
<1>5. DOMAIN view = HouseholdFields
  BY <1>1 DEF HouseholdType
<1>6. wire[i] \in Requests(wire) /\ Copying(wire[i])
  BY <1>4 DEF Requests, Copying, Owned
<1>7. PICK h : wire[i].answer = {h}
  BY <1>1, <1>6 DEF HouseholdType
<1>8. Data(wire[i]) = h
  BY <1>7, DataAnswered, ZenonT(60)
<1>9. /\ DOMAIN v = HouseholdFields /\ v.household = {h} /\ v.page = view.page /\ v.myRole = view.myRole
  BY <1>3, <1>5, <1>7 DEF HouseholdFields
<1>10. Household!Household(v) = h
  BY <1>9 DEF Household!Household
<1>11. /\ DOMAIN view' = HouseholdFields /\ view'.household = {h} /\ view'.zone = h.zone
       /\ view'.page = view.page /\ view'.at = view.at /\ view'.mount = view.mount /\ view'.lost = view.lost
       /\ view'.refused = view.refused /\ view'.myRole = view.myRole /\ view'.picked = view.picked
       /\ view'.saving = view.saving /\ view'.confirming = view.confirming /\ view'.confirmed = view.confirmed
       /\ view'.promoted = view.promoted
  BY <1>3, <1>4, <1>5, <1>9, <1>10 DEF HouseholdFields
<1>12. Household!Household(view') = h
  BY <1>11 DEF Household!Household
<1>13. Mounts(wire', w, view')
  <2>1. Household!Invites(v) <=> Household!Invites(view')
    BY <1>9, <1>10, <1>11, <1>12
       DEF Household!Invites, Household!canManage, Household!isOrganiser, Household!Loaded
  <2>2. Mounts(wire', w, v)
    BY <1>2, <1>4, MountedMounts DEF Leaves
  <2> QED BY <2>1, <2>2 DEF Mounts
<1>14. /\ view.household = {} /\ view.page \in {"mine", "admin"} /\ view.promoted = {}
       /\ ~Out(wire, {"transfer", "restore"}) /\ ~Out(wire, {"save"}) /\ ~Out(w, {"household"})
  <2>1. Out(wire, {"household"}) /\ Out(wire, Owned)
    BY <1>4 DEF Out, Owned
  <2>2. One(wire, {"household"})
    BY <1>1 DEF HouseholdType
  <2>3. ~Out(w, {"household"})
    BY <1>2, <1>4, <2>2 DEF Leaves
  <2> QED BY <1>1, <2>1, <2>3 DEF HouseholdType
<1>15. ~Out(w, {"transfer", "restore"}) /\ ~Out(w, {"save"}) /\ ~Out(w, Owned) /\ One(w, Owned) /\ ~Out(w, {"transfer"})
  <2>1. ~Out(w, {"transfer", "restore"}) /\ ~Out(w, {"save"})
    BY <1>2, <1>14 DEF Leaves
  <2>2. ~Out(w, Owned) /\ ~Out(w, {"transfer"})
    BY <1>14, <2>1 DEF Out, Owned
  <2> QED BY <2>1, <2>2 DEF One, Out
<1>16. \A r \in Requests(w) : r.kind \notin {"household", "transfer", "restore", "save"} /\ ~Copying(r) /\ r \in Requests(wire)
  <2>1. \A r \in Requests(w) : r.kind \notin Owned /\ r.kind # "save"
    BY <1>15, OutRequests
  <2> QED BY <1>2, <2>1 DEF Owned, Copying, Leaves
<1>17. HouseholdType(view', w, world)
  <2>1. \A r \in Requests(w) : r \in Requests(wire)
    BY <1>16
  <2>2. IsWire(w) /\ One(w, {"household"})
    BY <1>1, <1>2 DEF Leaves, HouseholdType
  <2> QED BY <1>1, <1>11, <1>14, <1>15, <2>1, <2>2 DEF HouseholdType
<1>18. ZoneSound(view', w, world)
  <2>1. One(w, {"save"})
    BY <1>1, <1>2 DEF ZoneSound, Leaves
  <2>2. ~view.picked => h.zone = world.zone
    BY <1>1, <1>6, <1>8, <1>14 DEF ZoneSound, ZoneRests
  <2>4. ~view.confirming
    BY <1>1, <1>14 DEF ZoneSound
  <2>5. view.refused = "invalid" => view.picked
    BY <1>1 DEF ZoneSound
  <2>6. \A r \in Requests(w) : r.is # "invalid"
    BY <1>1, <1>16 DEF ZoneSound
  <2>7. ZoneRests(view', w, world)
    BY <1>11, <1>12, <1>16, <2>2 DEF ZoneRests
  <2> QED BY <1>11, <1>15, <1>16, <2>1, <2>4, <2>5, <2>6, <2>7 DEF ZoneSound
<1>19. ASSUME ~Eager, ~Gone(view', w)
       PROVE /\ OwnerSound(view', w, world)
             /\ ~Out(w, {"roster"}) /\ ~Out(w, {"invites"} \cup Household!Keeping)
             /\ ~world.elsewhere => /\ Falling(world.invitations) /\ world.made \in Nat
                                    /\ \A y \in Items(world.invitations) : y.id <= world.made
  <2>1. ~Gone(view, wire)
    BY <1>2, <1>4, <1>11, <1>19, GoneReceived
  <2>2. OwnerSound(view, wire, world) /\ RosterSound(view, wire, world) /\ InvitationsSound(view, wire, world)
    BY <1>19, <2>1 DEF HouseholdInv, HouseholdSound
  <2>3. ~Out(wire, {"roster", "role", "remove"}) /\ ~Out(wire, {"invites"} \cup Household!Keeping)
    BY <1>14, <2>2 DEF RosterSound, InvitationsSound
  <2>4. ~Out(w, {"roster", "role", "remove"}) /\ ~Out(w, {"invites"} \cup Household!Keeping)
    BY <1>2, <2>3 DEF Leaves
  <2>5. ~Out(w, {"roster"})
    BY <2>4 DEF Out
  <2>6. \A r \in Requests(w) : r.kind \notin {"role", "remove"} \cup Household!Keeping
    BY <2>4, OutRequests
  <2>7. h.admin = world.admin
    BY <1>6, <1>8, <2>2 DEF OwnerSound
  <2>8. OwnerSound(view', w, world)
    BY <1>11, <1>12, <1>14, <1>15, <1>16, <2>2, <2>6, <2>7 DEF OwnerSound
  <2> QED BY <2>2, <2>4, <2>5, <2>8 DEF InvitationsSound
<1>20. HouseholdSound(view', wire', world)
  BY <1>11, <1>13, <1>15, <1>17, <1>18, <1>19, HouseholdMounts
<1> QED BY <1>4, <1>20 DEF HouseholdInv

-----------------------------------------------------------------------------
(* The page receives                                                       *)

Fewer(w2, w) ==
  /\ IsWire(w2) /\ Requests(w2) \subseteq Requests(w)
  /\ \A K : (Out(w2, K) => Out(w, K)) /\ (One(w, K) => One(w2, K))

(* Only requests for what the page shows are dropped.                      *)
Drops(w2, w, k) ==
  /\ Fewer(w2, w) /\ Requests(w2) = {r \in Requests(w) : r.kind # k} /\ ~Out(w2, {k})

LEMMA IgnoreDrops ==
  ASSUME NEW w, IsWire(w), NEW k
  PROVE  Drops(Ignore(w, k), w, k)
<1>1. /\ IsWire(Ignore(w, k)) /\ Requests(Ignore(w, k)) = {r \in Requests(w) : r.kind # k}
      /\ \A K : One(w, K) => One(Ignore(w, k), K)
      /\ \A K : Out(Ignore(w, k), K) <=> Out(w, K \ {k})
  BY IgnoreRequests
<1>2. \A K : Out(w, K \ {k}) => Out(w, K)
  BY DEF Out
<1>3. ~Out(w, {k} \ {k})
  BY DEF Out
<1> QED BY <1>1, <1>2, <1>3 DEF Drops, Fewer

LEMMA TypeFewer ==
  ASSUME NEW v, NEW w, NEW d, NEW w2, HouseholdType(v, w, d), Fewer(w2, w)
  PROVE  HouseholdType(v, w2, d)
BY DEF HouseholdType, Fewer

LEMMA ZoneFewer ==
  ASSUME NEW v, NEW w, NEW d, NEW w2, ZoneSound(v, w, d), Fewer(w2, w)
  PROVE  ZoneSound(v, w2, d)
BY DEF ZoneSound, ZoneRests, Fewer

LEMMA OwnerDropped ==
  ASSUME NEW v, NEW w, NEW d, NEW w2, NEW k \in Reads, OwnerSound(v, w, d), Drops(w2, w, k)
  PROVE  OwnerSound(v, w2, d)
<1>1. (\E r \in Requests(w2) : r.kind = "transfer" /\ r.is = "ok")
        <=> \E r \in Requests(w) : r.kind = "transfer" /\ r.is = "ok"
  BY DEF Drops, Reads
<1> QED BY <1>1 DEF OwnerSound, Drops, Fewer

LEMMA InvitationsDropped ==
  ASSUME NEW v, NEW w, NEW d, NEW w2, NEW k, k \in Reads, k # "invites", InvitationsSound(v, w, d), Drops(w2, w, k)
  PROVE  InvitationsSound(v, w2, d)
<1>1. \A c : c \notin Reads \/ c = "invites" => Answered(w2, c) = Answered(w, c)
  BY DEF Answered, Drops
<1>2. \A c \in Household!Keeping : Answered(w2, c) = Answered(w, c)
  BY <1>1 DEF Household!Keeping, Reads
<1>3. ListFollows(v, w, d) => ListFollows(v, w2, d)
  BY <1>2, ListFollowsSame DEF Drops
<1>4. Out(w, {"invites"}) => Out(w2, {"invites"})
  <2>1. \A r \in Requests(w) : r.kind = "invites" => r \in Requests(w2)
    BY DEF Drops
  <2> QED BY <2>1, OutRequests
<1>5. /\ \A K : (Out(w2, K) => Out(w, K)) /\ (One(w, K) => One(w2, K))
  BY DEF Drops, Fewer
<1> QED BY <1>1, <1>3, <1>4, <1>5 DEF InvitationsSound

LEMMA GoneDropped ==
  ASSUME NEW v, NEW w, NEW w2, NEW k \in Reads, Drops(w2, w, k)
  PROVE  Gone(v, w) => Gone(v, w2)
BY DEF Gone, Drops, Reads

(* What a view must keep for its parts to be as sound as they were.        *)
Unmoved(v2, v) ==
  /\ DOMAIN v2 = HouseholdFields /\ v2.page = v.page /\ v2.at = v.at /\ v2.mount = v.mount
  /\ v2.household = v.household /\ v2.zone = v.zone /\ v2.picked = v.picked /\ v2.refused = v.refused
  /\ v2.saving = v.saving /\ v2.confirming = v.confirming /\ v2.confirmed = v.confirmed
  /\ v2.promoted = v.promoted /\ v2.roster = v.roster /\ v2.staged = v.staged
  /\ v2.invitations = v.invitations /\ (v.lost => v2.lost)

(* An answer that changes nothing the parts rest on.                       *)
Passing(r, mount) ==
  /\ r.kind \notin {"roster", "invites"}
  /\ ~(r.kind = "leave" /\ r.is = "ok") /\ ~(r.kind = "refresh" /\ r.arg.of = "leave")
  /\ r.is = "ok" => r.kind \notin {"transfer"} \cup Household!Keeping
  /\ r.kind \in {"role", "remove"} /\ r.is = "ok" => r.arg.mount # mount

LEMMA HouseholdHears ==
  ASSUME HouseholdInv, NEW i \in DOMAIN wire, wire' = Received(wire, i), world' = world,
         Unmoved(view', view), view'.creating = view.creating \/ wire[i].kind = "invite",
         Passing(wire[i], view.mount),
         OwnerSound(view, wire, world) /\ view.page = "mine" => view'.myRole = view.myRole
  PROVE  HouseholdInv'
<1>1. HouseholdType(view, wire, world) /\ ZoneSound(view, wire, world) /\ IsWire(wire)
  BY DEF HouseholdInv, HouseholdSound, HouseholdType
<1>2. Leaves(wire', wire, i)
  BY <1>1, ReceivedLeaves
<1>3. HouseholdType(view', wire', world)
  BY <1>1, <1>2, TypeReceived DEF Unmoved, Passing
<1>4. ZoneSound(view', wire', world)
  BY <1>1, <1>2, ZoneReceived DEF Unmoved, Passing
<1>5. ASSUME ~Eager, ~Gone(view', wire')
      PROVE  OwnerSound(view', wire', world) /\ RosterSound(view', wire', world) /\ InvitationsSound(view', wire', world)
  <2>1. ~Gone(view, wire)
    BY <1>2, <1>5, GoneReceived DEF Unmoved, Passing
  <2>2. OwnerSound(view, wire, world) /\ RosterSound(view, wire, world) /\ InvitationsSound(view, wire, world)
    BY <1>5, <2>1 DEF HouseholdInv, HouseholdSound
  <2>3. OwnerSound(view', wire', world)
    BY <1>2, <2>2, OwnerReceived DEF Unmoved, Passing
  <2>4. RosterSound(view', wire', world)
    BY <1>2, <2>2, RosterReceived DEF Unmoved, Passing
  <2>5. InvitationsSound(view', wire', world)
    BY <1>2, <2>2, InvitationsReceived DEF Unmoved, Passing
  <2> QED BY <2>3, <2>4, <2>5
<1> QED BY <1>3, <1>4, <1>5 DEF HouseholdInv, HouseholdSound

LEMMA HouseholdWontCome ==
  ASSUME HouseholdInv, NEW i \in DOMAIN wire, Household!ReceiveHousehold(i), wire[i].is # "ok"
  PROVE  HouseholdInv'
<1>1. /\ wire[i].kind = "household" /\ wire' = Received(wire, i) /\ world' = world
      /\ view' = [view EXCEPT !.loading = FALSE, !.error = TRUE]
  BY HouseholdWire DEF Household!ReceiveHousehold
<1>2. DOMAIN view = HouseholdFields
  BY DEF HouseholdInv, HouseholdSound, HouseholdType
<1>3. Unmoved(view', view) /\ view'.creating = view.creating /\ view'.myRole = view.myRole
  BY <1>1, <1>2 DEF HouseholdFields, Unmoved
<1>4. Passing(wire[i], view.mount)
  BY <1>1 DEF Passing, Household!Keeping
<1> QED BY <1>1, <1>3, <1>4, HouseholdHears

LEMMA HouseholdOwnersCome ==
  ASSUME HouseholdInv, NEW i \in DOMAIN wire, Household!ReceiveCandidates(i)
  PROVE  HouseholdInv'
<1>1. PICK c : /\ wire[i].kind = "candidates" /\ wire' = Received(wire, i) /\ world' = world
               /\ view' = [view EXCEPT !.candidates = c]
  BY HouseholdWire DEF Household!ReceiveCandidates
<1>2. DOMAIN view = HouseholdFields
  BY DEF HouseholdInv, HouseholdSound, HouseholdType
<1>3. Unmoved(view', view) /\ view'.creating = view.creating /\ view'.myRole = view.myRole
  BY <1>1, <1>2 DEF HouseholdFields, Unmoved
<1>4. Passing(wire[i], view.mount)
  BY <1>1 DEF Passing, Household!Keeping
<1> QED BY <1>1, <1>3, <1>4, HouseholdHears

(* A transfer or a restoring that is turned down, or lost.                 *)
LEMMA HouseholdIsRefused ==
  ASSUME HouseholdInv, NEW i \in DOMAIN wire, wire[i].kind \in {"transfer", "restore", "leave"}, wire[i].is # "ok",
         wire' = Received(wire, i), world' = world, NEW l, view.lost => l,
         view' = [view EXCEPT !.error = TRUE, !.lost = l]
  PROVE  HouseholdInv'
<1>2. DOMAIN view = HouseholdFields
  BY DEF HouseholdInv, HouseholdSound, HouseholdType
<1>3. Unmoved(view', view) /\ view'.creating = view.creating /\ view'.myRole = view.myRole
  BY <1>2 DEF HouseholdFields, Unmoved
<1>4. Passing(wire[i], view.mount)
  BY DEF Passing
<1> QED BY <1>3, <1>4, HouseholdHears

(* Once the user goes, what the page still holds is nobody's business.     *)
LEMMA HouseholdIsLeft ==
  ASSUME HouseholdInv, NEW i \in DOMAIN wire, world' = world,
         DOMAIN view' = HouseholdFields, view'.page = view.page, view'.household = view.household,
         view'.zone = view.zone, view'.picked = view.picked, view'.saving = view.saving,
         view'.confirming = view.confirming, view'.confirmed = view.confirmed, view'.refused = view.refused,
         view'.promoted = view.promoted,
         \/ wire' = Received(wire, i) /\ view'.at # "page"
         \/ \E m : wire' = Send(Received(wire, i), "refresh", [of |-> "leave", mount |-> m])
  PROVE  HouseholdInv'
<1>1. HouseholdType(view, wire, world) /\ ZoneSound(view, wire, world) /\ IsWire(wire)
  BY DEF HouseholdInv, HouseholdSound, HouseholdType
<1>2. PICK w : w = Received(wire, i) /\ Leaves(w, wire, i)
  BY <1>1, ReceivedLeaves
<1>3. HouseholdType(view', w, world) /\ ZoneSound(view', w, world)
  BY <1>1, <1>2, TypeReceived, ZoneReceived
<1>4. CASE wire' = Received(wire, i) /\ view'.at # "page"
  BY <1>2, <1>3, <1>4 DEF HouseholdInv, HouseholdSound, Gone
<1>5. CASE \E m : wire' = Send(Received(wire, i), "refresh", [of |-> "leave", mount |-> m])
  <2>1. PICK a : a.of = "leave" /\ wire' = Send(w, "refresh", a)
    BY <1>2, <1>5
  <2>2. PICK c : Adds(wire', w, c) /\ c.kind = "refresh" /\ c.arg = a
    BY <1>2, <2>1, SendAdds DEF Leaves
  <2>6. c.kind \notin {"household", "transfer", "restore", "save"} /\ DOMAIN view' = HouseholdFields
    BY <2>2
  <2>3. HouseholdType(view', wire', world)
    BY <1>3, <2>2, <2>6, TypeSent
  <2>4. ZoneSound(view', wire', world)
    BY <1>3, <2>2, ZoneSent
  <2>5. Gone(view', wire')
    BY <2>1, <2>2 DEF Gone, Adds
  <2> QED BY <1>2, <2>3, <2>4, <2>5 DEF HouseholdInv, HouseholdSound
<1> QED BY <1>4, <1>5

LEMMA HouseholdLeft ==
  ASSUME HouseholdInv, NEW i \in DOMAIN wire, Household!ReceiveLeave(i)
  PROVE  HouseholdInv'
<1>0. DOMAIN view = HouseholdFields
  BY DEF HouseholdInv, HouseholdSound, HouseholdType
<1>1. CASE wire[i].is = "ok"
  <2>1. /\ world' = world /\ view' = view
        /\ wire' = Send(Received(wire, i), "refresh", [of |-> "leave", mount |-> view.mount])
    BY <1>1, HouseholdWire DEF Household!ReceiveLeave
  <2> QED BY <1>0, <2>1, HouseholdIsLeft
<1>2. CASE wire[i].is # "ok"
  <2>1. /\ wire[i].kind = "leave" /\ wire' = Received(wire, i) /\ world' = world
        /\ view' = [view EXCEPT !.error = TRUE, !.lost = view.lost \/ wire[i].is = "lost"]
    BY <1>2, HouseholdWire DEF Household!ReceiveLeave
  <2> QED BY <1>2, <2>1, HouseholdIsRefused
<1> QED BY <1>1, <1>2

LEMMA HouseholdRefreshes ==
  ASSUME HouseholdInv, NEW i \in DOMAIN wire, Household!ReceiveRefresh(i)
  PROVE  HouseholdInv'
<1>0. DOMAIN view = HouseholdFields /\ IsWire(wire)
  BY DEF HouseholdInv, HouseholdSound, HouseholdType
<1>1. PICK v : /\ v = IF wire[i].is = "ok" THEN [view EXCEPT !.myRole = Data(wire[i])] ELSE [view EXCEPT !.lost = TRUE]
               /\ view' = IF wire[i].arg.of = "leave" THEN [v EXCEPT !.at = "list"] ELSE v
               /\ wire' = Received(wire, i) /\ world' = world /\ wire[i].kind = "refresh"
  BY HouseholdWire DEF Household!ReceiveRefresh
<1>2. /\ Unmoved(v, view)
      /\ v.creating = view.creating /\ v.myRole = IF wire[i].is = "ok" THEN Data(wire[i]) ELSE view.myRole
  <2>1. CASE wire[i].is = "ok"
    BY <1>0, <1>1, <2>1 DEF HouseholdFields, Unmoved
  <2>2. CASE wire[i].is # "ok"
    BY <1>0, <1>1, <2>2 DEF HouseholdFields, Unmoved
  <2> QED BY <2>1, <2>2
<1>3. CASE wire[i].arg.of = "leave"
  <2>1. view' = [v EXCEPT !.at = "list"]
    BY <1>1, <1>3
  <2>2. /\ DOMAIN view' = HouseholdFields /\ view'.page = view.page /\ view'.at # "page"
        /\ view'.household = view.household /\ view'.zone = view.zone /\ view'.picked = view.picked
        /\ view'.saving = view.saving /\ view'.confirming = view.confirming /\ view'.confirmed = view.confirmed
        /\ view'.refused = view.refused /\ view'.promoted = view.promoted
    BY <1>2, <2>1 DEF HouseholdFields, Unmoved
  <2> QED BY <1>1, <2>2, HouseholdIsLeft
<1>4. CASE wire[i].arg.of # "leave"
  <2>1. view' = v
    BY <1>1, <1>4
  <2>2. wire[i] \in Requests(wire)
    BY DEF Requests
  <2>3. OwnerSound(view, wire, world) /\ view.page = "mine" => v.myRole = view.myRole
    BY <1>1, <1>2, <2>2 DEF OwnerSound
  <2>4. Unmoved(view', view) /\ view'.creating = view.creating
        /\ (OwnerSound(view, wire, world) /\ view.page = "mine" => view'.myRole = view.myRole)
    BY <1>2, <2>1, <2>3
  <2>5. Passing(wire[i], view.mount)
    BY <1>1, <1>4 DEF Passing, Household!Keeping
  <2> QED BY <1>1, <2>4, <2>5, HouseholdHears
<1> QED BY <1>3, <1>4

LEMMA HouseholdSaved ==
  ASSUME HouseholdInv, NEW i \in DOMAIN wire, Household!ReceiveSave(i)
  PROVE  HouseholdInv'
<1>0. DOMAIN view = HouseholdFields /\ HouseholdType(view, wire, world) /\ ZoneSound(view, wire, world) /\ IsWire(wire)
  BY DEF HouseholdInv, HouseholdSound, HouseholdType
<1>1. CASE wire[i].is = "ok"
  <2>1. world' = world /\ Household!CreatedBy(view.page, view, Received(wire, i))
    BY <1>1, HouseholdWire DEF Household!ReceiveSave
  <2>2. CASE view.page = "new"
    <3>1. view' = view /\ wire' = Send(Received(wire, i), "refresh", [of |-> "leave", mount |-> view.mount])
      BY <2>1, <2>2, HouseholdWire DEF Household!CreatedBy
    <3> QED BY <1>0, <2>1, <3>1, HouseholdIsLeft
  <2>3. CASE view.page # "new"
    <3>1. view' = [view EXCEPT !.at = "list"] /\ wire' = Received(wire, i)
      BY <2>1, <2>3 DEF Household!CreatedBy
    <3>2. /\ DOMAIN view' = HouseholdFields /\ view'.page = view.page /\ view'.at # "page"
          /\ view'.household = view.household /\ view'.zone = view.zone /\ view'.picked = view.picked
          /\ view'.saving = view.saving /\ view'.confirming = view.confirming /\ view'.confirmed = view.confirmed
          /\ view'.refused = view.refused /\ view'.promoted = view.promoted
      BY <1>0, <3>1 DEF HouseholdFields
    <3> QED BY <2>1, <3>1, <3>2, HouseholdIsLeft
  <2> QED BY <2>2, <2>3
<1>2. CASE wire[i].is # "ok"
  <2>1. /\ wire[i].kind = "save" /\ wire' = Received(wire, i) /\ world' = world
        /\ view' = [view EXCEPT !.saving = FALSE, !.refused = wire[i].is, !.lost = view.lost \/ wire[i].is = "lost"]
    BY <1>2, HouseholdWire DEF Household!ReceiveSave
  <2>2. /\ DOMAIN view' = HouseholdFields /\ view'.page = view.page /\ view'.at = view.at
        /\ view'.household = view.household /\ view'.zone = view.zone /\ view'.picked = view.picked
        /\ view'.saving = FALSE /\ view'.confirming = view.confirming /\ view'.confirmed = view.confirmed
        /\ view'.refused = wire[i].is /\ view'.mount = view.mount /\ view'.promoted = view.promoted
        /\ view'.roster = view.roster /\ view'.staged = view.staged /\ view'.invitations = view.invitations
        /\ (view.lost => view'.lost) /\ view'.creating = view.creating /\ view'.myRole = view.myRole
    BY <1>0, <2>1 DEF HouseholdFields
  <2>3. Leaves(wire', wire, i) /\ wire[i] \in Requests(wire)
    BY <1>0, <2>1, ReceivedLeaves DEF Requests
  <2>4. HouseholdType(view', wire', world)
    BY <1>0, <2>2, <2>3, TypeReceived
  <2>5. ZoneSound(view', wire', world)
    <3>1. ~Out(wire', {"save"}) /\ One(wire', {"save"})
      BY <1>0, <2>1, <2>3 DEF ZoneSound, Leaves
    <3>2. wire[i].is = "invalid" => view.picked
      BY <1>0, <2>3 DEF ZoneSound
    <3>3. Requests(wire') \subseteq Requests(wire)
      BY <2>3 DEF Leaves
    <3>4. Household!Household(view') = Household!Household(view)
      BY <2>2 DEF Household!Household
    <3>5. ZoneRests(view', wire', world)
      BY <1>0, <2>2, <3>3, <3>4 DEF ZoneSound, ZoneRests
    <3>6. view'.confirming => view'.household # {}
      BY <1>0, <2>2 DEF ZoneSound
    <3> QED BY <1>0, <2>2, <3>1, <3>2, <3>3, <3>5, <3>6 DEF ZoneSound
  <2>6. ASSUME ~Eager, ~Gone(view', wire')
        PROVE  OwnerSound(view', wire', world) /\ RosterSound(view', wire', world) /\ InvitationsSound(view', wire', world)
    <3>1. ~Gone(view, wire)
      BY <2>1, <2>2, <2>3, <2>6, GoneReceived
    <3>2. OwnerSound(view, wire, world) /\ RosterSound(view, wire, world) /\ InvitationsSound(view, wire, world)
      BY <2>6, <3>1 DEF HouseholdInv, HouseholdSound
    <3>3. OwnerSound(view', wire', world)
      BY <2>1, <2>2, <2>3, <3>2, OwnerReceived
    <3>0. /\ wire[i].kind \notin {"roster", "invites", "role", "remove"}
          /\ view'.household = {} <=> view.household = {}
          /\ wire[i].is # "ok" /\ (view.lost => view'.lost)
      BY <1>2, <2>1, <2>2
    <3>4. RosterSound(view', wire', world)
      BY <2>2, <2>3, <3>0, <3>2, RosterReceived
    <3>5. InvitationsSound(view', wire', world)
      BY <2>2, <2>3, <3>0, <3>2, InvitationsReceived
    <3> QED BY <3>3, <3>4, <3>5
  <2> QED BY <2>1, <2>4, <2>5, <2>6 DEF HouseholdInv, HouseholdSound
<1> QED BY <1>1, <1>2

(* The parts that are read: the roster and the invitations.                *)
LEMMA HouseholdTakes ==
  ASSUME HouseholdInv, NEW i \in DOMAIN wire, wire' = Received(wire, i), world' = world,
         DOMAIN view' = HouseholdFields, view'.page = view.page, view'.at = view.at, view'.mount = view.mount,
         view'.household = view.household, view'.zone = view.zone, view'.picked = view.picked,
         view'.refused = view.refused, view'.saving = view.saving, view'.confirming = view.confirming,
         view'.confirmed = view.confirmed, view'.promoted = view.promoted, view'.myRole = view.myRole,
         wire[i].kind \notin {"leave", "refresh", "transfer"},
         ~Eager /\ OwnerSound(view, wire, world) /\ RosterSound(view, wire, world) /\ InvitationsSound(view, wire, world)
         => RosterSound(view', wire', world) /\ InvitationsSound(view', wire', world)
  PROVE  HouseholdInv'
<1>1. HouseholdType(view, wire, world) /\ ZoneSound(view, wire, world) /\ IsWire(wire)
  BY DEF HouseholdInv, HouseholdSound, HouseholdType
<1>2. Leaves(wire', wire, i)
  BY <1>1, ReceivedLeaves
<1>3. HouseholdType(view', wire', world)
  BY <1>1, <1>2, TypeReceived
<1>4. ZoneSound(view', wire', world)
  BY <1>1, <1>2, ZoneReceived
<1>5. ASSUME ~Eager, ~Gone(view', wire')
      PROVE  OwnerSound(view', wire', world) /\ RosterSound(view', wire', world) /\ InvitationsSound(view', wire', world)
  <2>1. ~Gone(view, wire)
    BY <1>2, <1>5, GoneReceived
  <2>2. OwnerSound(view, wire, world) /\ RosterSound(view, wire, world) /\ InvitationsSound(view, wire, world)
    BY <1>5, <2>1 DEF HouseholdInv, HouseholdSound
  <2>3. OwnerSound(view', wire', world)
    BY <1>2, <2>2, OwnerReceived
  <2> QED BY <1>5, <2>2, <2>3
<1> QED BY <1>3, <1>4, <1>5 DEF HouseholdInv, HouseholdSound

LEMMA HouseholdTakesRoster ==
  ASSUME HouseholdInv, NEW i \in DOMAIN wire, Household!ReceiveRoster(i)
  PROVE  HouseholdInv'
<1>0. DOMAIN view = HouseholdFields /\ IsWire(wire) /\ HouseholdType(view, wire, world)
  BY DEF HouseholdInv, HouseholdSound, HouseholdType
<1>1. /\ wire[i].kind = "roster" /\ wire' = Received(wire, i) /\ world' = world
      /\ view' = IF wire[i].is = "ok" THEN [view EXCEPT !.roster = wire[i].answer] ELSE [view EXCEPT !.lost = TRUE]
  BY HouseholdWire DEF Household!ReceiveRoster
<1>2. /\ DOMAIN view' = HouseholdFields /\ view'.page = view.page /\ view'.at = view.at /\ view'.mount = view.mount
      /\ view'.household = view.household /\ view'.zone = view.zone /\ view'.picked = view.picked
      /\ view'.refused = view.refused /\ view'.saving = view.saving /\ view'.confirming = view.confirming
      /\ view'.confirmed = view.confirmed /\ view'.promoted = view.promoted /\ view'.myRole = view.myRole
      /\ view'.staged = view.staged /\ view'.creating = view.creating /\ view'.invitations = view.invitations
      /\ view.lost => view'.lost
      /\ IF wire[i].is = "ok" THEN view'.roster = wire[i].answer ELSE view'.lost /\ view'.roster = view.roster
  <2>1. CASE wire[i].is = "ok"
    BY <1>0, <1>1, <2>1 DEF HouseholdFields
  <2>2. CASE wire[i].is # "ok"
    BY <1>0, <1>1, <2>2 DEF HouseholdFields
  <2> QED BY <2>1, <2>2
<1>3. Leaves(wire', wire, i) /\ wire[i] \in Requests(wire)
  BY <1>0, <1>1, ReceivedLeaves DEF Leaves
<1>4. wire[i].is = "ok" => wire[i].answer = {Data(wire[i])}
  <2>1. wire[i].is = "ok" => \E a : wire[i].answer = {a}
    BY <1>0, <1>3 DEF HouseholdType
  <2>2. ASSUME NEW a, wire[i].answer = {a} PROVE Data(wire[i]) = a
    BY <2>2, DataAnswered, ZenonT(60)
  <2> QED BY <2>1, <2>2
<1>5. ASSUME ~Eager, OwnerSound(view, wire, world), RosterSound(view, wire, world), InvitationsSound(view, wire, world)
      PROVE  RosterSound(view', wire', world) /\ InvitationsSound(view', wire', world)
  <2>1. InvitationsSound(view', wire', world)
    <3>1. wire[i].kind \notin {"invites"} \cup Household!Keeping
      BY <1>1 DEF Household!Keeping
    <3> QED BY <1>2, <1>3, <1>5, <3>1, InvitationsReceived
  <2>2. /\ Requests(wire') \subseteq Requests(wire) /\ \A q \in Requests(wire) : q.kind # "roster" => q \in Requests(wire')
        /\ \A K : (Out(wire', K) => Out(wire, K)) /\ (One(wire, K) => One(wire', K))
        /\ ~Out(wire', {"roster"}) /\ One(wire', {"roster"})
    BY <1>1, <1>3, <1>5 DEF Leaves, RosterSound
  <2>3. Rereading(view', wire') <=> Rereading(view, wire)
    BY <1>2, <2>2 DEF Rereading
  <2>4. Unseen(view', wire', world) = Unseen(view, wire, world)
    <3>1. (\E q \in Requests(wire') : q.kind = "transfer" /\ q.is = "ok")
            <=> \E q \in Requests(wire) : q.kind = "transfer" /\ q.is = "ok"
      BY <2>2
    <3> QED BY <1>2, <3>1 DEF Unseen
  <2>5. \A roster : RosterShows(roster, view', wire', world) <=> RosterShows(roster, view, wire, world)
    BY <2>4 DEF RosterShows
  <2>6. \A q \in Requests(wire') : q.kind # "roster"
    BY <2>2, OutRequests
  <2>7. view.household # {}
    <3>1. Out(wire, {"roster", "role", "remove"})
      BY <1>1 DEF Out
    <3> QED BY <1>5, <3>1 DEF RosterSound
  <2>8. ~view'.lost /\ ~Rereading(view', wire') => \E roster : view'.roster = {roster} /\ RosterShows(roster, view', wire', world)
    BY <1>1, <1>2, <1>3, <1>4, <1>5, <2>3, <2>5 DEF RosterSound
  <2>9. RosterSound(view', wire', world)
    BY <1>2, <2>2, <2>6, <2>7, <2>8 DEF RosterSound
  <2> QED BY <2>1, <2>9
<1> QED BY <1>1, <1>2, <1>5, HouseholdTakes

LEMMA HouseholdTakesInvitations ==
  ASSUME HouseholdInv, NEW i \in DOMAIN wire, Household!ReceiveInvitations(i)
  PROVE  HouseholdInv'
<1>0. DOMAIN view = HouseholdFields /\ IsWire(wire)
  BY DEF HouseholdInv, HouseholdSound, HouseholdType
<1>1. /\ wire[i].kind = "invites" /\ wire' = Received(wire, i) /\ world' = world
      /\ view' = IF wire[i].is = "ok" THEN [view EXCEPT !.invitations = Data(wire[i])] ELSE [view EXCEPT !.lost = TRUE]
  BY HouseholdWire DEF Household!ReceiveInvitations
<1>2. /\ DOMAIN view' = HouseholdFields /\ view'.page = view.page /\ view'.at = view.at /\ view'.mount = view.mount
      /\ view'.household = view.household /\ view'.zone = view.zone /\ view'.picked = view.picked
      /\ view'.refused = view.refused /\ view'.saving = view.saving /\ view'.confirming = view.confirming
      /\ view'.confirmed = view.confirmed /\ view'.promoted = view.promoted /\ view'.myRole = view.myRole
      /\ view'.staged = view.staged /\ view'.creating = view.creating /\ view'.roster = view.roster
      /\ view.lost => view'.lost
      /\ IF wire[i].is = "ok" THEN view'.invitations = Data(wire[i]) ELSE view'.lost
  <2>1. CASE wire[i].is = "ok"
    BY <1>0, <1>1, <2>1 DEF HouseholdFields
  <2>2. CASE wire[i].is # "ok"
    BY <1>0, <1>1, <2>2 DEF HouseholdFields
  <2> QED BY <2>1, <2>2
<1>3. Leaves(wire', wire, i) /\ wire[i] \in Requests(wire)
  BY <1>0, <1>1, ReceivedLeaves DEF Leaves
<1>5. ASSUME ~Eager, OwnerSound(view, wire, world), RosterSound(view, wire, world), InvitationsSound(view, wire, world)
      PROVE  RosterSound(view', wire', world) /\ InvitationsSound(view', wire', world)
  <2>1. RosterSound(view', wire', world)
    <3>1. wire[i].kind \notin {"roster", "transfer", "role", "remove"}
      BY <1>1
    <3> QED BY <1>2, <1>3, <1>5, <3>1, RosterReceived
  <2>2. /\ Requests(wire') \subseteq Requests(wire)
        /\ \A K : (Out(wire', K) => Out(wire, K)) /\ (One(wire, K) => One(wire', K))
        /\ ~Out(wire', {"invites"}) /\ One(wire', {"invites"}) /\ One(wire', {"invite"})
    BY <1>1, <1>3, <1>5 DEF Leaves, InvitationsSound
  <2>3. Out(wire, {"invites"}) /\ ~Out(wire, Household!Keeping)
    BY <1>1, <1>5 DEF Out, InvitationsSound
  <2>4. ~Out(wire', Household!Keeping) /\ ~Out(wire', {"invite"})
    BY <2>2, <2>3 DEF Out, Household!Keeping
  <2>5. Answered(wire', "invites") = {}
    BY <2>2, OutRequests DEF Answered
  <2>6. wire[i].is = "ok" => wire[i] \in Answered(wire, "invites")
    BY <1>1, <1>3 DEF Answered
  <2>7. ~world.elsewhere /\ ~view'.lost => ListFollows(view', wire', world)
    BY <1>2, <1>5, <2>4, <2>6, ListFollowsRead DEF InvitationsSound
  <2>8. InvitationsSound(view', wire', world)
    BY <1>2, <1>5, <2>2, <2>4, <2>5, <2>7 DEF InvitationsSound
  <2> QED BY <2>1, <2>8
<1> QED BY <1>1, <1>2, <1>5, HouseholdTakes

LEMMA HouseholdTakesInvitation ==
  ASSUME HouseholdInv, NEW i \in DOMAIN wire, Household!ReceiveInvitation(i)
  PROVE  HouseholdInv'
<1>0. DOMAIN view = HouseholdFields /\ IsWire(wire)
  BY DEF HouseholdInv, HouseholdSound, HouseholdType
<1> DEFINE r == wire[i]
           here == r.arg.mount = view.mount
<1>1. PICK v : /\ v = IF here /\ r.kind = "invite" THEN [view EXCEPT !.creating = FALSE] ELSE view
               /\ view' = IF r.is # "ok" THEN [v EXCEPT !.lost = v.lost \/ r.is = "lost"]
                          ELSE IF here THEN [v EXCEPT !.invitations = Household!Changed(v.invitations, r)] ELSE v
               /\ wire' = Received(wire, i) /\ world' = world /\ r.kind \in Household!Keeping
  BY HouseholdWire DEF Household!ReceiveInvitation
<1>2. /\ Unmoved(v, view) /\ v.myRole = view.myRole /\ (v.creating = view.creating \/ r.kind = "invite")
      /\ v.lost = view.lost
  BY <1>0, <1>1 DEF HouseholdFields, Unmoved
<1>3. r.kind \in {"invite", "revoke", "discard"}
  BY <1>1 DEF Household!Keeping
<1>4. CASE r.is # "ok"
  <2>1. view' = [v EXCEPT !.lost = v.lost \/ r.is = "lost"]
    BY <1>1, <1>4
  <2>2. Unmoved(view', view) /\ view'.myRole = view.myRole /\ (view'.creating = view.creating \/ r.kind = "invite")
    BY <1>2, <2>1 DEF HouseholdFields, Unmoved
  <2>3. Passing(r, view.mount)
    BY <1>3, <1>4 DEF Passing
  <2> QED BY <1>1, <2>2, <2>3, HouseholdHears
<1>5. CASE r.is = "ok"
  <2>1. DOMAIN v = HouseholdFields
    BY <1>2 DEF Unmoved
  <2>2. PICK l : view' = IF here THEN [v EXCEPT !.invitations = l] ELSE v
    BY <1>1, <1>5
  <2>3. /\ DOMAIN view' = HouseholdFields /\ view'.page = view.page /\ view'.at = view.at /\ view'.mount = view.mount
        /\ view'.household = view.household /\ view'.zone = view.zone /\ view'.picked = view.picked
        /\ view'.refused = view.refused /\ view'.saving = view.saving /\ view'.confirming = view.confirming
        /\ view'.confirmed = view.confirmed /\ view'.promoted = view.promoted /\ view'.myRole = view.myRole
        /\ view'.staged = view.staged /\ view'.roster = view.roster /\ view'.lost = view.lost
        /\ view'.creating = view.creating \/ r.kind = "invite"
    <3>1. CASE here
      BY <1>2, <2>1, <2>2, <3>1 DEF HouseholdFields, Unmoved
    <3>2. CASE ~here
      BY <1>2, <2>1, <2>2, <3>2 DEF HouseholdFields, Unmoved
    <3> QED BY <3>1, <3>2
  <2>4. Leaves(wire', wire, i) /\ r \in Requests(wire)
    BY <1>0, <1>1, ReceivedLeaves DEF Leaves
  <2>5. ASSUME ~Eager, OwnerSound(view, wire, world), RosterSound(view, wire, world), InvitationsSound(view, wire, world)
        PROVE  RosterSound(view', wire', world) /\ InvitationsSound(view', wire', world)
    <3>1. RosterSound(view', wire', world)
      <4>1. r.kind \notin {"roster", "transfer", "role", "remove"}
        BY <1>3
      <4> QED BY <2>3, <2>4, <2>5, <4>1, RosterReceived
    <3>2. here
      BY <1>1, <1>3, <2>4, <2>5 DEF OwnerSound
    <3>3. view'.invitations = Household!Changed(view.invitations, r)
      <4>1. v.invitations = view.invitations
        BY <1>2 DEF Unmoved
      <4>2. view' = [v EXCEPT !.invitations = Household!Changed(v.invitations, r)]
        BY <1>1, <1>5, <3>2
      <4> QED BY <2>1, <4>1, <4>2 DEF HouseholdFields
    <3>4. Out(wire, Household!Keeping) /\ Out(wire, {"invites"} \cup Household!Keeping)
      BY <1>1 DEF Out
    <3>5. /\ ~Out(wire, {"invites"}) /\ view.page = "mine" /\ view.myRole = Household!Organiser /\ view.household # {}
      BY <2>5, <3>4 DEF InvitationsSound
    <3>6. /\ Requests(wire') \subseteq Requests(wire)
          /\ \A K : (Out(wire', K) => Out(wire, K)) /\ (One(wire, K) => One(wire', K))
          /\ One(wire', {"invites"}) /\ One(wire', {"invite"}) /\ ~Out(wire', {"invites"})
          /\ Out(wire', {"invite"}) => view'.creating
      <4>1. /\ Requests(wire') \subseteq Requests(wire)
            /\ \A K : (Out(wire', K) => Out(wire, K)) /\ (One(wire, K) => One(wire', K))
            /\ r.kind = "invite" /\ One(wire, {"invite"}) => ~Out(wire', {"invite"})
        BY <2>4 DEF Leaves
      <4> QED BY <2>3, <2>5, <3>5, <4>1 DEF InvitationsSound
    <3>7. Answered(wire', "invites") = {}
      BY <3>6, OutRequests DEF Answered
    <3>8. ASSUME ~world.elsewhere, ~view.lost PROVE ListFollows(view', wire', world)
      <4>1. ListFollows(view, wire, world) /\ world.made \in Nat /\ One(wire, {"invite"})
        BY <2>5, <3>5, <3>8 DEF InvitationsSound
      <4>2. CASE r.kind = "invite"
        <5>1. view'.invitations = <<Data(r)>> \o view.invitations
          BY <3>3, <4>2, HouseholdWire DEF Household!Changed
        <5> QED BY <1>5, <2>4, <4>1, <4>2, <5>1, ListFollowsAdded
      <4>3. CASE r.kind = "revoke"
        <5>1. view'.invitations = Household!With(view.invitations, Data(r))
          BY <3>3, <4>3, HouseholdWire DEF Household!Changed
        <5> QED BY <1>5, <2>4, <4>1, <4>3, <5>1, ListFollowsWithdrawn
      <4>4. CASE r.kind = "discard"
        <5>1. view'.invitations = Household!Without(view.invitations, r.arg.of)
          BY <3>3, <4>4 DEF Household!Changed
        <5> QED BY <1>5, <2>4, <4>1, <4>4, <5>1, ListFollowsRemoved
      <4> QED BY <1>3, <4>2, <4>3, <4>4
    <3>9. InvitationsSound(view', wire', world)
      BY <2>3, <2>5, <3>5, <3>6, <3>7, <3>8 DEF InvitationsSound
    <3> QED BY <3>1, <3>9
  <2> QED BY <1>1, <1>3, <2>3, <2>5, HouseholdTakes
<1> QED BY <1>4, <1>5

(* The table of members is asked for again.                                *)
LEMMA RosterAsked ==
  ASSUME NEW v, NEW w, NEW d, NEW w2, NEW c, Adds(w2, w, c), c.kind = "roster", ~Out(w, {"roster"}),
         v.household # {}
  PROVE  RosterSound(v, w2, d)
<1>1. Out(w2, {"roster"}) /\ One(w2, {"roster"})
  <2>1. One(w, {"roster"})
    BY DEF One, Out
  <2> QED BY <2>1 DEF Adds
<1>2. \A r \in Requests(w2) : r.kind = "roster" => r.is # "ok"
  <2>1. \A r \in Requests(w) : r.kind # "roster"
    BY OutRequests
  <2> QED BY <2>1 DEF Adds
<1> QED BY <1>1, <1>2 DEF RosterSound

LEMMA HouseholdMemberChanged ==
  ASSUME HouseholdInv, NEW i \in DOMAIN wire, Household!ReceiveMember(i)
  PROVE  HouseholdInv'
<1>0. DOMAIN view = HouseholdFields /\ IsWire(wire) /\ HouseholdType(view, wire, world) /\ ZoneSound(view, wire, world)
  BY DEF HouseholdInv, HouseholdSound, HouseholdType
<1> DEFINE r == wire[i]
<1>1. PICK p, l : /\ r.kind \in {"role", "remove"} /\ world' = world
                  /\ p = (IF Household!Rereads(r) THEN {} ELSE view.promoted) /\ (view.lost => l)
                  /\ view' = [view EXCEPT !.lost = l, !.promoted = p]
                  /\ wire' = Household!Reloaded(r, Received(wire, i))
  <2>1. /\ view' = [view EXCEPT !.lost = view.lost \/ r.is = "lost",
                                !.promoted = IF Household!Rereads(r) THEN {} ELSE view.promoted]
        /\ wire' = Household!Reloaded(r, Received(wire, i)) /\ world' = world
        /\ r.kind \in {"role", "remove"}
    BY HouseholdWire DEF Household!ReceiveMember
  <2> QED BY <2>1
<1>2. /\ DOMAIN view' = HouseholdFields /\ view'.page = view.page /\ view'.at = view.at /\ view'.mount = view.mount
      /\ view'.household = view.household /\ view'.zone = view.zone /\ view'.picked = view.picked
      /\ view'.refused = view.refused /\ view'.saving = view.saving /\ view'.confirming = view.confirming
      /\ view'.confirmed = view.confirmed /\ view'.promoted = p /\ view'.myRole = view.myRole
      /\ view'.staged = view.staged /\ view'.creating = view.creating /\ view'.roster = view.roster
      /\ view'.invitations = view.invitations /\ (view.lost => view'.lost)
  BY <1>0, <1>1 DEF HouseholdFields
<1>3. CASE ~Household!Rereads(r)
  <2>1. p = view.promoted /\ wire' = Received(wire, i)
    BY <1>1, <1>3 DEF Household!Reloaded
  <2>2. Passing(r, view.mount)
    BY <1>1, <1>3 DEF Passing, Household!Rereads, Household!Keeping
  <2>3. Unmoved(view', view)
    BY <1>2, <2>1 DEF Unmoved
  <2> QED BY <1>1, <1>2, <2>1, <2>2, <2>3, HouseholdHears
<1>4. CASE Household!Rereads(r)
  <2>1. PICK w, w1, a : /\ w = Received(wire, i) /\ w1 = Ignore(w, "roster") /\ wire' = Send(w1, "roster", a)
    BY <1>1, <1>4, HouseholdWire DEF Household!Reloaded, SendAgain
  <2>2. Leaves(w, wire, i) /\ r \in Requests(wire) /\ IsWire(w)
    BY <1>0, <2>1, ReceivedLeaves DEF Leaves
  <2>3. Drops(w1, w, "roster") /\ Fewer(w1, w) /\ IsWire(w1) /\ ~Out(w1, {"roster"})
    BY <2>1, <2>2, IgnoreDrops DEF Drops, Fewer
  <2>4. PICK c : Adds(wire', w1, c) /\ c.kind = "roster"
    BY <2>1, <2>3, SendAdds
  <2>5. p = {}
    BY <1>1, <1>4
  <2>6. HouseholdType(view', wire', world) /\ ZoneSound(view', wire', world)
    <3>1. HouseholdType(view', w, world) /\ ZoneSound(view', w, world)
      <4>1. HouseholdType(view', w, world)
        BY <1>0, <1>2, <2>2, <2>5, TypeReceived
      <4>2. ZoneSound(view', w, world)
        BY <1>0, <1>2, <2>2, ZoneReceived
      <4> QED BY <4>1, <4>2
    <3>2. HouseholdType(view', w1, world) /\ ZoneSound(view', w1, world)
      BY <2>3, <3>1, TypeFewer, ZoneFewer
    <3>3. c.kind \notin {"household", "transfer", "restore", "save"}
      BY <2>4
    <3>4. HouseholdType(view', wire', world)
      BY <1>2, <2>4, <3>2, <3>3, TypeSent
    <3>5. ZoneSound(view', wire', world)
      BY <2>4, <3>2, <3>3, ZoneSent
    <3> QED BY <3>4, <3>5
  <2>7. ASSUME ~Eager, ~Gone(view', wire')
        PROVE  OwnerSound(view', wire', world) /\ RosterSound(view', wire', world) /\ InvitationsSound(view', wire', world)
    <3>0. "roster" \in Reads /\ "roster" # "invites"
      BY DEF Reads
    <3>1. ~Gone(view', w1)
      BY <2>4, <2>7, GoneSent
    <3>2. ~Gone(view', w)
      BY <2>3, <3>0, <3>1, GoneDropped
    <3>3. ~Gone(view, wire)
      BY <1>1, <1>2, <2>2, <3>2, GoneReceived
    <3>4. OwnerSound(view, wire, world) /\ RosterSound(view, wire, world) /\ InvitationsSound(view, wire, world)
      BY <2>7, <3>3 DEF HouseholdInv, HouseholdSound
    <3>5. r.kind \notin {"invites", "transfer"} \cup Household!Keeping
      BY <1>1 DEF Household!Keeping
    <3>6. OwnerSound(view', wire', world)
      <4>1. OwnerSound(view', w, world)
        BY <1>2, <2>2, <2>5, <3>4, <3>5, OwnerReceived
      <4>2. OwnerSound(view', w1, world)
        BY <2>3, <3>0, <4>1, OwnerDropped
      <4>3. c.kind \notin Owned \cup {"role", "remove"} \cup Household!Keeping
        BY <2>4 DEF Owned, Household!Keeping
      <4> QED BY <2>4, <4>2, <4>3, OwnerSent
    <3>7. view.household # {}
      <4>1. Out(wire, {"roster", "role", "remove"})
        BY <1>1 DEF Out
      <4> QED BY <3>4, <4>1 DEF RosterSound
    <3>8. RosterSound(view', wire', world)
      BY <1>2, <2>3, <2>4, <3>7, RosterAsked
    <3>9. InvitationsSound(view', wire', world)
      <4>1. InvitationsSound(view', w, world)
        <5>1. (view'.household = {} <=> view.household = {}) /\ (view.page = "mine" => view'.myRole = view.myRole)
          BY <1>2
        <5>2. r.kind # "invites" /\ (r.is = "ok" => r.kind \notin Household!Keeping)
          BY <3>5
        <5> QED BY <1>2, <2>2, <3>4, <5>1, <5>2, InvitationsReceived
      <4>2. InvitationsSound(view', w1, world)
        BY <2>3, <3>0, <4>1, InvitationsDropped
      <4>3. c.kind \notin {"invites"} \cup Household!Keeping
        BY <2>4 DEF Household!Keeping
      <4> QED BY <2>4, <4>2, <4>3, InvitationsSent
    <3> QED BY <3>6, <3>8, <3>9
  <2> QED BY <1>1, <2>6, <2>7 DEF HouseholdInv, HouseholdSound
<1> QED BY <1>3, <1>4

(* The household as a transfer or a restoring left it.                     *)
LEMMA HouseholdReplaced ==
  ASSUME NEW v, NEW w, NEW d, NEW w2, NEW v2, NEW i \in DOMAIN w, NEW a, HouseholdType(v, w, d), ZoneSound(v, w, d),
         Leaves(w2, w, i), w[i].kind \in {"transfer", "restore"}, w[i].is = "ok", w[i].answer = {a},
         DOMAIN v2 = HouseholdFields, v2.household = {a}, v2.page = v.page, v2.zone = v.zone, v2.picked = v.picked,
         v2.refused = v.refused, v2.saving = v.saving, v2.confirmed = v.confirmed,
         v2.confirming = v.confirming \/ v2.confirming = FALSE
  PROVE  HouseholdType(v2, w2, d) /\ ZoneSound(v2, w2, d) /\ v.household # {} /\ v.page \in {"mine", "admin"}
<1>1. w[i] \in Requests(w) /\ Out(w, {"transfer", "restore"}) /\ Out(w, Owned)
  BY DEF Leaves, Out, Owned
<1>2. v.household # {} /\ v.page \in {"mine", "admin"}
  BY <1>1 DEF HouseholdType
<1>3. /\ IsWire(w2) /\ Requests(w2) \subseteq Requests(w)
      /\ \A K : (Out(w2, K) => Out(w, K)) /\ (One(w, K) => One(w2, K))
  BY DEF Leaves
<1>4. HouseholdType(v2, w2, d)
  BY <1>2, <1>3 DEF HouseholdType
<1>5. Data(w[i]) = a
  BY DataAnswered, ZenonT(60)
<1>6. ~v.picked => a.zone = d.zone /\ v.zone = d.zone
  BY <1>1, <1>2, <1>5 DEF ZoneSound, ZoneRests, Copying, Owned
<1>7. Household!Household(v2) = a
  BY DEF Household!Household
<1>8. ZoneRests(v2, w2, d)
  BY <1>2, <1>3, <1>6, <1>7 DEF ZoneSound, ZoneRests
<1>9. v2.confirming => v.confirming
  OBVIOUS
<1>10. ZoneSound(v2, w2, d)
  BY <1>2, <1>3, <1>8, <1>9 DEF ZoneSound
<1> QED BY <1>2, <1>4, <1>10

LEMMA HouseholdRestored ==
  ASSUME HouseholdInv, NEW i \in DOMAIN wire, Household!ReceiveRestore(i)
  PROVE  HouseholdInv'
<1>0. DOMAIN view = HouseholdFields /\ IsWire(wire) /\ HouseholdType(view, wire, world) /\ ZoneSound(view, wire, world)
  BY DEF HouseholdInv, HouseholdSound, HouseholdType
<1>1. /\ wire[i].kind = "restore" /\ wire' = Received(wire, i) /\ world' = world
      /\ view' = IF wire[i].is = "ok" THEN [view EXCEPT !.household = wire[i].answer]
                 ELSE [view EXCEPT !.error = TRUE, !.lost = view.lost \/ wire[i].is = "lost"]
  BY HouseholdWire DEF Household!ReceiveRestore
<1>2. CASE wire[i].is # "ok"
  BY <1>1, <1>2, HouseholdIsRefused
<1>3. CASE wire[i].is = "ok"
  <2>1. Leaves(wire', wire, i) /\ wire[i] \in Requests(wire)
    BY <1>0, <1>1, ReceivedLeaves DEF Leaves
  <2>2. PICK a : wire[i].answer = {a}
    BY <1>0, <1>3, <2>1 DEF HouseholdType
  <2>3. Data(wire[i]) = a
    BY <2>2, DataAnswered, ZenonT(60)
  <2>4. view' = [view EXCEPT !.household = {a}]
    BY <1>1, <1>3, <2>2
  <2>5. /\ DOMAIN view' = HouseholdFields /\ view'.page = view.page /\ view'.at = view.at /\ view'.mount = view.mount
        /\ view'.household = {a} /\ view'.zone = view.zone /\ view'.picked = view.picked
        /\ view'.refused = view.refused /\ view'.saving = view.saving /\ view'.confirming = view.confirming
        /\ view'.confirmed = view.confirmed /\ view'.promoted = view.promoted /\ view'.myRole = view.myRole
        /\ view'.staged = view.staged /\ view'.creating = view.creating /\ view'.roster = view.roster
        /\ view'.invitations = view.invitations /\ view'.lost = view.lost
    BY <1>0, <2>4 DEF HouseholdFields
  <2>6. HouseholdType(view', wire', world) /\ ZoneSound(view', wire', world) /\ view.household # {}
    <3>1. wire[i].kind \in {"transfer", "restore"}
      BY <1>1
    <3>2. PICK v2, w2 : v2 = view' /\ w2 = wire'
      OBVIOUS
    <3>3. /\ DOMAIN v2 = HouseholdFields /\ v2.household = {a} /\ v2.page = view.page /\ v2.zone = view.zone
          /\ v2.picked = view.picked /\ v2.refused = view.refused /\ v2.saving = view.saving
          /\ v2.confirmed = view.confirmed /\ (v2.confirming = view.confirming \/ v2.confirming = FALSE)
          /\ Leaves(w2, wire, i)
      BY <2>1, <2>5, <3>2
    <3>4. HouseholdType(v2, w2, world) /\ ZoneSound(v2, w2, world) /\ view.household # {}
      BY <1>0, <1>3, <2>2, <3>1, <3>3, HouseholdReplaced
    <3> QED BY <3>2, <3>4
  <2>7. ASSUME ~Eager, ~Gone(view', wire')
        PROVE  OwnerSound(view', wire', world) /\ RosterSound(view', wire', world) /\ InvitationsSound(view', wire', world)
    <3>1. ~Gone(view, wire)
      BY <1>1, <2>1, <2>5, <2>7, GoneReceived
    <3>2. OwnerSound(view, wire, world) /\ RosterSound(view, wire, world) /\ InvitationsSound(view, wire, world)
      BY <2>7, <3>1 DEF HouseholdInv, HouseholdSound
    <3>3. Copying(wire[i])
      BY <1>1, <1>3 DEF Copying, Owned
    <3>4. a.admin = world.admin /\ Household!Household(view') = a
      BY <2>1, <2>3, <2>5, <3>2, <3>3 DEF OwnerSound, Household!Household
    <3>5. \A r \in Requests(wire) : Copying(r) => r = wire[i]
      BY <1>1, <3>2 DEF OwnerSound, One, Requests, Copying, Owned
    <3>6. Household!Household(view).admin = world.admin
      BY <1>1, <1>3, <2>6, <3>2, <3>5 DEF OwnerSound, Copying, Owned
    <3>7. OwnerSound(view', wire', world)
      <4>1. /\ Requests(wire') \subseteq Requests(wire)
            /\ \A K : (Out(wire', K) => Out(wire, K)) /\ (One(wire, K) => One(wire', K))
        BY <2>1 DEF Leaves
      <4> QED BY <2>5, <2>6, <3>2, <3>4, <3>6, <4>1 DEF OwnerSound
    <3>8. wire[i].kind \notin {"roster", "transfer", "role", "remove", "invites"} \cup Household!Keeping
      BY <1>1 DEF Household!Keeping
    <3>9. view'.household = {} <=> view.household = {}
      BY <2>5, <2>6
    <3>10. RosterSound(view', wire', world)
      BY <2>1, <2>5, <3>2, <3>8, <3>9, RosterReceived
    <3>11. InvitationsSound(view', wire', world)
      BY <2>1, <2>5, <3>2, <3>8, <3>9, InvitationsReceived
    <3> QED BY <3>7, <3>10, <3>11
  <2> QED BY <1>1, <2>6, <2>7 DEF HouseholdInv, HouseholdSound
<1> QED BY <1>2, <1>3

(* The page stays what it was, or turns into a member's.                   *)
LEMMA HouseholdTransferred ==
  ASSUME HouseholdInv, NEW i \in DOMAIN wire, Household!ReceiveTransfer(i)
  PROVE  HouseholdInv'
<1>0. DOMAIN view = HouseholdFields /\ IsWire(wire) /\ HouseholdType(view, wire, world) /\ ZoneSound(view, wire, world)
  BY DEF HouseholdInv, HouseholdSound, HouseholdType
<1>1. CASE wire[i].is # "ok"
  <2>1. /\ wire[i].kind = "transfer" /\ wire' = Received(wire, i) /\ world' = world
        /\ view' = [view EXCEPT !.error = TRUE, !.lost = view.lost \/ wire[i].is = "lost"]
    BY <1>1, HouseholdWire DEF Household!ReceiveTransfer
  <2> QED BY <1>1, <2>1, HouseholdIsRefused
<1>2. CASE wire[i].is = "ok"
  <2>1. PICK w : w = Received(wire, i) /\ Leaves(w, wire, i) /\ IsWire(w)
    BY <1>0, ReceivedLeaves DEF Leaves
  <2>2. wire[i] \in Requests(wire)
    BY <2>1 DEF Leaves
  <2>3. PICK a : wire[i].answer = {a}
    BY <1>0, <1>2, <2>2 DEF HouseholdType
  <2>4. Data(wire[i]) = a
    BY <2>3, DataAnswered, ZenonT(60)
  <2>5. /\ wire[i].kind = "transfer" /\ world' = world
        /\ Household!onTransferred(view, w, a)
    BY <1>2, <2>1, <2>4, HouseholdWire DEF Household!ReceiveTransfer
  <2>6. PICK u : u = [view EXCEPT !.household = {a}, !.promoted = view.promoted \cup {a.admin}]
    OBVIOUS
  <2>7. PICK g, asked : /\ g.of = "stay" /\ asked = Send(w, "refresh", g)
                        /\ IF Household!canManage(u)
                           THEN view' = u /\ wire' = asked
                           ELSE /\ view' = [u EXCEPT !.mount = u.mount + 1, !.roster = {}, !.promoted = {}, !.staged = <<>>,
                                                     !.candidates = {}, !.invitations = <<>>, !.creating = FALSE,
                                                     !.confirming = FALSE]
                                /\ wire' = Household!Mounted(view', Ignore(Ignore(Ignore(asked, "roster"), "candidates"),
                                                                           "invites"))
    <3>1. PICK g, asked : g = [of |-> "stay", mount |-> view.mount] /\ asked = Send(w, "refresh", g)
      OBVIOUS
    <3> QED BY <2>5, <2>6, <3>1, HouseholdWire DEF Household!onTransferred
  <2>8. /\ DOMAIN u = HouseholdFields /\ u.page = view.page /\ u.at = view.at /\ u.mount = view.mount
        /\ u.household = {a} /\ u.zone = view.zone /\ u.picked = view.picked
        /\ u.refused = view.refused /\ u.saving = view.saving /\ u.confirming = view.confirming
        /\ u.confirmed = view.confirmed /\ u.promoted = view.promoted \cup {a.admin} /\ u.myRole = view.myRole
        /\ u.staged = view.staged /\ u.creating = view.creating /\ u.roster = view.roster
        /\ u.invitations = view.invitations /\ u.lost = view.lost
    BY <1>0, <2>6 DEF HouseholdFields
  <2>9. PICK c : Adds(asked, w, c) /\ c.kind = "refresh" /\ c.arg = g
    BY <2>1, <2>7, SendAdds
  <2>10. c.kind \notin {"household", "save", "roster", "invites", "role", "remove"} \cup Owned \cup Household!Keeping
    BY <2>9 DEF Owned, Household!Keeping
  <2>11. HouseholdType(u, w, world) /\ ZoneSound(u, w, world) /\ view.household # {} /\ view.page \in {"mine", "admin"}
    BY <1>0, <1>2, <2>1, <2>3, <2>5, <2>8, HouseholdReplaced
  <2>12. Household!Household(u) = a
    BY <2>8 DEF Household!Household
  <2>13. ASSUME ~Gone(view, asked) PROVE ~Gone(view, wire)
    <3>1. ~Gone(view, w)
      BY <2>9, <2>13, GoneSent
    <3> QED BY <2>1, <2>5, <3>1, GoneReceived
  <2>14. ASSUME OwnerSound(view, wire, world)
         PROVE  /\ a.admin = world.admin /\ ~Out(w, Owned) /\ ~Out(w, {"role"} \cup Household!Keeping)
                /\ \A r \in Requests(w) : ~Copying(r) /\ r.kind # "transfer" /\ r \in Requests(wire)
                /\ Unseen(view, wire, world) = u.promoted
                /\ \A r \in Requests(w) : r.kind \in {"role", "remove"} \cup Household!Keeping => r.arg.mount = view.mount
    <3>1. Copying(wire[i]) /\ wire[i].kind \in Owned
      BY <1>2, <2>5 DEF Copying, Owned
    <3>2. a.admin = world.admin
      BY <2>2, <2>4, <2>14, <3>1 DEF OwnerSound
    <3>3. ~Out(w, Owned)
      BY <2>1, <2>14, <3>1 DEF OwnerSound, Leaves
    <3>4. Out(wire, {"transfer"})
      BY <2>5 DEF Out
    <3>5. ~Out(wire, {"role"} \cup Household!Keeping)
      BY <2>14, <3>4 DEF OwnerSound
    <3>6. ~Out(w, {"role"} \cup Household!Keeping)
      BY <2>1, <3>5 DEF Leaves
    <3>7. \A r \in Requests(w) : r.kind \notin Owned /\ r \in Requests(wire)
      BY <2>1, <3>3, OutRequests DEF Leaves
    <3>8. \A r \in Requests(w) : ~Copying(r) /\ r.kind # "transfer" /\ r \in Requests(wire)
      BY <3>7 DEF Copying, Owned
    <3>9. Unseen(view, wire, world) = view.promoted \cup {world.admin}
      BY <1>2, <2>2, <2>5 DEF Unseen
    <3>10. ~(view.page = "mine" /\ Household!Household(view).admin # Household!Me)
      BY <2>11, <2>14, <3>4 DEF OwnerSound
    <3>11. \A r \in Requests(w) : r.kind \in {"role", "remove"} \cup Household!Keeping => r.arg.mount = view.mount
      BY <2>14, <3>7, <3>10 DEF OwnerSound
    <3> QED BY <2>8, <3>2, <3>3, <3>6, <3>8, <3>9, <3>11
  <2>15. CASE Household!canManage(u)
    <3>1. view' = u /\ wire' = asked
      BY <2>7, <2>15
    <3>2. HouseholdType(u, asked, world)
      BY <2>8, <2>9, <2>10, <2>11, TypeSent DEF Owned
    <3>3. ZoneSound(u, asked, world)
      BY <2>9, <2>10, <2>11, ZoneSent
    <3>4. ASSUME ~Eager, ~Gone(u, asked)
          PROVE  OwnerSound(u, asked, world) /\ RosterSound(u, asked, world) /\ InvitationsSound(u, asked, world)
      <4>1. ~Gone(view, wire)
        BY <2>8, <2>13, <3>4 DEF Gone
      <4>2. OwnerSound(view, wire, world) /\ RosterSound(view, wire, world) /\ InvitationsSound(view, wire, world)
        BY <3>4, <4>1 DEF HouseholdInv, HouseholdSound
      <4>3. OwnerSound(u, w, world)
        <5>1. view.page = "mine" => a.admin = Household!Me
          BY <2>8, <2>12, <2>15 DEF Household!canManage
        <5>2. One(w, Owned) /\ ~Out(w, {"transfer"})
          BY <2>14, <4>2 DEF One, Out, Owned
        <5> QED BY <2>8, <2>12, <2>14, <4>2, <5>1, <5>2 DEF OwnerSound
      <4>4. OwnerSound(u, asked, world)
        BY <2>9, <2>10, <4>3, OwnerSent
      <4>5. RosterSound(u, w, world)
        <5>1. /\ Requests(w) \subseteq Requests(wire) /\ \A q \in Requests(wire) : q.kind # "transfer" => q \in Requests(w)
              /\ \A K : (Out(w, K) => Out(wire, K)) /\ (One(wire, K) => One(w, K))
              /\ Out(wire, {"roster"}) => Out(w, {"roster"})
          BY <2>1, <2>5 DEF Leaves
        <5>2. Rereading(u, w) <=> Rereading(view, wire)
          BY <2>8, <5>1 DEF Rereading
        <5>3. Unseen(u, w, world) = Unseen(view, wire, world)
          BY <2>14, <4>2 DEF Unseen
        <5>4. \A roster : RosterShows(roster, u, w, world) <=> RosterShows(roster, view, wire, world)
          BY <5>3 DEF RosterShows
        <5> QED BY <2>8, <2>11, <4>2, <5>1, <5>2, <5>4 DEF RosterSound
      <4>6. RosterSound(u, asked, world)
        BY <2>9, <2>10, <4>5, RosterSent
      <4>7. InvitationsSound(u, w, world)
        <5>1. (u.household = {} <=> view.household = {}) /\ wire[i].kind \notin {"invites"} \cup Household!Keeping
          BY <2>5, <2>8, <2>11 DEF Household!Keeping
        <5> QED BY <2>1, <2>8, <4>2, <5>1, InvitationsReceived
      <4>8. InvitationsSound(u, asked, world)
        BY <2>9, <2>10, <4>7, InvitationsSent
      <4> QED BY <4>4, <4>6, <4>8
    <3> QED BY <2>5, <3>1, <3>2, <3>3, <3>4 DEF HouseholdInv, HouseholdSound
  <2>16. CASE ~Household!canManage(u)
    <3>1. PICK n, w1, w2, w3 :
            /\ n = [u EXCEPT !.mount = u.mount + 1, !.roster = {}, !.promoted = {}, !.staged = <<>>,
                             !.candidates = {}, !.invitations = <<>>, !.creating = FALSE, !.confirming = FALSE]
            /\ w1 = Ignore(asked, "roster") /\ w2 = Ignore(w1, "candidates") /\ w3 = Ignore(w2, "invites")
            /\ view' = n /\ wire' = Household!Mounted(n, w3)
      BY <2>7, <2>16
    <3>2. /\ DOMAIN n = HouseholdFields /\ n.page = view.page /\ n.at = view.at
          /\ n.household = {a} /\ n.zone = view.zone /\ n.picked = view.picked
          /\ n.refused = view.refused /\ n.saving = view.saving /\ n.confirming = FALSE
          /\ n.confirmed = view.confirmed /\ n.promoted = {} /\ n.myRole = view.myRole
      BY <2>8, <3>1 DEF HouseholdFields
    <3>3. /\ Drops(w1, asked, "roster") /\ Drops(w2, w1, "candidates") /\ Drops(w3, w2, "invites")
          /\ IsWire(w1) /\ IsWire(w2) /\ IsWire(w3)
      <4>1. IsWire(asked)
        BY <2>9 DEF Adds
      <4>2. Drops(w1, asked, "roster") /\ IsWire(w1)
        BY <3>1, <4>1, IgnoreDrops DEF Drops, Fewer
      <4>3. Drops(w2, w1, "candidates") /\ IsWire(w2)
        BY <3>1, <4>2, IgnoreDrops DEF Drops, Fewer
      <4>4. Drops(w3, w2, "invites")
        BY <3>1, <4>3, IgnoreDrops
      <4>5. IsWire(w3)
        BY <4>4 DEF Drops, Fewer
      <4> QED BY <4>2, <4>3, <4>4, <4>5
    <3>4. Fewer(w3, asked) /\ ~Out(w3, {"roster"}) /\ ~Out(w3, {"invites"})
      <4>1. Fewer(w1, asked) /\ Fewer(w2, w1) /\ Fewer(w3, w2) /\ ~Out(w1, {"roster"}) /\ ~Out(w3, {"invites"})
        BY <3>3 DEF Drops
      <4>2. Fewer(w3, asked)
        BY <4>1 DEF Fewer
      <4>3. ~Out(w3, {"roster"})
        BY <4>1 DEF Fewer
      <4> QED BY <4>1, <4>2, <4>3
    <3>5. Household!Household(n) = a /\ view.page = "mine" /\ a.admin # Household!Me
      BY <2>8, <2>11, <2>12, <2>16, <3>2 DEF Household!Household, Household!canManage, Household!Loaded
    <3>6. HouseholdType(n, w, world) /\ ZoneSound(n, w, world)
      BY <1>0, <1>2, <2>1, <2>3, <2>5, <3>2, HouseholdReplaced
    <3>7. HouseholdType(n, w3, world) /\ ZoneSound(n, w3, world)
      <4>1. HouseholdType(n, asked, world)
        BY <2>9, <2>10, <3>2, <3>6, TypeSent DEF Owned
      <4>2. ZoneSound(n, asked, world)
        BY <2>9, <2>10, <3>6, ZoneSent
      <4> QED BY <3>4, <4>1, <4>2, TypeFewer, ZoneFewer
    <3>8. ASSUME ~Eager, ~Gone(n, w3)
          PROVE  /\ OwnerSound(n, w3, world) /\ ~Out(w3, {"transfer"})
                 /\ ~Out(w3, {"roster"}) /\ ~Out(w3, {"invites"} \cup Household!Keeping)
                 /\ ~world.elsewhere => /\ Falling(world.invitations) /\ world.made \in Nat
                                        /\ \A y \in Items(world.invitations) : y.id <= world.made
      <4>1. ~Gone(view, wire)
        <5>1. {"roster", "candidates", "invites"} \subseteq Reads
          BY DEF Reads
        <5>2. ~Gone(n, asked)
          BY <3>3, <3>8, <5>1, GoneDropped
        <5> QED BY <2>13, <3>2, <5>2 DEF Gone
      <4>2. OwnerSound(view, wire, world) /\ RosterSound(view, wire, world) /\ InvitationsSound(view, wire, world)
        BY <3>8, <4>1 DEF HouseholdInv, HouseholdSound
      <4>3. /\ ~Out(w3, Owned) /\ ~Out(w3, {"role"} \cup Household!Keeping)
        <5>1. ~Out(asked, Owned) /\ ~Out(asked, {"role"} \cup Household!Keeping)
          BY <2>9, <2>10, <2>14, <4>2 DEF Adds
        <5> QED BY <3>4, <5>1 DEF Fewer
      <4>4. ~Out(w3, {"transfer"}) /\ One(w3, Owned) /\ ~Out(w3, {"invites"} \cup Household!Keeping)
        BY <3>4, <4>3 DEF One, Out, Owned
      <4>5. \A r \in Requests(w3) : r \in Requests(wire) \/ r = c
        BY <2>1, <2>9, <3>4 DEF Leaves, Adds, Fewer
      <4>6. \A r \in Requests(w3) : r.kind \notin Owned /\ r.kind \notin {"role"} \cup Household!Keeping
        BY <4>3, OutRequests
      <4>7. c.is # "ok"
        BY <2>9 DEF Adds
      <4>8. a.admin = world.admin
        BY <2>14, <4>2
      <4>9. OwnerSound(n, w3, world)
        BY <3>2, <3>5, <4>2, <4>4, <4>5, <4>6, <4>7, <4>8 DEF OwnerSound, Copying
      <4> QED BY <3>4, <4>2, <4>4, <4>9 DEF InvitationsSound
    <3>9. HouseholdSound(n, wire', world)
      <4>1. Mounts(wire', w3, n)
        BY <3>1, <3>3, MountedMounts
      <4> QED BY <3>2, <3>7, <3>8, <4>1, HouseholdMounts
    <3> QED BY <2>5, <3>1, <3>9 DEF HouseholdInv
  <2> QED BY <2>15, <2>16
<1> QED BY <1>1, <1>2

-----------------------------------------------------------------------------
(* What users do                                                           *)

(* Nothing is asked for.                                                   *)
LEMMA HouseholdShows ==
  ASSUME HouseholdInv, wire' = wire, world' = world,
         DOMAIN view' = HouseholdFields, view'.page = view.page, view'.at = view.at, view'.mount = view.mount,
         view'.household = view.household, view'.saving = view.saving, view'.promoted = view.promoted,
         view'.confirmed = view.confirmed, view'.refused = view.refused, view'.myRole = view.myRole,
         view'.roster = view.roster, view'.lost = view.lost, view'.invitations = view.invitations,
         view'.creating = view.creating,
         RosterSound(view, wire, world) => view'.staged = view.staged \/ view'.staged = <<>> \/ view.household # {},
         view'.confirming => view.confirming \/ (~view.saving /\ view.household # {}),
         \/ view'.zone = view.zone /\ view'.picked = view.picked
         \/ view'.picked /\ view'.zone \in Household!Zones
  PROVE  HouseholdInv'
<1>1. HouseholdType(view, wire, world) /\ ZoneSound(view, wire, world)
  BY DEF HouseholdInv, HouseholdSound
<1>2. HouseholdType(view', wire, world)
  BY <1>1 DEF HouseholdType
<1>3. ZoneRests(view', wire, world)
  BY <1>1 DEF ZoneSound, ZoneRests, Household!Household
<1>4. ZoneSound(view', wire, world)
  BY <1>1, <1>3 DEF ZoneSound
<1>5. ASSUME ~Eager, ~Gone(view', wire)
      PROVE  OwnerSound(view', wire, world) /\ RosterSound(view', wire, world) /\ InvitationsSound(view', wire, world)
  <2>1. ~Gone(view, wire)
    BY <1>5 DEF Gone
  <2>2. OwnerSound(view, wire, world) /\ RosterSound(view, wire, world) /\ InvitationsSound(view, wire, world)
    BY <1>5, <2>1 DEF HouseholdInv, HouseholdSound
  <2>3. OwnerSound(view', wire, world)
    BY <2>2 DEF OwnerSound, Household!Household
  <2>4. RosterSound(view', wire, world)
    <3>1. (Rereading(view', wire) <=> Rereading(view, wire))
      BY DEF Rereading
    <3>2. \A roster : RosterShows(roster, view', wire, world) <=> RosterShows(roster, view, wire, world)
      BY DEF RosterShows, Unseen
    <3> QED BY <2>2, <3>1, <3>2 DEF RosterSound
  <2>5. InvitationsSound(view', wire, world)
    BY <2>2 DEF InvitationsSound, ListFollows
  <2> QED BY <2>3, <2>4, <2>5
<1> QED BY <1>2, <1>4, <1>5 DEF HouseholdInv, HouseholdSound

(* A request that the parts of the invariant allow.                        *)
LEMMA HouseholdAsks ==
  ASSUME HouseholdInv, NEW k, NEW a, wire' = Send(wire, k, a), world' = world,
         k \in {"role", "remove", "leave"}, a.mount = view.mount,
         k = "role" /\ ~Eager => ~Out(wire, {"transfer"}),
         RosterSound(view, wire, world) => view.household # {},
         DOMAIN view' = HouseholdFields, view'.page = view.page, view'.at = view.at, view'.mount = view.mount,
         view'.household = view.household, view'.saving = view.saving, view'.promoted = view.promoted,
         view'.confirmed = view.confirmed, view'.refused = view.refused, view'.myRole = view.myRole,
         view'.roster = view.roster, view'.lost = view.lost, view'.invitations = view.invitations,
         view'.creating = view.creating, view'.confirming = view.confirming,
         view'.zone = view.zone, view'.picked = view.picked,
         view'.staged = view.staged \/ view'.staged = <<>>
  PROVE  HouseholdInv'
<1>1. HouseholdType(view, wire, world) /\ ZoneSound(view, wire, world) /\ IsWire(wire)
  BY DEF HouseholdInv, HouseholdSound, HouseholdType
<1>2. PICK c : Adds(wire', wire, c) /\ c.kind = k /\ c.arg = a
  BY <1>1, SendAdds
<1>3. c.kind \notin {"household", "save", "roster", "transfer", "restore", "invites"} \cup Owned
        /\ c.kind \notin {"invites"} \cup Household!Keeping
  BY <1>2 DEF Owned, Household!Keeping
<1>4. HouseholdType(view', wire', world)
  BY <1>1, <1>2, <1>3, TypeSent
<1>5. ZoneSound(view', wire', world)
  BY <1>1, <1>2, <1>3, ZoneSent
<1>6. ASSUME ~Eager, ~Gone(view', wire')
      PROVE  OwnerSound(view', wire', world) /\ RosterSound(view', wire', world) /\ InvitationsSound(view', wire', world)
  <2>1. ~Gone(view, wire)
    BY <1>2, <1>6, GoneSent
  <2>2. OwnerSound(view, wire, world) /\ RosterSound(view, wire, world) /\ InvitationsSound(view, wire, world)
    BY <1>6, <2>1 DEF HouseholdInv, HouseholdSound
  <2>3. OwnerSound(view', wire', world)
    BY <1>2, <1>3, <1>6, <2>2, OwnerSent DEF Household!Keeping
  <2>4. RosterSound(view', wire', world)
    BY <1>2, <1>3, <2>2, RosterSent
  <2>5. InvitationsSound(view', wire', world)
    BY <1>2, <1>3, <2>2, InvitationsSent
  <2> QED BY <2>3, <2>4, <2>5
<1> QED BY <1>4, <1>5, <1>6 DEF HouseholdInv, HouseholdSound

(* The form is sent.                                                       *)
LEMMA HouseholdSaves ==
  ASSUME HouseholdInv, NEW v, Household!saveForm(v), world' = world, ~view.saving,
         view.household # {} \/ view.page \in {"new", "admin_new"},
         v = view \/ v = [view EXCEPT !.confirmed = {view.zone}],
         v.household # {} => Household!zoneSent(v) \subseteq v.confirmed
  PROVE  HouseholdInv'
<1>1. HouseholdType(view, wire, world) /\ ZoneSound(view, wire, world) /\ IsWire(wire) /\ DOMAIN view = HouseholdFields
  BY DEF HouseholdInv, HouseholdSound, HouseholdType
<1>2. /\ DOMAIN v = HouseholdFields /\ v.page = view.page /\ v.household = view.household /\ v.at = view.at
      /\ v.zone = view.zone /\ v.picked = view.picked /\ v.mount = view.mount /\ v.promoted = view.promoted
      /\ v.refused = view.refused /\ v.myRole = view.myRole /\ v.roster = view.roster /\ v.lost = view.lost
      /\ v.invitations = view.invitations /\ v.creating = view.creating /\ v.staged = view.staged
  <2>1. CASE v = view
    BY <1>1, <2>1
  <2>2. CASE v = [view EXCEPT !.confirmed = {view.zone}]
    BY <1>1, <2>2 DEF HouseholdFields
  <2> QED BY <2>1, <2>2
<1>3. view' = [v EXCEPT !.saving = TRUE, !.confirming = FALSE]
  BY DEF Household!saveForm
<1>4. PICK cc : cc = v.confirmed
  OBVIOUS
<1>5. /\ DOMAIN view' = HouseholdFields /\ view'.page = view.page /\ view'.at = view.at /\ view'.mount = view.mount
      /\ view'.household = view.household /\ view'.saving /\ view'.promoted = view.promoted
      /\ view'.confirmed = cc /\ view'.refused = view.refused /\ view'.myRole = view.myRole
      /\ view'.roster = view.roster /\ view'.lost = view.lost /\ view'.invitations = view.invitations
      /\ view'.creating = view.creating /\ ~view'.confirming
      /\ view'.zone = view.zone /\ view'.picked = view.picked /\ view'.staged = view.staged
  BY <1>2, <1>3, <1>4 DEF HouseholdFields
<1>6. PICK z, a : /\ z = Household!zoneSent(v) /\ a = [of |-> z, mount |-> view.mount]
                  /\ wire' = Send(wire, "save", a)
  <2>1. PICK z, a : z = Household!zoneSent(v) /\ a = [of |-> z, mount |-> view.mount]
    OBVIOUS
  <2> QED BY <1>2, <2>1, HouseholdWire DEF Household!saveForm, Household!Ask
<1>7. PICK c : Adds(wire', wire, c) /\ c.kind = "save" /\ c.arg = a
  BY <1>1, <1>6, SendAdds
<1>8. HouseholdType(view', wire', world)
  BY <1>1, <1>5, <1>7, TypeSent
<1>9. c.arg.of = z
  BY <1>6, <1>7
<1>10. z \subseteq {view.zone} /\ (view.household # {} /\ view.zone = Household!Household(view).zone => z = {})
  BY <1>2, <1>6 DEF Household!zoneSent, Household!timezoneMoved, Household!Loaded, Household!Household
<1>11. view.household # {} => z \subseteq cc
  BY <1>2, <1>4, <1>6
<1>12. ~Out(wire, {"save"})
  BY <1>1 DEF ZoneSound
<1>13. view.page \in {"new", "admin_new"} => view.household = {} /\ view.zone # Household!Legacy
  BY <1>1 DEF HouseholdType, Household!Zones, Household!UTC, Household!Rome, Household!Legacy
<1>14. z = {Household!Legacy} => view.picked
  BY <1>1, <1>10, <1>13 DEF ZoneSound, ZoneRests
<1>15. \A r \in Requests(wire') : (r \in Requests(wire) /\ r.kind # "save") \/ r = c
  BY <1>7, <1>12, OutRequests DEF Adds
<1>16. c.is = "sent" /\ ~Copying(c)
  BY <1>7 DEF Adds, Copying
<1>17. ZoneRests(view', wire', world)
  BY <1>1, <1>5, <1>7, <1>9, <1>10, <1>15, <1>16 DEF ZoneSound, ZoneRests, Household!Household
<1>18. One(wire', {"save"})
  <2>1. One(wire, {"save"})
    BY <1>1 DEF ZoneSound
  <2> QED BY <1>7, <1>12, <2>1 DEF Adds
<1>19. ZoneSound(view', wire', world)
  BY <1>1, <1>5, <1>7, <1>9, <1>11, <1>14, <1>15, <1>16, <1>17, <1>18 DEF ZoneSound
<1>20. ASSUME ~Eager, ~Gone(view', wire')
       PROVE  OwnerSound(view', wire', world) /\ RosterSound(view', wire', world) /\ InvitationsSound(view', wire', world)
  <2>1. ~Gone(view, wire)
    BY <1>5, <1>7, <1>20, GoneSent
  <2>2. OwnerSound(view, wire, world) /\ RosterSound(view, wire, world) /\ InvitationsSound(view, wire, world)
    BY <1>20, <2>1 DEF HouseholdInv, HouseholdSound
  <2>0. c.kind \notin {"roster", "role", "remove"} \cup Owned /\ c.kind \notin {"invites"} \cup Household!Keeping
          /\ c.kind \notin {"role"} \cup Household!Keeping /\ c.kind \notin {"role", "remove"} \cup Household!Keeping
    BY <1>7 DEF Owned, Household!Keeping
  <2>3. OwnerSound(view', wire', world)
    BY <1>5, <1>7, <2>0, <2>2, OwnerSent
  <2>4. RosterSound(view', wire', world)
    BY <1>5, <1>7, <2>0, <2>2, RosterSent
  <2>5. InvitationsSound(view', wire', world)
    BY <1>5, <1>7, <2>0, <2>2, InvitationsSent
  <2> QED BY <2>3, <2>4, <2>5
<1> QED BY <1>8, <1>19, <1>20 DEF HouseholdInv, HouseholdSound

(* The household is given away, or brought back.                           *)
LEMMA HouseholdGives ==
  ASSUME HouseholdInv, NEW k \in {"transfer", "restore"}, NEW a, wire' = Send(wire, k, a), world' = world, view' = view,
         view.household # {}, k = "transfer" /\ view.page = "mine" => Household!Household(view).admin = Household!Me,
         k = "restore" => view.page = "admin",
         ~Eager => ~Out(wire, {"transfer"}) /\ ~Out(wire, {"restore"}),
         k = "transfer" /\ ~Eager => ~Out(wire, {"role"} \cup Household!Keeping)
  PROVE  HouseholdInv'
<1>1. HouseholdType(view, wire, world) /\ ZoneSound(view, wire, world) /\ IsWire(wire) /\ DOMAIN view = HouseholdFields
  BY DEF HouseholdInv, HouseholdSound, HouseholdType
<1>2. PICK c : Adds(wire', wire, c) /\ c.kind = k /\ c.arg = a
  BY <1>1, SendAdds
<1>3. HouseholdType(view, wire', world)
  BY <1>1, <1>2, TypeSent
<1>4. ZoneSound(view, wire', world)
  BY <1>1, <1>2, ZoneSent
<1>5. ASSUME ~Eager, ~Gone(view, wire')
      PROVE  OwnerSound(view, wire', world) /\ RosterSound(view, wire', world) /\ InvitationsSound(view, wire', world)
  <2>1. ~Gone(view, wire)
    BY <1>2, <1>5, GoneSent
  <2>2. OwnerSound(view, wire, world) /\ RosterSound(view, wire, world) /\ InvitationsSound(view, wire, world)
    BY <1>5, <2>1 DEF HouseholdInv, HouseholdSound
  <2>3. c.kind \notin {"roster", "role", "remove"} /\ c.kind \notin {"invites"} \cup Household!Keeping
    BY <1>2 DEF Household!Keeping
  <2>4. ~Out(wire, Owned)
    <3>1. ~Out(wire, {"household"})
      BY <1>1 DEF HouseholdType
    <3> QED BY <1>5, <3>1 DEF Out, Owned
  <2>5. One(wire', Owned)
    BY <1>2, <2>2, <2>4 DEF Adds, OwnerSound
  <2>6. Out(wire', {"transfer"}) <=> k = "transfer"
    BY <1>2, <1>5 DEF Adds
  <2>7. ~(Out(wire', {"transfer"}) /\ Out(wire', {"role"} \cup Household!Keeping))
    BY <1>2, <1>5, <2>6 DEF Adds, Household!Keeping
  <2>8. c.is = "sent" /\ ~Copying(c) /\ Requests(wire') = Requests(wire) \cup {c}
    BY <1>2 DEF Adds, Copying
  <2>9. OwnerSound(view, wire', world)
    BY <2>2, <2>3, <2>5, <2>6, <2>7, <2>8, <1>2 DEF OwnerSound, Household!Keeping
  <2>10. RosterSound(view, wire', world)
    BY <1>2, <2>2, <2>3, RosterSent
  <2>11. InvitationsSound(view, wire', world)
    BY <1>2, <2>2, <2>3, InvitationsSent
  <2> QED BY <2>9, <2>10, <2>11
<1> QED BY <1>3, <1>4, <1>5 DEF HouseholdInv, HouseholdSound

(* An invitation is asked for, revoked or removed.                         *)
LEMMA InvitationsAsked ==
  ASSUME NEW v, NEW w, NEW d, NEW v2, NEW w2, NEW c, InvitationsSound(v, w, d), Adds(w2, w, c),
         c.kind \in Household!Keeping, ~Out(w, {"invites"}), v.page = "mine", v.myRole = Household!Organiser,
         v.household # {}, c.kind = "invite" => ~v.creating /\ v2.creating,
         c.kind \in {"revoke", "discard"} => \E x \in Items(v.invitations) : x.id = c.arg.of,
         c.kind = "discard" => \E x \in Items(v.invitations) : x.id = c.arg.of /\ x.status # "pending",
         v2.page = v.page, v2.household = v.household, v2.myRole = v.myRole, v2.lost = v.lost,
         v2.invitations = v.invitations, v.creating => v2.creating
  PROVE  InvitationsSound(v2, w2, d)
<1>1. Requests(w2) = Requests(w) \cup {c} /\ c.is = "sent"
  BY DEF Adds
<1>2. \A k : Answered(w2, k) = Answered(w, k)
  BY <1>1 DEF Answered
<1>3. c.kind \in {"invite", "revoke", "discard"}
  BY DEF Household!Keeping
<1>4. ASSUME ListFollows(v, w, d) PROVE ListFollows(v2, w2, d)
  <2>1. \A x \in Items(v.invitations) : x.id \in Nat /\ x.id <= Known(w, d)
    BY <1>4 DEF ListFollows, Falling, Items
  <2>2. \A x, y \in Items(v.invitations) : x.id = y.id => x = y
    BY <1>4, FallingItems DEF ListFollows
  <2>3. \A x \in Items(v.invitations) : Made(x.id, "pending") \in Items(v.invitations) => x.status = "pending"
    <3>1. \A id : Made(id, "pending").id = id /\ Made(id, "pending").status = "pending"
      BY DEF Made
    <3> QED BY <2>2, <3>1
  <2>4. c.kind \in {"revoke", "discard"} =>
          /\ c.arg.of \in Nat /\ c.arg.of <= Known(w, d)
          /\ c.kind = "discard" => Made(c.arg.of, "pending") \notin Items(v.invitations)
    BY <2>1, <2>3
  <2> QED BY <1>1, <1>2, <1>4, <2>4, ListFollowsSame
<1>5. /\ \A K : (Out(w2, K) <=> Out(w, K) \/ c.kind \in K)
      /\ \A K : One(w, K) /\ ~(c.kind \in K /\ Out(w, K)) => One(w2, K)
  BY DEF Adds
<1>6. ~Out(w2, {"invites"}) /\ One(w2, {"invites"})
  BY <1>3, <1>5 DEF InvitationsSound
<1>7. One(w2, {"invite"}) /\ (Out(w2, {"invite"}) => v2.creating)
  <2>1. One(w, {"invite"}) /\ (Out(w, {"invite"}) => v.creating)
    BY DEF InvitationsSound
  <2> QED BY <1>5, <2>1
<1> QED BY <1>2, <1>4, <1>6, <1>7 DEF InvitationsSound

LEMMA HouseholdInvites ==
  ASSUME HouseholdInv, NEW k \in Household!Keeping, NEW a, Household!Managing,
         wire' = Send(wire, k, a), world' = world, a.mount = view.mount,
         k = "invite" => ~view.creating,
         IF k = "invite" THEN view' = [view EXCEPT !.creating = TRUE] ELSE view' = view,
         k \in {"revoke", "discard"} => \E x \in Items(view.invitations) : x.id = a.of,
         k = "discard" => \E x \in Items(view.invitations) : x.id = a.of /\ x.status # "pending"
  PROVE  HouseholdInv'
<1>1. HouseholdType(view, wire, world) /\ ZoneSound(view, wire, world) /\ IsWire(wire) /\ DOMAIN view = HouseholdFields
  BY DEF HouseholdInv, HouseholdSound, HouseholdType
<1>4. /\ DOMAIN view' = HouseholdFields /\ view'.page = view.page /\ view'.at = view.at /\ view'.mount = view.mount
      /\ view'.household = view.household /\ view'.saving = view.saving /\ view'.promoted = view.promoted
      /\ view'.confirmed = view.confirmed /\ view'.refused = view.refused /\ view'.myRole = view.myRole
      /\ view'.roster = view.roster /\ view'.lost = view.lost /\ view'.invitations = view.invitations
      /\ view'.staged = view.staged /\ view'.confirming = view.confirming
      /\ view'.zone = view.zone /\ view'.picked = view.picked /\ (view.creating => view'.creating)
      /\ k = "invite" => view'.creating
  <2>1. CASE k = "invite"
    BY <1>1, <2>1 DEF HouseholdFields
  <2>2. CASE k # "invite"
    BY <1>1, <2>2
  <2> QED BY <2>1, <2>2
<1>5. PICK c : Adds(wire', wire, c) /\ c.kind = k /\ c.arg = a
  BY <1>1, SendAdds
<1>6. c.kind \notin {"household", "save", "roster", "transfer", "restore", "invites", "role", "remove"} \cup Owned
  BY <1>5 DEF Owned, Household!Keeping
<1>7. HouseholdType(view', wire', world)
  BY <1>1, <1>4, <1>5, <1>6, TypeSent
<1>8. ZoneSound(view', wire', world)
  BY <1>1, <1>4, <1>5, <1>6, ZoneSent
<1>9. ASSUME ~Eager, ~Gone(view', wire')
      PROVE  OwnerSound(view', wire', world) /\ RosterSound(view', wire', world) /\ InvitationsSound(view', wire', world)
  <2>1. ~Gone(view, wire)
    BY <1>4, <1>5, <1>9, GoneSent
  <2>2. OwnerSound(view, wire, world) /\ RosterSound(view, wire, world) /\ InvitationsSound(view, wire, world)
    BY <1>9, <2>1 DEF HouseholdInv, HouseholdSound
  <2>3. ~Out(wire, {"invites", "transfer"}) /\ view.household # {} /\ Household!Invites(view)
    BY <1>9, HouseholdWire DEF Household!Managing, Household!Patient, Household!Loaded
  <2>4. ~Out(wire, {"invites"}) /\ ~Out(wire, {"transfer"})
    BY <2>3 DEF Out
  <2>5. view.page = "mine" /\ view.myRole = Household!Organiser
    <3>1. Household!Household(view).admin = world.admin
      BY <2>2, <2>3, <2>4, OutRequests DEF OwnerSound
    <3> QED BY <2>2, <2>3, <3>1 DEF OwnerSound, Household!Invites, Household!canManage, Household!isOrganiser
  <2>6. OwnerSound(view', wire', world)
    BY <1>4, <1>5, <1>6, <2>2, <2>4, OwnerSent
  <2>7. RosterSound(view', wire', world)
    BY <1>4, <1>5, <1>6, <2>2, RosterSent
  <2>8. InvitationsSound(view', wire', world)
    BY <1>4, <1>5, <2>2, <2>3, <2>4, <2>5, InvitationsAsked
  <2> QED BY <2>6, <2>7, <2>8
<1> QED BY <1>7, <1>8, <1>9 DEF HouseholdInv, HouseholdSound

(* Somebody else takes an invitation up.                                   *)
LEMMA HouseholdIsJoined ==
  ASSUME HouseholdInv, Household!OtherAccepts
  PROVE  HouseholdInv'
<1>1. HouseholdType(view, wire, world) /\ ZoneSound(view, wire, world) /\ DOMAIN world = WorldFields
  BY DEF HouseholdInv, HouseholdSound, HouseholdType
<1>2. PICK list : world' = [world EXCEPT !.invitations = list, !.elsewhere = TRUE]
  <2>1. PICK i : world' = [world EXCEPT !.invitations[i].status = "accepted", !.elsewhere = TRUE]
    BY DEF Household!OtherAccepts
  <2> QED BY <2>1
<1>3. /\ DOMAIN world' = WorldFields /\ world'.admin = world.admin /\ world'.zone = world.zone
      /\ world'.roles = world.roles /\ world'.elsewhere = TRUE
  BY <1>1, <1>2 DEF WorldFields
<1>4. view' = view /\ wire' = wire
  BY DEF Household!OtherAccepts
<1>5. HouseholdType(view, wire, world')
  BY <1>1, <1>3 DEF HouseholdType
<1>6. ZoneSound(view, wire, world')
  BY <1>1, <1>3 DEF ZoneSound, ZoneRests
<1>7. OwnerSound(view, wire, world) => OwnerSound(view, wire, world')
  BY <1>3 DEF OwnerSound
<1>8. RosterSound(view, wire, world) => RosterSound(view, wire, world')
  <2>1. \A roster : RosterShows(roster, view, wire, world') <=> RosterShows(roster, view, wire, world)
    BY <1>3 DEF RosterShows, Unseen
  <2> QED BY <2>1 DEF RosterSound
<1>9. InvitationsSound(view, wire, world) => InvitationsSound(view, wire, world')
  BY <1>3 DEF InvitationsSound
<1> QED BY <1>4, <1>5, <1>6, <1>7, <1>8, <1>9 DEF HouseholdInv, HouseholdSound

(* What the user does, one by one.                                         *)
LEMMA HouseholdActs ==
  ASSUME HouseholdInv, NEW zone \in Household!Zones, NEW yes \in BOOLEAN, NEW m, NEW role, NEW id,
         \/ Household!TimezoneSelect(zone) \/ Household!AnswerZone(yes) \/ Household!setRole(yes)
         \/ Household!removeMember(m) \/ Household!HouseholdOwnerSelect(m) \/ Household!roleCell(m, role)
         \/ Household!revokeInvitation(id) \/ Household!removeInvitation(id)
         \/ Household!handleSubmit \/ Household!confirmTransfer \/ Household!restore \/ Household!leave
         \/ Household!addInvitation \/ Household!OtherAccepts
  PROVE  HouseholdInv'
<1>0. DOMAIN view = HouseholdFields /\ HouseholdType(view, wire, world) /\ ZoneSound(view, wire, world)
  BY DEF HouseholdInv, HouseholdSound, HouseholdType
<1>1. CASE Household!TimezoneSelect(zone)
  <2>1. view' = [view EXCEPT !.zone = zone, !.picked = TRUE] /\ wire' = wire /\ world' = world
    BY <1>1 DEF Household!TimezoneSelect
  <2>2. /\ DOMAIN view' = HouseholdFields /\ view'.page = view.page /\ view'.at = view.at /\ view'.mount = view.mount
        /\ view'.household = view.household /\ view'.saving = view.saving /\ view'.promoted = view.promoted
        /\ view'.confirmed = view.confirmed /\ view'.refused = view.refused /\ view'.myRole = view.myRole
        /\ view'.roster = view.roster /\ view'.lost = view.lost /\ view'.invitations = view.invitations
        /\ view'.creating = view.creating /\ view'.staged = view.staged /\ view'.confirming = view.confirming
        /\ view'.zone = zone /\ view'.picked
    BY <1>0, <2>1 DEF HouseholdFields
  <2> QED BY <2>1, <2>2, HouseholdShows
<1>2. CASE Household!AnswerZone(yes)
  <2>1. view.confirming /\ ~view.saving /\ view.household # {} /\ world' = world
    BY <1>0, <1>2 DEF Household!AnswerZone, ZoneSound
  <2>2. CASE yes
    <3>1. PICK v : v = [view EXCEPT !.confirmed = {view.zone}] /\ Household!saveForm(v)
      BY <1>2, <2>2 DEF Household!AnswerZone
    <3>2. v.confirmed = {view.zone} /\ v.zone = view.zone
      BY <1>0, <3>1 DEF HouseholdFields
    <3>4. Household!zoneSent(v) \subseteq v.confirmed
      BY <3>2 DEF Household!zoneSent
    <3> QED BY <2>1, <3>1, <3>4, HouseholdSaves
  <2>3. CASE ~yes
    <3>1. view' = [view EXCEPT !.confirming = FALSE] /\ wire' = wire
      BY <1>2, <2>3 DEF Household!AnswerZone
    <3>2. /\ DOMAIN view' = HouseholdFields /\ view'.page = view.page /\ view'.at = view.at /\ view'.mount = view.mount
          /\ view'.household = view.household /\ view'.saving = view.saving /\ view'.promoted = view.promoted
          /\ view'.confirmed = view.confirmed /\ view'.refused = view.refused /\ view'.myRole = view.myRole
          /\ view'.roster = view.roster /\ view'.lost = view.lost /\ view'.invitations = view.invitations
          /\ view'.creating = view.creating /\ view'.staged = view.staged /\ ~view'.confirming
          /\ view'.zone = view.zone /\ view'.picked = view.picked
      BY <1>0, <3>1 DEF HouseholdFields
    <3> QED BY <2>1, <3>1, <3>2, HouseholdShows
  <2> QED BY <2>2, <2>3
<1>3. CASE Household!setRole(yes)
  <2>1. view' = [view EXCEPT !.staged = <<>>] /\ world' = world /\ view.staged # <<>>
    BY <1>3 DEF Household!setRole
  <2>2. /\ DOMAIN view' = HouseholdFields /\ view'.page = view.page /\ view'.at = view.at /\ view'.mount = view.mount
        /\ view'.household = view.household /\ view'.saving = view.saving /\ view'.promoted = view.promoted
        /\ view'.confirmed = view.confirmed /\ view'.refused = view.refused /\ view'.myRole = view.myRole
        /\ view'.roster = view.roster /\ view'.lost = view.lost /\ view'.invitations = view.invitations
        /\ view'.creating = view.creating /\ view'.staged = <<>> /\ view'.confirming = view.confirming
        /\ view'.zone = view.zone /\ view'.picked = view.picked
    BY <1>0, <2>1 DEF HouseholdFields
  <2>3. CASE yes
    <3>1. PICK a : a.mount = view.mount /\ wire' = Send(wire, "role", a)
      <4>1. PICK a : a = [of |-> view.staged, mount |-> view.mount]
        OBVIOUS
      <4> QED BY <1>3, <2>3, <4>1, HouseholdWire DEF Household!setRole, Household!Ask
    <3>2. ~Eager => ~Out(wire, {"transfer"})
      BY <1>3, <2>3, HouseholdWire DEF Household!setRole, Household!Patient
    <3>3. RosterSound(view, wire, world) => view.household # {}
      BY <2>1 DEF RosterSound
    <3> QED BY <2>1, <2>2, <3>1, <3>2, <3>3, HouseholdAsks
  <2>4. CASE ~yes
    <3>1. wire' = wire
      BY <1>3, <2>4 DEF Household!setRole
    <3> QED BY <2>1, <2>2, <3>1, HouseholdShows
  <2> QED BY <2>3, <2>4
<1>4. CASE Household!removeMember(m)
  <2>1. view' = view /\ world' = world /\ view.roster # {}
    BY <1>4 DEF Household!removeMember
  <2>2. PICK a : a.mount = view.mount /\ wire' = Send(wire, "remove", a)
    <3>1. PICK a : a = [of |-> m, mount |-> view.mount]
      OBVIOUS
    <3> QED BY <1>4, <3>1, HouseholdWire DEF Household!removeMember, Household!Ask
  <2>3. RosterSound(view, wire, world) => view.household # {}
    BY <2>1 DEF RosterSound
  <2> QED BY <1>0, <2>1, <2>2, <2>3, HouseholdAsks
<1>5. CASE Household!HouseholdOwnerSelect(m)
  <2>1. view' = [view EXCEPT !.chosen = m] /\ wire' = wire /\ world' = world
    BY <1>5 DEF Household!HouseholdOwnerSelect
  <2>2. /\ DOMAIN view' = HouseholdFields /\ view'.page = view.page /\ view'.at = view.at /\ view'.mount = view.mount
        /\ view'.household = view.household /\ view'.saving = view.saving /\ view'.promoted = view.promoted
        /\ view'.confirmed = view.confirmed /\ view'.refused = view.refused /\ view'.myRole = view.myRole
        /\ view'.roster = view.roster /\ view'.lost = view.lost /\ view'.invitations = view.invitations
        /\ view'.creating = view.creating /\ view'.staged = view.staged /\ view'.confirming = view.confirming
        /\ view'.zone = view.zone /\ view'.picked = view.picked
    BY <1>0, <2>1 DEF HouseholdFields
  <2> QED BY <2>1, <2>2, HouseholdShows
<1>6. CASE Household!roleCell(m, role)
  <2>1. view' = [view EXCEPT !.staged = <<m, role>>] /\ wire' = wire /\ world' = world /\ view.roster # {}
    BY <1>6 DEF Household!roleCell
  <2>2. /\ DOMAIN view' = HouseholdFields /\ view'.page = view.page /\ view'.at = view.at /\ view'.mount = view.mount
        /\ view'.household = view.household /\ view'.saving = view.saving /\ view'.promoted = view.promoted
        /\ view'.confirmed = view.confirmed /\ view'.refused = view.refused /\ view'.myRole = view.myRole
        /\ view'.roster = view.roster /\ view'.lost = view.lost /\ view'.invitations = view.invitations
        /\ view'.creating = view.creating /\ view'.confirming = view.confirming
        /\ view'.zone = view.zone /\ view'.picked = view.picked
    BY <1>0, <2>1 DEF HouseholdFields
  <2>3. RosterSound(view, wire, world) => view.household # {}
    BY <2>1 DEF RosterSound
  <2> QED BY <2>1, <2>2, <2>3, HouseholdShows
<1>7. CASE Household!revokeInvitation(id)
  <2>1. Household!Managing /\ view' = view /\ world' = world
    BY <1>7 DEF Household!revokeInvitation
  <2>2. PICK a : a.of = id /\ a.mount = view.mount /\ wire' = Send(wire, "revoke", a)
    <3>1. PICK a : a = [of |-> id, mount |-> view.mount]
      OBVIOUS
    <3> QED BY <1>7, <3>1, HouseholdWire DEF Household!revokeInvitation, Household!Ask
  <2>3. \E x \in Items(view.invitations) : x.id = id
    BY <1>7 DEF Household!revokeInvitation, Items
  <2>4. "revoke" \in Household!Keeping
    BY DEF Household!Keeping
  <2> QED BY <2>1, <2>2, <2>3, <2>4, HouseholdInvites
<1>8. CASE Household!removeInvitation(id)
  <2>1. Household!Managing /\ view' = view /\ world' = world
    BY <1>8 DEF Household!removeInvitation
  <2>2. PICK a : a.of = id /\ a.mount = view.mount /\ wire' = Send(wire, "discard", a)
    <3>1. PICK a : a = [of |-> id, mount |-> view.mount]
      OBVIOUS
    <3> QED BY <1>8, <3>1, HouseholdWire DEF Household!removeInvitation, Household!Ask
  <2>3. \E x \in Items(view.invitations) : x.id = id /\ x.status # "pending"
    BY <1>8 DEF Household!removeInvitation, Household!isLivePending, Items
  <2>4. "discard" \in Household!Keeping
    BY DEF Household!Keeping
  <2> QED BY <2>1, <2>2, <2>3, <2>4, HouseholdInvites
<1>9. CASE Household!handleSubmit
  <2>1. world' = world /\ ~view.saving /\ (view.household # {} \/ view.page \in {"new", "admin_new"})
    BY <1>9 DEF Household!handleSubmit, Household!HasForm, Household!canManage, Household!Loaded
  <2>2. CASE Household!timezoneMoved(view)
    <3>1. view' = [view EXCEPT !.confirming = TRUE] /\ wire' = wire /\ view.household # {}
      BY <1>9, <2>2 DEF Household!handleSubmit, Household!timezoneMoved, Household!Loaded
    <3>2. /\ DOMAIN view' = HouseholdFields /\ view'.page = view.page /\ view'.at = view.at /\ view'.mount = view.mount
          /\ view'.household = view.household /\ view'.saving = view.saving /\ view'.promoted = view.promoted
          /\ view'.confirmed = view.confirmed /\ view'.refused = view.refused /\ view'.myRole = view.myRole
          /\ view'.roster = view.roster /\ view'.lost = view.lost /\ view'.invitations = view.invitations
          /\ view'.creating = view.creating /\ view'.staged = view.staged
          /\ view'.zone = view.zone /\ view'.picked = view.picked
      BY <1>0, <3>1 DEF HouseholdFields
    <3> QED BY <2>1, <3>1, <3>2, HouseholdShows
  <2>3. CASE ~Household!timezoneMoved(view)
    <3>1. Household!saveForm(view)
      BY <1>9, <2>3 DEF Household!handleSubmit
    <3>3. view.household # {} => Household!zoneSent(view) \subseteq view.confirmed
      BY <2>3 DEF Household!zoneSent, Household!Loaded
    <3> QED BY <2>1, <3>1, <3>3, HouseholdSaves
  <2> QED BY <2>2, <2>3
<1>10. CASE Household!confirmTransfer
  <2>1. /\ view' = view /\ world' = world /\ view.household # {}
        /\ view.page = "mine" => Household!Household(view).admin = Household!Me
    BY <1>10 DEF Household!confirmTransfer, Household!canManage, Household!Loaded
  <2>2. PICK a : wire' = Send(wire, "transfer", a)
    BY <1>10, HouseholdWire DEF Household!confirmTransfer, Household!Ask
  <2>3. ASSUME ~Eager
        PROVE  ~Out(wire, {"transfer"}) /\ ~Out(wire, {"restore"}) /\ ~Out(wire, {"role"} \cup Household!Keeping)
    <3>1. ~Out(wire, {"restore", "transfer", "role"} \cup Household!Keeping)
      BY <1>10, <2>3, HouseholdWire DEF Household!confirmTransfer, Household!Patient
    <3> QED BY <3>1 DEF Out
  <2> QED BY <2>1, <2>2, <2>3, HouseholdGives
<1>11. CASE Household!restore
  <2>1. view' = view /\ world' = world /\ view.household # {} /\ view.page = "admin"
    BY <1>11 DEF Household!restore, Household!Loaded
  <2>2. PICK a : wire' = Send(wire, "restore", a)
    BY <1>11, HouseholdWire DEF Household!restore, Household!Ask
  <2>3. ~Eager => ~Out(wire, {"transfer"}) /\ ~Out(wire, {"restore"})
    <3>1. ~Eager => ~Out(wire, {"restore", "transfer"})
      BY <1>11, HouseholdWire DEF Household!restore, Household!Patient
    <3> QED BY <3>1 DEF Out
  <2> QED BY <2>1, <2>2, <2>3, HouseholdGives
<1>12. CASE Household!leave
  <2>1. view' = view /\ world' = world /\ view.household # {}
    BY <1>12 DEF Household!leave, Household!Loaded
  <2>2. PICK a : a.mount = view.mount /\ wire' = Send(wire, "leave", a)
    <3>1. PICK a : a = [of |-> Household!NoOne, mount |-> view.mount]
      OBVIOUS
    <3> QED BY <1>12, <3>1, HouseholdWire DEF Household!leave, Household!Ask
  <2> QED BY <1>0, <2>1, <2>2, HouseholdAsks
<1>13. CASE Household!addInvitation
  <2>1. Household!Managing /\ ~view.creating /\ view' = [view EXCEPT !.creating = TRUE] /\ world' = world
    BY <1>13 DEF Household!addInvitation
  <2>3. PICK a : a.mount = view.mount /\ wire' = Send(wire, "invite", a)
    <3>1. PICK a : a = [of |-> Household!NoOne, mount |-> view.mount]
      OBVIOUS
    <3> QED BY <1>13, <3>1, HouseholdWire DEF Household!addInvitation, Household!Ask
  <2>4. "invite" \in Household!Keeping
    BY DEF Household!Keeping
  <2> QED BY <2>1, <2>3, <2>4, HouseholdInvites
<1>14. CASE Household!OtherAccepts
  BY <1>14, HouseholdIsJoined
<1> QED BY <1>1, <1>2, <1>3, <1>4, <1>5, <1>6, <1>7, <1>8, <1>9, <1>10, <1>11, <1>12, <1>13, <1>14

-----------------------------------------------------------------------------
(* The invariant holds, and what follows                                   *)

LEMMA HouseholdOpens ==
  ASSUME NEW p \in {"mine", "new", "admin_new", "admin"}, NEW role, NEW admin, NEW zone, NEW deleted,
         Household!Open(p, role, admin, zone, deleted), admin = Household!Me => role = Household!Organiser
  PROVE  HouseholdInv
<1>1. PICK g, list, roles :
        /\ g = [of |-> Household!NoOne, mount |-> 1] /\ list = <<[id |-> 1, status |-> "pending"]>>
        /\ roles = [m \in Members |-> IF m = Household!Me THEN role
                                      ELSE IF m = admin THEN Household!Organiser ELSE Household!Helper]
  OBVIOUS
<1>2. PICK z : z = Household!browserTimezone(zone)
  OBVIOUS
<1>3. world = [admin |-> admin, zone |-> zone, deleted |-> deleted, roles |-> roles,
               invitations |-> list, made |-> 1, elsewhere |-> FALSE]
  BY <1>1 DEF Household!Open
<1>4. view = [page |-> p, at |-> "page", mount |-> 1, loading |-> p \in {"mine", "admin"},
              error |-> FALSE, lost |-> FALSE, refused |-> "none", household |-> {}, myRole |-> role,
              zone |-> z, picked |-> FALSE, saving |-> FALSE,
              confirming |-> FALSE, confirmed |-> {}, roster |-> {}, promoted |-> {}, staged |-> <<>>,
              candidates |-> {}, chosen |-> Household!NoOne, invitations |-> <<>>, creating |-> FALSE]
  BY <1>2 DEF Household!Open
<1>5. wire = IF p \in {"mine", "admin"} THEN <<Call("household", g)>> ELSE <<>>
  BY <1>1, HouseholdWire DEF Household!Open
<1>6. /\ DOMAIN view = HouseholdFields /\ view.page = p /\ view.at = "page" /\ view.household = {}
      /\ view.myRole = role /\ view.zone = z /\ view.picked = FALSE /\ view.saving = FALSE
      /\ view.confirming = FALSE /\ view.roster = {} /\ view.promoted = {} /\ view.staged = <<>>
      /\ view.refused = "none" /\ view.mount = 1
  BY <1>4 DEF HouseholdFields
<1>7. /\ DOMAIN world = WorldFields /\ world.admin = admin /\ world.roles = roles /\ world.invitations = list
      /\ world.made = 1 /\ world.elsewhere = FALSE
  BY <1>3 DEF WorldFields
<1>8. z \in Household!Zones
  BY <1>2 DEF Household!browserTimezone, Household!Zones
<1>9. /\ IsWire(wire) /\ \A K : One(wire, K)
      /\ \A r \in Requests(wire) : p \in {"mine", "admin"} /\ r.kind = "household" /\ r.is = "sent"
      /\ \A K : Out(wire, K) => "household" \in K /\ p \in {"mine", "admin"}
  <2>1. CASE p \in {"mine", "admin"}
    <3>1. wire = <<Call("household", g)>>
      BY <1>5, <2>1
    <3> QED BY <2>1, <3>1, FirstRequest, CallFields
  <2>2. CASE p \notin {"mine", "admin"}
    <3>1. wire = <<>>
      BY <1>5, <2>2
    <3> QED BY <3>1, NoRequests
  <2> QED BY <2>1, <2>2
<1>10. HouseholdType(view, wire, world)
  BY <1>6, <1>7, <1>8, <1>9 DEF HouseholdType
<1>11. ZoneSound(view, wire, world)
  BY <1>6, <1>9 DEF ZoneSound, ZoneRests, Copying
<1>12. OwnerSound(view, wire, world)
  <2>1. Household!Me \in Members
    BY PagesAssumption DEF Household!MembersAssumption, Household!Me
  <2>2. Household!Me \in DOMAIN roles /\ roles[Household!Me] = role
    BY <1>1, <2>1
  <2>3. ~Out(wire, {"transfer"}) /\ ~Out(wire, {"role"} \cup Household!Keeping)
    BY <1>9 DEF Household!Keeping
  <2>4. \A r \in Requests(wire) : ~Copying(r) /\ r.kind \notin {"role", "remove", "refresh"} \cup Household!Keeping
    BY <1>9 DEF Copying, Household!Keeping
  <2> QED BY <1>6, <1>7, <1>9, <2>2, <2>3, <2>4 DEF OwnerSound
<1>13. RosterSound(view, wire, world)
  BY <1>6, <1>9 DEF RosterSound
<1>14. InvitationsSound(view, wire, world)
  <2>1. Falling(list) /\ \A y \in Items(list) : y.id <= 1
    <3>1. list \in Seq({[id |-> 1, status |-> "pending"]}) /\ DOMAIN list = {1} /\ list[1] = [id |-> 1, status |-> "pending"]
      BY <1>1
    <3> QED BY <3>1 DEF Falling, Items
  <2>2. ~Out(wire, {"invites"} \cup Household!Keeping) /\ ~Out(wire, {"invites"}) /\ ~Out(wire, {"invite"})
    BY <1>9 DEF Household!Keeping
  <2>3. Answered(wire, "invites") = {}
    BY <1>9 DEF Answered
  <2> QED BY <1>6, <1>7, <1>9, <2>1, <2>2, <2>3 DEF InvitationsSound
<1> QED BY <1>10, <1>11, <1>12, <1>13, <1>14 DEF HouseholdInv, HouseholdSound

LEMMA HouseholdStart ==
  ASSUME Household!Init PROVE HouseholdInv
<1>1. CASE \E role \in {Household!Helper, Household!Organiser} :
             Household!Open("mine", role, 2, Household!Rome, FALSE)
  <2>1. PICK p, role, admin, deleted :
          p = "mine" /\ admin = 2 /\ deleted = FALSE /\ Household!Open(p, role, admin, Household!Rome, deleted)
    BY <1>1
  <2>2. admin # Household!Me /\ p \in {"mine", "new", "admin_new", "admin"}
    BY <2>1 DEF Household!Me
  <2> QED BY <2>1, <2>2, HouseholdOpens
<1>2. CASE \E zone \in {Household!Rome, Household!Legacy}, p \in {"mine", "new", "admin_new"} :
             Household!Open(p, Household!Organiser, Household!Me, zone, FALSE)
  BY <1>2, HouseholdOpens
<1>3. CASE \E deleted \in BOOLEAN : Household!Open("admin", Household!Helper, 2, Household!Rome, deleted)
  BY <1>3, HouseholdOpens DEF Household!Me
<1> QED BY <1>1, <1>2, <1>3 DEF Household!Init

LEMMA HouseholdStep ==
  ASSUME HouseholdInv, Household!Next PROVE HouseholdInv'
<1>1. ASSUME NEW i \in DOMAIN wire,
             \/ Household!ServeChange(i) \/ Household!ServeInvitation(i) \/ Household!ServeRead(i) \/ Household!Lose(i)
             \/ Household!ReceiveHousehold(i) \/ Household!ReceiveSave(i) \/ Household!ReceiveRoster(i)
             \/ Household!ReceiveMember(i) \/ Household!ReceiveCandidates(i) \/ Household!ReceiveTransfer(i)
             \/ Household!ReceiveRestore(i) \/ Household!ReceiveLeave(i) \/ Household!ReceiveRefresh(i)
             \/ Household!ReceiveInvitations(i) \/ Household!ReceiveInvitation(i)
      PROVE  HouseholdInv'
  BY <1>1, HouseholdServesChange, HouseholdServesInvitation, HouseholdReads, HouseholdLoses,
     HouseholdReceivesIt, HouseholdWontCome, HouseholdSaved, HouseholdTakesRoster, HouseholdMemberChanged,
     HouseholdOwnersCome, HouseholdTransferred, HouseholdRestored, HouseholdLeft, HouseholdRefreshes,
     HouseholdTakesInvitations, HouseholdTakesInvitation
<1>2. ASSUME NEW zone \in Household!Zones, NEW yes \in BOOLEAN, NEW m, NEW role, NEW id,
             \/ Household!TimezoneSelect(zone) \/ Household!AnswerZone(yes) \/ Household!setRole(yes)
             \/ Household!removeMember(m) \/ Household!HouseholdOwnerSelect(m) \/ Household!roleCell(m, role)
             \/ Household!revokeInvitation(id) \/ Household!removeInvitation(id)
             \/ Household!handleSubmit \/ Household!confirmTransfer \/ Household!restore \/ Household!leave
             \/ Household!addInvitation \/ Household!OtherAccepts
      PROVE  HouseholdInv'
  BY <1>2, HouseholdActs
<1>3. Household!UTC \in Household!Zones /\ TRUE \in BOOLEAN
  BY DEF Household!Zones
<1> QED BY <1>1, <1>2, <1>3 DEF Household!Next

HouseholdOnly == page = "household" => HouseholdInv

LEMMA SpecImpliesHouseholdOnly == Spec => []HouseholdOnly
<1>1. Init => HouseholdOnly
  BY HouseholdStart DEF Init, HouseholdOnly
<1>2. HouseholdOnly /\ [Next]_vars => HouseholdOnly'
  <2> SUFFICES ASSUME HouseholdOnly, [Next]_vars, page' = "household" PROVE HouseholdInv'
    BY DEF HouseholdOnly
  <2>1. CASE UNCHANGED vars
    BY <2>1 DEF vars, HouseholdOnly, HouseholdInv
  <2>2. CASE Next
    <3>1. page = "household" /\ Household!Next
      BY <2>2 DEF Next
    <3> QED BY <3>1, HouseholdStep DEF HouseholdOnly
  <2> QED BY <2>1, <2>2
<1> QED BY <1>1, <1>2, PTL DEF Spec

(* For every number of members, of requests and of moves, and for a user   *)
(* in a hurry as well: a household's zone is sent only when it was moved   *)
(* and the re-dating of its chores confirmed, and no rename is turned down *)
(* for a zone that was never touched (HouseholdForm.tsx:63-85,             *)
(* HouseholdEdit.tsx:59-71).                                               *)
THEOREM SpecImpliesZoneMovesWhenConfirmed == Spec => []ZoneMovesWhenConfirmed
<1>1. HouseholdOnly => ZoneMovesWhenConfirmed
  <2> SUFFICES ASSUME ZoneSound(view, wire, world) PROVE Household!ZoneMovesWhenConfirmed
    BY DEF HouseholdOnly, HouseholdInv, HouseholdSound, ZoneMovesWhenConfirmed
  <2>1. \A i \in DOMAIN wire : wire[i] \in Requests(wire)
    BY DEF Requests
  <2> QED BY <2>1 DEF ZoneSound, Household!ZoneMovesWhenConfirmed, Household!Loaded
<1> QED BY <1>1, SpecImpliesHouseholdOnly, PTL

(* At rest nothing is outstanding.                                         *)
LEMMA HouseholdRests ==
  ASSUME ~Eager, HouseholdInv, Household!AtRest
  PROVE  /\ OwnerSound(view, wire, world) /\ RosterSound(view, wire, world) /\ InvitationsSound(view, wire, world)
         /\ view.household # {} /\ view.page \in {"mine", "admin"} /\ ~view.lost
         /\ Requests(wire) = {} /\ \A K : ~Out(wire, K)
         /\ Household!Household(view).admin = world.admin
         /\ Household!Invites(view) => /\ view.page = "mine" /\ view.myRole = Household!Organiser
                                       /\ Household!MayInvite
<1>1. /\ view.at = "page" /\ wire = <<>> /\ ~view.lost /\ view.household # {}
  BY DEF Household!AtRest, Household!Loaded
<1>2. Requests(wire) = {} /\ \A K : ~Out(wire, K)
  BY <1>1, NoRequests
<1>3. ~Gone(view, wire)
  BY <1>1, <1>2 DEF Gone
<1>4. OwnerSound(view, wire, world) /\ RosterSound(view, wire, world) /\ InvitationsSound(view, wire, world)
  BY <1>3 DEF HouseholdInv, HouseholdSound
<1>5. view.page \in {"mine", "admin"}
  BY <1>1 DEF HouseholdInv, HouseholdSound, HouseholdType
<1>6. Household!Household(view).admin = world.admin
  BY <1>1, <1>2, <1>4 DEF OwnerSound
<1>7. Household!Invites(view) => view.page = "mine" /\ view.myRole = Household!Organiser /\ Household!MayInvite
  BY <1>4, <1>6 DEF OwnerSound, Household!Invites, Household!canManage, Household!isOrganiser, Household!MayInvite,
     Household!Member
<1> QED BY <1>1, <1>2, <1>4, <1>5, <1>6, <1>7

(* For every number of members, of requests and of moves: whatever a user  *)
(* who waits for what is under way has changed, been refused, removed or   *)
(* given away, the page at rest shows the members there are, and offers no *)
(* role, no removal and no invitation that the API would turn down         *)
(* (permissions.ts:96-118, HouseholdEdit.tsx:93-145).                      *)
THEOREM SpecImpliesOfferedIsAllowed == ASSUME ~Eager PROVE Spec => []OfferedIsAllowed
<1>1. HouseholdOnly => OfferedIsAllowed
  <2> SUFFICES ASSUME HouseholdInv, Household!AtRest
               PROVE  /\ DOMAIN Household!RosterOf(view) = DOMAIN world.roles
                      /\ \A m \in DOMAIN world.roles \ view.promoted : Household!RosterOf(view)[m] = world.roles[m]
                      /\ \A m \in DOMAIN world.roles :
                           /\ \A role \in Household!assignableRoles(view, m, Household!RosterOf(view)[m]) :
                                Household!MayAssign(m, role)
                           /\ Household!Removable(view, m) => Household!MayRemove(m)
                      /\ Household!Invites(view) => Household!MayInvite
    BY DEF HouseholdOnly, OfferedIsAllowed, Household!OfferedIsAllowed
  <2>1. /\ OwnerSound(view, wire, world) /\ RosterSound(view, wire, world)
        /\ view.household # {} /\ view.page \in {"mine", "admin"} /\ ~view.lost
        /\ Requests(wire) = {} /\ \A K : ~Out(wire, K)
        /\ Household!Household(view).admin = world.admin
        /\ Household!Invites(view) => Household!MayInvite
    BY HouseholdRests
  <2>2. ~Rereading(view, wire) /\ Unseen(view, wire, world) = view.promoted
    BY <2>1 DEF Rereading, Unseen
  <2>3. PICK roster : view.roster = {roster} /\ RosterShows(roster, view, wire, world)
    BY <2>1, <2>2 DEF RosterSound
  <2>4. Household!RosterOf(view) = roster
    BY <2>3 DEF Household!RosterOf
  <2>5. DOMAIN roster = DOMAIN world.roles /\ \A m \in DOMAIN world.roles \ view.promoted : roster[m] = world.roles[m]
    BY <2>2, <2>3 DEF RosterShows
  <2>6. Household!canManage(view) => Household!InCharge
    BY <2>1 DEF Household!canManage, Household!InCharge
  <2>7. ~Household!canManage(view) =>
          /\ view.promoted = {} /\ Household!Me \in DOMAIN world.roles /\ view.myRole = world.roles[Household!Me]
    BY <2>1 DEF OwnerSound, Household!canManage, Household!Loaded
  <2>8. ASSUME NEW m \in DOMAIN world.roles
        PROVE  /\ \A role \in Household!assignableRoles(view, m, roster[m]) : Household!MayAssign(m, role)
               /\ Household!Removable(view, m) => Household!MayRemove(m)
    <3>1. Household!Member(m)
      BY DEF Household!Member
    <3>2. CASE Household!canManage(view)
      BY <2>1, <2>6, <3>1, <3>2 DEF Household!assignableRoles, Household!MayAssign, Household!Removable, Household!MayRemove
    <3>3. CASE ~Household!canManage(view)
      <4>1. roster[m] = world.roles[m] /\ Household!Member(Household!Me)
        BY <2>5, <2>7, <3>3 DEF Household!Member
      <4> QED BY <2>1, <2>7, <3>1, <3>3, <4>1
              DEF Household!assignableRoles, Household!MayAssign, Household!Removable, Household!isOrganiser
    <3> QED BY <3>2, <3>3
  <2> QED BY <2>1, <2>4, <2>5, <2>8
<1> QED BY <1>1, SpecImpliesHouseholdOnly, PTL

(* For every number of members, of requests and of moves: the list of      *)
(* invitations, which the page keeps by hand from one answer at a time, is *)
(* the API's own at rest, in its order, and "Add member" stops where the   *)
(* API does (HouseholdInvitations.tsx:45-114).                             *)
THEOREM SpecImpliesInvitationsAreCurrent == ASSUME ~Eager PROVE Spec => []InvitationsAreCurrent
<1>1. HouseholdOnly => InvitationsAreCurrent
  <2> SUFFICES ASSUME HouseholdInv, Household!AtRest, Household!Invites(view), ~world.elsewhere
               PROVE  /\ view.invitations = world.invitations
                      /\ Household!atLimit(view) <=> Household!Cardinality(Household!Pending) >= MAX_PENDING
    BY DEF HouseholdOnly, InvitationsAreCurrent, Household!InvitationsAreCurrent
  <2>1. /\ InvitationsSound(view, wire, world) /\ view.household # {} /\ ~view.lost
        /\ Requests(wire) = {} /\ ~Out(wire, {"invites"})
        /\ view.page = "mine" /\ view.myRole = Household!Organiser
    BY HouseholdRests
  <2>2. Falling(world.invitations) /\ ListFollows(view, wire, world)
    BY <2>1 DEF InvitationsSound
  <2>3. \A k : Answered(wire, k) = {}
    BY <2>1 DEF Answered
  <2>4. Falling(view.invitations) /\ \A x \in Items(view.invitations) : x \in Items(world.invitations)
    <3>1. \A x \in Items(view.invitations) : x.status \in {"pending", "revoked"}
      BY <2>2, FallingItems DEF ListFollows
    <3> QED BY <2>2, <2>3, <3>1 DEF ListFollows
  <2>5. \A y \in Items(world.invitations) : y \in Items(view.invitations)
    <3>1. ASSUME NEW y \in Items(world.invitations) PROVE \E x \in Items(view.invitations) : x.id = y.id
      <4>1. y.id \in Ids(view.invitations)
        BY <2>2, <2>3 DEF ListFollows
      <4> QED BY <4>1, ItemsIds
    <3>2. \A x, y \in Items(world.invitations) : x.id = y.id => x = y
      BY <2>2, FallingItems
    <3> QED BY <2>4, <3>1, <3>2
  <2>6. view.invitations = world.invitations
    <3>1. Items(view.invitations) = Items(world.invitations)
      BY <2>4, <2>5
    <3> QED BY <2>2, <2>4, <3>1, FallingSame
  <2>7. Household!livePending(view) = Household!Pending
    BY <2>6 DEF Household!livePending, Household!Pending
  <2> QED BY <2>6, <2>7 DEF Household!atLimit
<1> QED BY <1>1, SpecImpliesHouseholdOnly, PTL

=============================================================================
