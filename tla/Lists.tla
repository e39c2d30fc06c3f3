-------------------------------- MODULE Lists --------------------------------
(***************************************************************************)
(* Lists that are judged line by line, each line by those before it: the   *)
(* contacts a tutor has pasted (pdr-identity), the secrets a service needs *)
(* to start (pdr-core), the consents that are shown to whom they are about *)
(* (pdr-identity).                                                         *)
(***************************************************************************)
EXTENDS Integers, SequencesExt

CONSTANT MostLines      \* kMostLines

ASSUME ListsAssumption == MostLines \in Nat

-----------------------------------------------------------------------------
(* Contacts.  A piece is what stands between two separators: "" when there *)
(* is nothing, "?" when Email::Parse does not take it, else its mail.      *)

\* Mutant: compared with the line before it only.
JudgedByTheLast(lines, piece) ==
    IF piece = "?" THEN "malformed"
    ELSE IF lines # <<>> /\ lines[Len(lines)].mail = piece THEN "repeated_in_list"
    ELSE "ready"

Judged(lines, piece) ==
    IF piece = "?" THEN "malformed"
    ELSE IF \E n \in DOMAIN lines : lines[n].mail = piece THEN "repeated_in_list"
    ELSE "ready"

\* ContactList::Parse
Contacts(pieces) ==
    LET take(lines, piece) ==
            IF piece = "" \/ Len(lines) >= MostLines THEN lines
            ELSE Append(lines, [mail |-> piece, verdict |-> Judged(lines, piece)])
    IN  FoldLeft(take, <<>>, pieces)

\* ContactList::Ready
Ready(lines) == {n \in DOMAIN lines : lines[n].verdict = "ready"}

-----------------------------------------------------------------------------
(* Secrets.  A spec is [name, purpose, awaits], where who will read a      *)
(* secret that nobody reads yet is in awaits.                              *)

RequiredNow(spec) == spec.awaits = {}

\* Mutant: only secrets of one purpose are compared.
ClashesInPurpose(spec, taken, found) ==
    \E other \in taken : found[other.name] = found[spec.name] /\ other.purpose = spec.purpose

\* A secret that has been taken is the same.
Clashes(spec, taken, found) == \E other \in taken : found[other.name] = found[spec.name]

\* InspectSecrets: what is wrong with the secrets found, and those taken.
InspectSecrets(registry, found) ==
    LET complain(seen, spec, reason) ==
            [seen EXCEPT !.complaints = Append(@, [name |-> spec.name, reason |-> reason])]
        inspect(seen, spec) ==
            IF ~RequiredNow(spec) THEN seen
            ELSE IF spec.name \notin DOMAIN found THEN complain(seen, spec, "missing")
            ELSE IF found[spec.name] = "" THEN complain(seen, spec, "blank")
            ELSE IF Clashes(spec, seen.taken, found) THEN complain(seen, spec, "shared")
            ELSE [seen EXCEPT !.taken = @ \cup {spec}]
    IN  FoldLeft(inspect, [complaints |-> <<>>, taken |-> {}], registry)

\* VerifySecrets: whether the service starts.
VerifySecrets(registry, found) == InspectSecrets(registry, found).complaints = <<>>

-----------------------------------------------------------------------------
(* Consents to the processing of data *)

\* ConsentRecord::Give and ::Withdrawn
ConsentGiven(kind, version, at) ==
    [kind |-> kind, version |-> version, given |-> at, withdrawn |-> {}]

WithdrawnAt(record, at) == IF at < record.given THEN record ELSE [record EXCEPT !.withdrawn = {at}]

\* ConsentRecord::IsLiveAt
IsLiveAt(record, moment) == \A end \in record.withdrawn : moment < end

NeedsReacceptance(accepted, current, substantialBetween) ==
    accepted < current /\ substantialBetween

\* Mutant: what has been withdrawn is accepted.
AcceptedEver(records, now) ==
    {record.version : record \in {r \in records : r.kind = "processing"}}

Accepted(records, now) ==
    {record.version :
        record \in {r \in records : r.kind = "processing" /\ IsLiveAt(r, now)}}

\* ShowMyData: whether a person is asked to accept the list again; `substantial`
\* are the versions that changed what is collected or to whom it is given.
AsksToAcceptAgain(records, now, current, substantial) ==
    LET accepted == Accepted(records, now)
    IN  \/ accepted = {}
        \/ LET last == Max(accepted)
           IN  NeedsReacceptance(last, current,
                                 \E v \in substantial : v > last /\ v <= current)
=============================================================================
