------------------------------ MODULE Holidays ------------------------------
(***************************************************************************)
(* National and organization holidays: holiday.service.ts with the routes  *)
(* holidays.ts (of an organization's admins) and masterHolidays.ts (of the *)
(* super admin).                                                           *)
(*                                                                         *)
(* The database keeps one row of an organization for a date; the rows of   *)
(* no organization, the master holidays, are kept apart only by a check    *)
(* before they are created.  Lists that are gone through row by row are    *)
(* requests of their own here.  The names of a date are the listed one and *)
(* any other.                                                              *)
(***************************************************************************)
EXTENDS Naturals, FiniteSets

CONSTANTS
    Orgs, SuperAdmin,  \* who sends requests
    Dates,             \* the days of a BS year
    Listed,            \* those in the list of the API, or in the built-in one
    Lists,             \* requests going through a list at once
    MaxHolidays        \* bound on rows ever created
ASSUME HolidaysAssumption ==
    Listed \subseteq Dates /\ SuperAdmin \notin Orgs /\ MaxHolidays \in Nat

VARIABLES
    masters,      \* the Holiday rows without an organization
    own,          \* the row of each organization on each date: none or one
    made,         \* how many rows have been created
    listing       \* the requests that go through a list
holidayVars == <<masters, own, made, listing>>

-----------------------------------------------------------------------------
Names == {"listed", "other"}
\* The super admin's form for a listed holiday has two types, that for
\* any holiday, national ones included, has four.
MasterTypes == {"PUBLIC_HOLIDAY", "RESTRICTED_HOLIDAY"}
Types == MasterTypes \cup {"ORGANIZATION_HOLIDAY", "WORKING_DAY_OVERRIDE"}
Off == {"PUBLIC_HOLIDAY", "ORGANIZATION_HOLIDAY"}
OwnRow == [name: Names, type: Types, active: BOOLEAN]
MasterRow == [id: 1..MaxHolidays, date: Dates, name: Names, type: Types,
              active: BOOLEAN]
\* by: who asked.  todo: the rows an import still has to copy.  found: the
\* date on which a sync or the super admin found no master holiday yet.
Listing == [by: Orgs \cup {SuperAdmin}, todo: SUBSET MasterRow,
            found: SUBSET Dates]

MasterOn(d) == {m \in masters : m.date = d}
Becomes(l, request) == listing' = [listing EXCEPT ![l] = request]
Ready(l) == listing[l] = {}

HolidayInit ==
    /\ masters = {} /\ made = 0
    /\ own = [o \in Orgs |-> [d \in Dates |-> {}]]
    /\ listing = [l \in Lists |-> {}]

Made == made < MaxHolidays /\ made' = made + 1
NewMaster(d, name, type) ==
    /\ Made
    /\ masters' = masters \cup {[id |-> made', date |-> d, name |-> name,
                                 type |-> type, active |-> TRUE]}

\* One date of a sync, by any admin, or of the super admin's form: a look
\* for a master holiday of the date, and its creation.
MasterRead(l, by, d) ==
    /\ Ready(l)
    /\ d \in Listed \/ by = SuperAdmin
    /\ MasterOn(d) = {}
    /\ Becomes(l, {[by |-> by, todo |-> {}, found |-> {d}]})
    /\ UNCHANGED <<masters, own, made>>
MasterCreate(l) ==
    \E r \in listing[l] : \E d \in r.found :
        /\ \/ d \in Listed /\ NewMaster(d, "listed", "PUBLIC_HOLIDAY")
           \/ /\ r.by = SuperAdmin
              /\ \E type \in MasterTypes : NewMaster(d, "other", type)
        /\ Becomes(l, {})
        /\ UNCHANGED own

\* The active master holidays are copied one by one.  A row of the same name
\* is skipped, one of another name violates the key and ends the import.
ImportRead(l, o) ==
    /\ Ready(l)
    /\ \E m \in masters : m.active
    /\ Becomes(l, {[by |-> o, todo |-> {m \in masters : m.active},
                    found |-> {}]})
    /\ UNCHANGED <<masters, own, made>>
ImportNext(l) ==
    \E r \in listing[l] : \E m \in r.todo :
        LET before == own[r.by][m.date]
            rest == {[r EXCEPT !.todo = @ \ {m}]}
        IN  /\ \/ /\ before = {} /\ Made
                  /\ own' = [own EXCEPT ![r.by][m.date] =
                               {[name |-> m.name, type |-> m.type,
                                 active |-> TRUE]}]
               \/ before # {} /\ UNCHANGED <<own, made>>
            /\ Becomes(l, IF \A b \in before : b.name = m.name
                          THEN {x \in rest : x.todo # {}} ELSE {})
            /\ UNCHANGED masters
ListingFails(l) ==
    /\ ~Ready(l)
    /\ Becomes(l, {})
    /\ UNCHANGED <<masters, own, made>>

\* An admin's own holidays; the super admin's have no organization, may be
\* of any type too, and are not compared with those there are.  The mutant has no key on the date.
CreateOwn_Unkeyed(o, d, row) ==
    /\ own' = [own EXCEPT ![o][d] = @ \cup {row}]
    /\ Made
    /\ UNCHANGED <<masters, listing>>
CreateOwn(o, d, row) ==
    /\ own[o][d] = {}
    /\ own' = [own EXCEPT ![o][d] = {row}]
    /\ Made
    /\ UNCHANGED <<masters, listing>>
CreateNational(d) ==
    /\ \E type \in Types : NewMaster(d, "other", type)
    /\ UNCHANGED <<own, listing>>

\* Only the super admin changes what has no organization.  The mutant lets
\* every admin.
MayEdit_Any(by, of) == by \in Orgs \cup {SuperAdmin}
MayEdit(by, of) == by = SuperAdmin \/ by = of

\* updateHoliday and deleteHoliday; "of" is the organization of the row.
EditOwn(by, of, d) ==
    /\ MayEdit(by, of)
    /\ own[of][d] # {}
    /\ \E row \in own[of][d] :
        \/ own' = [own EXCEPT ![of][d] = {}]
        \/ \E on \in BOOLEAN :
            own' = [own EXCEPT ![of][d] = {[row EXCEPT !.active = on]}]
    /\ UNCHANGED <<masters, made, listing>>
EditMaster(by, m) ==
    /\ MayEdit(by, SuperAdmin)
    /\ \/ masters' = masters \ {m}
       \/ \E on \in BOOLEAN :
            masters' = (masters \ {m}) \cup {[m EXCEPT !.active = on]}
    /\ UNCHANGED <<own, made, listing>>

\* The requests of one organization, at once or through a list.
OrgStep(o) ==
    \/ \E l \in Lists :
        \/ \E d \in Dates : MasterRead(l, o, d)
        \/ ImportRead(l, o)
        \/ (\E r \in listing[l] : r.by = o) /\ (MasterCreate(l) \/ ImportNext(l))
    \/ \E d \in Dates, row \in OwnRow : row.active /\ CreateOwn(o, d, row)
    \/ \E of \in Orgs, d \in Dates : EditOwn(o, of, d)
    \/ \E m \in masters : EditMaster(o, m)
SuperAdminStep ==
    \/ \E l \in Lists, d \in Dates : MasterRead(l, SuperAdmin, d)
    \/ \E l \in Lists :
        (\E r \in listing[l] : r.by = SuperAdmin) /\ MasterCreate(l)
    \/ \E d \in Dates : CreateNational(d)
    \/ \E of \in Orgs, d \in Dates : EditOwn(SuperAdmin, of, d)
    \/ \E m \in masters : EditMaster(SuperAdmin, m)
HolidayNext ==
    \/ \E o \in Orgs : OrgStep(o)
    \/ SuperAdminStep
    \/ \E l \in Lists : ListingFails(l)
HolidaySpec == HolidayInit /\ [][HolidayNext]_holidayVars

-----------------------------------------------------------------------------
\* getHolidayDatesForMonth: the days that do not count as working days.  Only
\* an organization's own override makes a working day.
Overridden(o, d) ==
    \E row \in own[o][d] : row.active /\ row.type = "WORKING_DAY_OVERRIDE"
DaysOff(o) ==
    {d \in Dates : /\ ~Overridden(o, d)
                   /\ \E row \in MasterOn(d) \cup own[o][d] :
                        row.active /\ row.type \in Off}

\* Rows and requests have their types.
HolidayTypeOK ==
    /\ masters \subseteq MasterRow
    /\ own \in [Orgs -> [Dates -> SUBSET OwnRow]]
    /\ \A o \in Orgs, d \in Dates : Cardinality(own[o][d]) <= 1
    /\ made \in 0..MaxHolidays
    /\ \A l \in Lists : listing[l] \subseteq Listing

\* Whatever the admins of one organization do, no other one loses a day
\* off, and it gains one only where the public list has it.
OthersUnaffected ==
    [][\A o \in Orgs : DaysOff(o)' # DaysOff(o) =>
         \A other \in Orgs \ {o} : OrgStep(other) =>
            /\ DaysOff(o) \subseteq DaysOff(o)'
            /\ DaysOff(o)' \subseteq DaysOff(o) \cup Listed]_holidayVars
=============================================================================
