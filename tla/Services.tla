------------------------------ MODULE Services ------------------------------
(***************************************************************************)
(* The services that share no rows with each other, side by side: a        *)
(* behaviour is one of a single service, the others stay as they start,    *)
(* so that one start of each is enough for them.                           *)
(***************************************************************************)
EXTENDS SessionTokens, Lockout, QRCodes, Documents, Roster, Holidays,
        BSCalendar, PayFigures, ScanRequests

VARIABLE service
servicesVars == <<service, sessionVars, lockVars, qrVars, docVars, rosterVars,
                  holidayVars, calendarVars, figureVars, scanVars>>

ServiceNames == {"sessions", "lockout", "codes", "documents", "roster",
                 "holidays", "calendar", "figures", "scans"}
Init ==
    /\ service \in ServiceNames
    /\ SessionInit /\ LockInit /\ QRInit /\ DocInit /\ RosterInit
    /\ HolidayInit /\ CalendarInit /\ FigureInit /\ ScanInit
    /\ service # "lockout" => lockKind = "login" /\ redisUp
    /\ service # "codes" => codes[1] = "none" /\ staticLife = "endless"
    /\ service # "figures" => figure = CHOOSE f \in Incomes : TRUE
    /\ service # "scans" => branchRow = NoBranch /\ ~orgRow.enabled

Next ==
    /\ UNCHANGED service
    /\ service # "sessions" => UNCHANGED sessionVars
    /\ service # "lockout" => UNCHANGED lockVars
    /\ service # "codes" => UNCHANGED qrVars
    /\ service # "documents" => UNCHANGED docVars
    /\ service # "roster" => UNCHANGED rosterVars
    /\ service # "holidays" => UNCHANGED holidayVars
    /\ service # "calendar" => UNCHANGED calendarVars
    /\ service # "figures" => UNCHANGED figureVars
    /\ service # "scans" => UNCHANGED scanVars
    /\ \/ service = "sessions" /\ SessionNext
       \/ service = "lockout" /\ LockNext
       \/ service = "codes" /\ QRNext
       \/ service = "documents" /\ DocNext
       \/ service = "roster" /\ RosterNext
       \/ service = "holidays" /\ HolidayNext
       \/ service = "calendar" /\ CalendarNext
       \/ service = "figures" /\ FigureNext
       \/ service = "scans" /\ ScanNext
Spec == Init /\ [][Next]_servicesVars

-----------------------------------------------------------------------------
\* The variables of the service keep their types.
ServicesTypeOK ==
    /\ service = "sessions" => SessionTypeOK
    /\ service = "lockout" => LockTypeOK
    /\ service = "codes" => QRTypeOK
    /\ service = "documents" => DocTypeOK
    /\ service = "roster" => RosterTypeOK
    /\ service = "holidays" => HolidayTypeOK
=============================================================================
