------------------------------ MODULE MCAccounts ------------------------------
(* Checkpoints; and, in behaviours of their own, the account of an e-mail     *)
(* address, the row of a user with what is cached of it, the OAuth provider,  *)
(* and what stands around the calendar of an employee: shifts against the     *)
(* limits, the policy, holidays, and the jobs that tell of a request and      *)
(* export a month.  They share no state: part says which a behaviour is about.*)
EXTENDS CheckpointLifecycle, TLC

CONSTANTS c1, r1, r2, w1, w2, s1, j1, j2, j3, e1, p1, q1, q2, d1, d2, a1, a2, h1, h2

\* Everything but an add() that reports an error for a job it stored, and what the
\* tool's exception and its unmarked effect add to it.
MCFaultsReliableAdd == FaultNames \ {"lostReply", "toolThrow", "markTool"}

VARIABLES part,
          user, users, auth, rowOf, codes, device, alerts, asked, served,
          applied, replaced, stranded, unfinished,
          client, secrets, code, tokenRow, second, refreshes, grant,
          exchanged, answered, ended,
          userRow, two, otpSecrets, entry, writer, reader, written,
          raced, slow, proven, toggled,
          roster, granted, desk, law, feast, office, changes, request, managers, notice, export

A == INSTANCE Accounts WITH
       Requests <- {q1, q2}, MaxUsers <- 2, MaxCodes <- 2, MaxServed <- 5,
       ver <- rowOf, req <- asked

O == INSTANCE OAuthProvider WITH
       Requests <- {q1, q2}, MaxCodes <- 2, MaxTokens <- 3, MaxSecrets <- 2, MaxSeconds <- 2,
       row <- tokenRow, req <- grant

U == INSTANCE Users WITH
       Writers <- {q1, q2}, Readers <- {p1}, MaxInfo <- 1, MaxSecrets <- 2, MaxServed <- 3,
       row <- userRow, secrets <- otpSecrets, served <- written

Shift(day, from, to, wfh) == [day |-> day, from |-> from, to |-> to, wfh |-> wfh]
Early == Shift(2, 1, 3, FALSE) \* meets another of its month, and exceeds its hours with Late
Late  == Shift(1, 4, 7, FALSE) \* meets one of the next month
MCOffers == {Early, Late, Shift(1, 0, 2, TRUE), Shift(3, 6, 8, TRUE)}
Strict == [hours |-> 4, wfh |-> 1]
MCRules == {Strict, [hours |-> 5, wfh |-> 2]}
MCDays == {1, 2, 3}
MCMonth == <<"first", "first", "second">>
MCAnniversary == <<1, 2, 1>>

D == INSTANCE CalendarDesk WITH
       Days <- MCDays, Month <- MCMonth, Anniversary <- MCAnniversary,
       Shifts <- {d1, d2}, Offers <- MCOffers, Rules <- MCRules, DefaultRule <- Strict,
       Holidays <- {h1, h2}, Public <- {1}, Procs <- {q1, q2}, Admins <- {a1, a2}, MaxTries <- 2,
       MaxChanges <- 3, Users <- {a1, a2}, Requester <- a1, Jobs <- {1, 2}, MaxAttempts <- 2

deskVars == <<roster, granted, desk, law, feast, office>>
noticeVars == <<request, managers, notice>>
allDeskVars == <<deskVars, changes, noticeVars, export>>
DeskParts == {"shifts", "rules", "holidays", "notices", "export"}

accountVars == <<user, users, auth, rowOf, codes, device, alerts, asked, served,
                 applied, replaced, stranded, unfinished>>
oauthVars == <<client, secrets, code, tokenRow, second, refreshes, grant,
               exchanged, answered, ended>>
userVars == <<userRow, two, otpSecrets, entry, writer, reader, written,
              raced, slow, proven, toggled>>

\* a second consent only while the first secret is in use
OneConsentIfRegenerated == secrets' = 2 => code'[2] = None

MCInit == /\ part \in {"checkpoint", "account", "oauth", "user"} \cup DeskParts
          /\ Init /\ A!Init /\ O!Init /\ U!Init /\ D!Init
          /\ part # "checkpoint" => kind[c1] = "approval"
          /\ part # "notices" => managers = {}

\* where no holiday changes, what is asked of them goes at once
NoHolidays == \A p \in {q1, q2} : desk[p].pc \in {"asked", "fetched"} => desk'[p] # desk[p]

Asked(offers) == \A p \in {q1, q2} : desk'[p].offer \in offers \cup {None}

\* one registration at a time, d1 of one offer, and two of the administrators' requests,
\* one of whom sets Strict
RulesOnly == /\ changes' <= 2 /\ Asked({Early, Late}) /\ desk'[q1].seen = {} /\ desk'[q2] = desk[q2]
             /\ desk'[q1].offer = Early => desk'[q1].id # d1
             /\ office'[a2].new \in {None, Strict}
\* registrations up to the transaction; holidays of two years with one anniversary
HolidaysOnly == /\ Asked({Late}) /\ changes' <= 2
                /\ \A p \in {q1, q2} : desk'[p].pc # "find" /\ desk'[p].seen = {}
                /\ \A h \in {h1, h2} : /\ feast'.row[h].day # 2
                                       /\ feast'.row[h].yearly => feast'.row[h].day = 1
\* one change of a role, and one of the jobs is run: they share what they do not write
OneJob == /\ changes' <= 1
          /\ \A i, j \in 1..2 : notice'[i].runs > 0 /\ notice'[j].runs > 0 => i = j

DeskNext ==
  \/ part = "shifts"   /\ D!RosterNext /\ NoHolidays /\ UNCHANGED <<noticeVars, export>>
  \/ part = "rules"    /\ (D!RosterNext \/ D!PolicyNext) /\ RulesOnly /\ NoHolidays
                       /\ UNCHANGED <<noticeVars, export>>
  \/ part = "holidays" /\ (D!RosterNext \/ D!HolidayNext) /\ HolidaysOnly
                       /\ UNCHANGED <<noticeVars, export>>
  \/ part = "notices"  /\ D!NoticeNext /\ OneJob /\ UNCHANGED deskVars
  \/ part = "export"   /\ D!ExportNext /\ UNCHANGED deskVars

MCNext ==
  /\ part' = part
  /\ \/ part = "checkpoint" /\ Next   /\ UNCHANGED <<accountVars, oauthVars, userVars, allDeskVars>>
     \/ part = "account"    /\ A!Next /\ UNCHANGED <<vars, oauthVars, userVars, allDeskVars>>
     \/ part = "oauth"      /\ O!Next /\ OneConsentIfRegenerated
                          /\ UNCHANGED <<vars, accountVars, userVars, allDeskVars>>
     \/ part = "user"       /\ U!Next /\ UNCHANGED <<vars, accountVars, oauthVars, allDeskVars>>
     \/ part \in DeskParts /\ DeskNext /\ UNCHANGED <<vars, accountVars, oauthVars, userVars>>

\* answers and workers are interchangeable
MCSymmetry == Permutations(Requests) \cup Permutations(Workers)

MCSpec == MCInit /\ [][MCNext]_<<vars, accountVars, oauthVars, userVars, allDeskVars, part>>

\* An account keeps its ways to log in, a code acts once, a second factor is proven,
\* what is cached of a user agrees with the row, and an application's code gets one
\* token, which lasts until it is revoked or replaced.
IdentityAndDeskHold ==
  /\ part = "account" => /\ A!TypeOK /\ A!AuthHasUser /\ A!UserHasAuth /\ A!CodesActOnce
                         /\ A!VerifiedIsActive /\ A!DeviceAnnouncedOnce
  /\ part = "user"    => U!TypeOK /\ U!CachesAgree /\ U!SecretProven
  /\ part = "oauth"   => O!TypeOK /\ O!CodesWorkOnce /\ O!TokensLast
  /\ part \in DeskParts => D!DeskHolds

=============================================================================
