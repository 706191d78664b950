------------------------- MODULE ControllerProofs -------------------------
(* The parts of the controller that stand alone: sessions, its own restore, *)
(* vulnerability scanning, notifications, secret resolution, Git polling,   *)
(* the brake on failed sign-ins.                                            *)
EXTENDS Sessions, ControllerRestore, VulnScan, Notifications, SecretResolve, PollSchedule, LoginLimiter,
        FiniteSetTheorems, TLAPS

-----------------------------------------------------------------------------
(* Sessions: the inductive invariant.                                       *)

(* Whoever is at work or signed in has a name, and an account that is not   *)
(* there is blank.                                                          *)
NamesStand ==
    /\ \A r \in Web : web[r].pc # "idle" => web[r].user \in Person
    /\ \A t \in Token : sessions[t] # NoSession => sessions[t].user \in Person
    /\ \A u \in Person : accounts[u].made = 0 => ~ accounts[u].must

(* Until an account goes under it, a login leads to the account whose       *)
(* password it checked, which is there; so does a change of password, which *)
(* knows the password if that is due to be changed.                         *)
LoginsStand ==
    ~ crossed => \A r \in Web :
        /\ WebAt(r, "session") =>
               web[r].made > 0 /\ web[r].made = accounts[web[r].user].made
        /\ WebAt(r, "set") =>
               /\ accounts[web[r].user].made > 0
               /\ accounts[web[r].user].must => web[r].shown = accounts[web[r].user].password

SessionsOfAccounts ==
    ~ crossed => \A t \in Token : sessions[t] # NoSession => sessions[t].made > 0

SessionsIInv ==
    /\ SessionsTypeOK /\ NamesStand /\ LoginsStand /\ SessionsOfAccounts
    /\ SessionsHaveAccounts /\ NextRequestSeesIt

LEMMA BlankTypes == NoAccount \in Account /\ NoSession \in SessionRow /\ NoWeb \in WebState
<1> USE SessionsAssumption
<1>1. NoAccount \in Account
    BY DEF NoAccount, Account, UserRole
<1>2. NoSession \in SessionRow
    BY DEF NoSession, SessionRow
<1>3. NoWeb \in WebState
    BY DEF NoWeb, WebState, UserRole
<1> QED
    BY <1>1, <1>2, <1>3

LEMMA SessionsInitIInv == SessionsInit => SessionsIInv
<1> SUFFICES ASSUME SessionsInit PROVE SessionsIInv
    OBVIOUS
<1> USE SessionsAssumption DEF SessionsInit
<1>1. NoAccount \in Account /\ NoSession \in SessionRow /\ NoWeb \in WebState
    BY BlankTypes
<1>a. accounts \in [Person -> Account] /\ sessions \in [Token -> SessionRow] /\ web \in [Web -> WebState]
    BY <1>1
<1>b. created \in [Person -> 0 .. MaxMade] /\ lastPassword \in 0 .. MaxPasswords
    OBVIOUS
<1>2. SessionsTypeOK
    BY <1>a, <1>b DEF SessionsTypeOK
<1>3. NamesStand /\ LoginsStand /\ SessionsOfAccounts /\ SessionsHaveAccounts /\ NextRequestSeesIt
    BY DEF NamesStand, LoginsStand, SessionsOfAccounts, SessionsHaveAccounts, NextRequestSeesIt, WebAt, NoWeb, NoAccount
<1> QED
    BY <1>2, <1>3 DEF SessionsIInv

(* A request that moves to x leaves the others alone.                       *)
WebMoved(r, x) == x \in WebState /\ web' = [web EXCEPT ![r] = x]

LEMMA WebStepIInv ==
    ASSUME SessionsIInv, NEW r \in Web, WebStep(r)
    PROVE  SessionsIInv'
<1> USE SessionsAssumption
<1>0. /\ web \in [Web -> WebState] /\ web[r] \in WebState /\ accounts \in [Person -> Account]
      /\ sessions \in [Token -> SessionRow] /\ SessionsTypeOK
      /\ \A u \in Person : accounts[u] \in Account
    BY DEF SessionsIInv, SessionsTypeOK
<1>1. ASSUME NEW u \in Person, NEW password \in 1 .. MaxPasswords, LoginTyped(r, u, password) PROVE SessionsIInv'
    <2> DEFINE x == [NoWeb EXCEPT !.pc = "verify", !.user = u, !.shown = password]
    <2>1. /\ x \in WebState
          /\ x.pc = "verify" /\ x.user = u
        <3>1. password \in 0 .. MaxPasswords /\ 0 \in 0 .. MaxMade
            OBVIOUS
        <3> QED
            BY <3>1, BlankTypes DEF WebState, NoWeb, UserRole
    <2>2. WebMoved(r, x)
        BY <1>0, <1>1, <2>1 DEF LoginTyped, WebMoved, WebStart, WebEnd, WebState
    <2> HIDE DEF x
    <2>3. web' \in [Web -> WebState] /\ web'[r] = x /\ \A q \in Web : q # r => web'[q] = web[q]
        BY <1>0, <2>2 DEF WebMoved
    <2>4. SessionsTypeOK'
        BY <1>0, <1>1, <2>3 DEF LoginTyped, SessionsTypeOK
    <2>5. NamesStand'
        BY <1>0, <1>1, <2>1, <2>3 DEF LoginTyped, SessionsIInv, NamesStand, WebAt
    <2>6. LoginsStand'
        BY <1>0, <1>1, <2>1, <2>3 DEF LoginTyped, SessionsIInv, NamesStand, LoginsStand, WebAt, Account
    <2>7. SessionsOfAccounts' /\ SessionsHaveAccounts'
        BY <1>0, <1>1, <2>1, <2>3 DEF LoginTyped, SessionsIInv, NamesStand, LoginsStand, SessionsOfAccounts, SessionsHaveAccounts, WebAt
    <2>8. NextRequestSeesIt'
        BY <1>0, <1>1, <2>1, <2>3 DEF LoginTyped, SessionsIInv, NamesStand, NextRequestSeesIt, WebAt, Account
    <2> QED
        BY <2>4, <2>5, <2>6, <2>7, <2>8 DEF SessionsIInv
<1>2. ASSUME LoginVerify(r), Verified(web[r].user, web[r].shown) PROVE SessionsIInv'
    <2> DEFINE x == [web[r] EXCEPT !.pc = "session", !.made = accounts[web[r].user].made]
    <2>1. /\ x \in WebState
          /\ x.pc = "session" /\ x.user = web[r].user /\ x.user \in Person /\ x.made = accounts[x.user].made
        BY <1>0, <1>2, BlankTypes DEF LoginVerify, Verified, Known, WebState, NoWeb, UserRole, Known, SessionRow, Account, WebAt, SessionsTypeOK, SessionsIInv, NamesStand
    <2>2. WebMoved(r, x)
        BY <1>0, <1>2, <2>1 DEF LoginVerify, Verified, Known, WebMoved, WebStart, WebEnd, WebState
    <2> HIDE DEF x
    <2>3. web' \in [Web -> WebState] /\ web'[r] = x /\ \A q \in Web : q # r => web'[q] = web[q]
        BY <1>0, <2>2 DEF WebMoved
    <2>4. SessionsTypeOK'
        BY <1>0, <1>2, <2>3 DEF LoginVerify, Verified, Known, SessionsTypeOK
    <2>5. NamesStand'
        BY <1>0, <1>2, <2>1, <2>3 DEF LoginVerify, Verified, Known, SessionsIInv, NamesStand, WebAt
    <2>6. LoginsStand'
        BY <1>0, <1>2, <2>1, <2>3 DEF LoginVerify, Verified, Known, SessionsIInv, NamesStand, LoginsStand, WebAt, Account
    <2>7. SessionsOfAccounts' /\ SessionsHaveAccounts'
        BY <1>0, <1>2, <2>1, <2>3 DEF LoginVerify, Verified, Known, SessionsIInv, NamesStand, LoginsStand, SessionsOfAccounts, SessionsHaveAccounts, WebAt
    <2>8. NextRequestSeesIt'
        BY <1>0, <1>2, <2>1, <2>3 DEF LoginVerify, Verified, Known, SessionsIInv, NamesStand, NextRequestSeesIt, WebAt, Account
    <2> QED
        BY <2>4, <2>5, <2>6, <2>7, <2>8 DEF SessionsIInv
<1>3. ASSUME LoginVerify(r), ~ Verified(web[r].user, web[r].shown) PROVE SessionsIInv'
    <2> DEFINE x == NoWeb
    <2>1. /\ x \in WebState
          /\ x.pc = "idle"
        BY <1>0, <1>3, BlankTypes DEF LoginVerify, WebState, NoWeb, UserRole, Known, SessionRow, Account, WebAt, SessionsTypeOK, SessionsIInv, NamesStand
    <2>2. WebMoved(r, x)
        BY <1>0, <1>3, <2>1 DEF LoginVerify, WebMoved, WebStart, WebEnd, WebState
    <2> HIDE DEF x
    <2>3. web' \in [Web -> WebState] /\ web'[r] = x /\ \A q \in Web : q # r => web'[q] = web[q]
        BY <1>0, <2>2 DEF WebMoved
    <2>4. SessionsTypeOK'
        BY <1>0, <1>3, <2>3 DEF LoginVerify, SessionsTypeOK
    <2>5. NamesStand'
        BY <1>0, <1>3, <2>1, <2>3 DEF LoginVerify, SessionsIInv, NamesStand, WebAt
    <2>6. LoginsStand'
        BY <1>0, <1>3, <2>1, <2>3 DEF LoginVerify, SessionsIInv, NamesStand, LoginsStand, WebAt, Account
    <2>7. SessionsOfAccounts' /\ SessionsHaveAccounts'
        BY <1>0, <1>3, <2>1, <2>3 DEF LoginVerify, SessionsIInv, NamesStand, LoginsStand, SessionsOfAccounts, SessionsHaveAccounts, WebAt
    <2>8. NextRequestSeesIt'
        BY <1>0, <1>3, <2>1, <2>3 DEF LoginVerify, SessionsIInv, NamesStand, NextRequestSeesIt, WebAt, Account
    <2> QED
        BY <2>4, <2>5, <2>6, <2>7, <2>8 DEF SessionsIInv
<1>4. ASSUME NEW u \in Person, LoginSSO(r, u) PROVE SessionsIInv'
    <2> DEFINE x == [NoWeb EXCEPT !.pc = "session", !.user = u, !.made = accounts[u].made]
    <2>1. /\ x \in WebState
          /\ x.pc = "session" /\ x.user = u /\ x.made = accounts[u].made
        BY <1>0, <1>4, BlankTypes DEF LoginSSO, Known, WebState, NoWeb, UserRole, Known, SessionRow, Account, WebAt, SessionsTypeOK, SessionsIInv, NamesStand
    <2>2. WebMoved(r, x)
        BY <1>0, <1>4, <2>1 DEF LoginSSO, Known, WebMoved, WebStart, WebEnd, WebState
    <2> HIDE DEF x
    <2>3. web' \in [Web -> WebState] /\ web'[r] = x /\ \A q \in Web : q # r => web'[q] = web[q]
        BY <1>0, <2>2 DEF WebMoved
    <2>4. SessionsTypeOK'
        BY <1>0, <1>4, <2>3 DEF LoginSSO, Known, SessionsTypeOK
    <2>5. NamesStand'
        BY <1>0, <1>4, <2>1, <2>3 DEF LoginSSO, Known, SessionsIInv, NamesStand, WebAt
    <2>6. LoginsStand'
        BY <1>0, <1>4, <2>1, <2>3 DEF LoginSSO, Known, SessionsIInv, NamesStand, LoginsStand, WebAt, Account
    <2>7. SessionsOfAccounts' /\ SessionsHaveAccounts'
        BY <1>0, <1>4, <2>1, <2>3 DEF LoginSSO, Known, SessionsIInv, NamesStand, LoginsStand, SessionsOfAccounts, SessionsHaveAccounts, WebAt
    <2>8. NextRequestSeesIt'
        BY <1>0, <1>4, <2>1, <2>3 DEF LoginSSO, Known, SessionsIInv, NamesStand, NextRequestSeesIt, WebAt, Account
    <2> QED
        BY <2>4, <2>5, <2>6, <2>7, <2>8 DEF SessionsIInv
<1>5. ASSUME NEW t \in Token, LoginSession(r, t) PROVE SessionsIInv'
    <2> DEFINE x == NoWeb
    <2>1. /\ x \in WebState
          /\ x.pc = "idle"
        BY <1>0, <1>5, BlankTypes DEF LoginSession, WebState, NoWeb, UserRole, Known, SessionRow, Account, WebAt, SessionsTypeOK, SessionsIInv, NamesStand
    <2>2. WebMoved(r, x)
        BY <1>0, <1>5, <2>1 DEF LoginSession, WebMoved, WebStart, WebEnd, WebState
    <2> HIDE DEF x
    <2>3. web' \in [Web -> WebState] /\ web'[r] = x /\ \A q \in Web : q # r => web'[q] = web[q]
        BY <1>0, <2>2 DEF WebMoved
    <2>4. SessionsTypeOK'
        BY <1>0, <1>5, <2>3 DEF LoginSession, SessionsTypeOK, SessionRow, WebState
    <2>5. NamesStand'
        BY <1>0, <1>5, <2>1, <2>3 DEF LoginSession, SessionsIInv, NamesStand, WebAt
    <2>6. LoginsStand'
        BY <1>0, <1>5, <2>1, <2>3 DEF LoginSession, SessionsIInv, NamesStand, LoginsStand, WebAt, Account
    <2>7. SessionsOfAccounts' /\ SessionsHaveAccounts'
        BY <1>0, <1>5, <2>1, <2>3 DEF LoginSession, SessionsIInv, NamesStand, LoginsStand, SessionsOfAccounts, SessionsHaveAccounts, WebAt
    <2>8. NextRequestSeesIt'
        BY <1>0, <1>5, <2>1, <2>3 DEF LoginSession, SessionsIInv, NamesStand, NextRequestSeesIt, WebAt, Account
    <2> QED
        BY <2>4, <2>5, <2>6, <2>7, <2>8 DEF SessionsIInv
<1>6. ASSUME NEW t \in Token, NEW exempt \in BOOLEAN, Arrive(r, t, exempt) PROVE SessionsIInv'
    <2> DEFINE x == [NoWeb EXCEPT !.pc = "lookup", !.user = sessions[t].user, !.exempt = exempt]
    <2>1. /\ x \in WebState
          /\ x.pc = "lookup" /\ x.user = sessions[t].user
        BY <1>0, <1>6, BlankTypes DEF Arrive, WebState, NoWeb, UserRole, Known, SessionRow, Account, WebAt, SessionsTypeOK, SessionsIInv, NamesStand
    <2>2. WebMoved(r, x)
        BY <1>0, <1>6, <2>1 DEF Arrive, WebMoved, WebStart, WebEnd, WebState
    <2> HIDE DEF x
    <2>3. web' \in [Web -> WebState] /\ web'[r] = x /\ \A q \in Web : q # r => web'[q] = web[q]
        BY <1>0, <2>2 DEF WebMoved
    <2>4. SessionsTypeOK'
        BY <1>0, <1>6, <2>3 DEF Arrive, SessionsTypeOK
    <2>5. NamesStand'
        BY <1>0, <1>6, <2>1, <2>3 DEF Arrive, SessionsIInv, NamesStand, WebAt
    <2>6. LoginsStand'
        BY <1>0, <1>6, <2>1, <2>3 DEF Arrive, SessionsIInv, NamesStand, LoginsStand, WebAt, Account
    <2>7. SessionsOfAccounts' /\ SessionsHaveAccounts'
        BY <1>0, <1>6, <2>1, <2>3 DEF Arrive, SessionsIInv, NamesStand, LoginsStand, SessionsOfAccounts, SessionsHaveAccounts, WebAt
    <2>8. NextRequestSeesIt'
        BY <1>0, <1>6, <2>1, <2>3 DEF Arrive, SessionsIInv, NamesStand, NextRequestSeesIt, WebAt, Account
    <2> QED
        BY <2>4, <2>5, <2>6, <2>7, <2>8 DEF SessionsIInv
<1>7. ASSUME Lookup(r), AccountOf(web[r]).made = 0 \/ (AccountOf(web[r]).must /\ ~ web[r].exempt) PROVE SessionsIInv'
    <2> DEFINE x == NoWeb
    <2>1. /\ x \in WebState
          /\ x.pc = "idle"
        BY <1>0, <1>7, BlankTypes DEF Lookup, WebState, NoWeb, UserRole, Known, SessionRow, Account, WebAt, SessionsTypeOK, SessionsIInv, NamesStand
    <2>2. WebMoved(r, x)
        BY <1>0, <1>7, <2>1 DEF Lookup, WebMoved, WebStart, WebEnd, WebState
    <2> HIDE DEF x
    <2>3. web' \in [Web -> WebState] /\ web'[r] = x /\ \A q \in Web : q # r => web'[q] = web[q]
        BY <1>0, <2>2 DEF WebMoved
    <2>4. SessionsTypeOK'
        BY <1>0, <1>7, <2>3 DEF Lookup, SessionsTypeOK
    <2>5. NamesStand'
        BY <1>0, <1>7, <2>1, <2>3 DEF Lookup, SessionsIInv, NamesStand, WebAt
    <2>6. LoginsStand'
        BY <1>0, <1>7, <2>1, <2>3 DEF Lookup, SessionsIInv, NamesStand, LoginsStand, WebAt, Account
    <2>7. SessionsOfAccounts' /\ SessionsHaveAccounts'
        BY <1>0, <1>7, <2>1, <2>3 DEF Lookup, SessionsIInv, NamesStand, LoginsStand, SessionsOfAccounts, SessionsHaveAccounts, WebAt
    <2>8. NextRequestSeesIt'
        BY <1>0, <1>7, <2>1, <2>3 DEF Lookup, SessionsIInv, NamesStand, NextRequestSeesIt, WebAt, Account
    <2> QED
        BY <2>4, <2>5, <2>6, <2>7, <2>8 DEF SessionsIInv
<1>8. ASSUME Lookup(r), ~ (AccountOf(web[r]).made = 0 \/ (AccountOf(web[r]).must /\ ~ web[r].exempt)) PROVE SessionsIInv'
    <2> DEFINE x == [web[r] EXCEPT !.pc = IF web[r].exempt THEN "change" ELSE "handler", !.role = accounts[web[r].user].role]
    <2>1. /\ x \in WebState
          /\ x.pc = IF web[r].exempt THEN "change" ELSE "handler"
          /\ x.user = web[r].user /\ x.role = accounts[web[r].user].role
        BY <1>0, <1>8, BlankTypes DEF Lookup, AccountOf, WebState, NoWeb, UserRole, Known, SessionRow, Account, WebAt, SessionsTypeOK, SessionsIInv, NamesStand
    <2>2. WebMoved(r, x)
        BY <1>0, <1>8, <2>1 DEF Lookup, AccountOf, WebMoved, WebStart, WebEnd, WebState
    <2> HIDE DEF x
    <2>3. web' \in [Web -> WebState] /\ web'[r] = x /\ \A q \in Web : q # r => web'[q] = web[q]
        BY <1>0, <2>2 DEF WebMoved
    <2>4. SessionsTypeOK'
        BY <1>0, <1>8, <2>3 DEF Lookup, AccountOf, SessionsTypeOK
    <2>5. NamesStand'
        BY <1>0, <1>8, <2>1, <2>3 DEF Lookup, AccountOf, SessionsIInv, NamesStand, WebAt
    <2>6. LoginsStand'
        BY <1>0, <1>8, <2>1, <2>3 DEF Lookup, AccountOf, SessionsIInv, NamesStand, LoginsStand, WebAt, Account
    <2>7. SessionsOfAccounts' /\ SessionsHaveAccounts'
        BY <1>0, <1>8, <2>1, <2>3 DEF Lookup, AccountOf, SessionsIInv, NamesStand, LoginsStand, SessionsOfAccounts, SessionsHaveAccounts, WebAt
    <2>8. NextRequestSeesIt'
        BY <1>0, <1>8, <2>1, <2>3 DEF Lookup, AccountOf, SessionsIInv, NamesStand, NextRequestSeesIt, WebAt, Account
    <2> QED
        BY <2>4, <2>5, <2>6, <2>7, <2>8 DEF SessionsIInv
<1>9. ASSUME Handler(r) PROVE SessionsIInv'
    <2> DEFINE x == NoWeb
    <2>1. /\ x \in WebState
          /\ x.pc = "idle"
        BY <1>0, <1>9, BlankTypes DEF Handler, WebState, NoWeb, UserRole, Known, SessionRow, Account, WebAt, SessionsTypeOK, SessionsIInv, NamesStand
    <2>2. WebMoved(r, x)
        BY <1>0, <1>9, <2>1 DEF Handler, WebMoved, WebStart, WebEnd, WebState
    <2> HIDE DEF x
    <2>3. web' \in [Web -> WebState] /\ web'[r] = x /\ \A q \in Web : q # r => web'[q] = web[q]
        BY <1>0, <2>2 DEF WebMoved
    <2>4. SessionsTypeOK'
        BY <1>0, <1>9, <2>3 DEF Handler, SessionsTypeOK
    <2>5. NamesStand'
        BY <1>0, <1>9, <2>1, <2>3 DEF Handler, SessionsIInv, NamesStand, WebAt
    <2>6. LoginsStand'
        BY <1>0, <1>9, <2>1, <2>3 DEF Handler, SessionsIInv, NamesStand, LoginsStand, WebAt, Account
    <2>7. SessionsOfAccounts' /\ SessionsHaveAccounts'
        BY <1>0, <1>9, <2>1, <2>3 DEF Handler, SessionsIInv, NamesStand, LoginsStand, SessionsOfAccounts, SessionsHaveAccounts, WebAt
    <2>8. NextRequestSeesIt'
        BY <1>0, <1>9, <2>1, <2>3 DEF Handler, SessionsIInv, NamesStand, NextRequestSeesIt, WebAt, Account
    <2> QED
        BY <2>4, <2>5, <2>6, <2>7, <2>8 DEF SessionsIInv
<1>10. ASSUME NEW password \in 1 .. MaxPasswords, ChangeVerify(r, password), CurrentPassword(web[r].user, password) PROVE SessionsIInv'
    <2> DEFINE x == [web[r] EXCEPT !.pc = "set", !.shown = password]
    <2>1. /\ x \in WebState
          /\ x.pc = "set" /\ x.user = web[r].user /\ x.shown = password
        BY <1>0, <1>10, BlankTypes DEF ChangeVerify, CurrentPassword, Verified, Known, WebState, NoWeb, UserRole, Known, SessionRow, Account, WebAt, SessionsTypeOK, SessionsIInv, NamesStand
    <2>2. WebMoved(r, x)
        BY <1>0, <1>10, <2>1 DEF ChangeVerify, CurrentPassword, Verified, Known, WebMoved, WebStart, WebEnd, WebState
    <2> HIDE DEF x
    <2>3. web' \in [Web -> WebState] /\ web'[r] = x /\ \A q \in Web : q # r => web'[q] = web[q]
        BY <1>0, <2>2 DEF WebMoved
    <2>4. SessionsTypeOK'
        BY <1>0, <1>10, <2>3 DEF ChangeVerify, CurrentPassword, Verified, Known, SessionsTypeOK
    <2>5. NamesStand'
        BY <1>0, <1>10, <2>1, <2>3 DEF ChangeVerify, CurrentPassword, Verified, Known, SessionsIInv, NamesStand, WebAt
    <2>6. LoginsStand'
        BY <1>0, <1>10, <2>1, <2>3 DEF ChangeVerify, CurrentPassword, Verified, Known, SessionsIInv, NamesStand, LoginsStand, WebAt, Account
    <2>7. SessionsOfAccounts' /\ SessionsHaveAccounts'
        BY <1>0, <1>10, <2>1, <2>3 DEF ChangeVerify, CurrentPassword, Verified, Known, SessionsIInv, NamesStand, LoginsStand, SessionsOfAccounts, SessionsHaveAccounts, WebAt
    <2>8. NextRequestSeesIt'
        BY <1>0, <1>10, <2>1, <2>3 DEF ChangeVerify, CurrentPassword, Verified, Known, SessionsIInv, NamesStand, NextRequestSeesIt, WebAt, Account
    <2> QED
        BY <2>4, <2>5, <2>6, <2>7, <2>8 DEF SessionsIInv
<1>11. ASSUME NEW password \in 1 .. MaxPasswords, ChangeVerify(r, password), ~ CurrentPassword(web[r].user, password) PROVE SessionsIInv'
    <2> DEFINE x == NoWeb
    <2>1. /\ x \in WebState
          /\ x.pc = "idle"
        BY <1>0, <1>11, BlankTypes DEF ChangeVerify, WebState, NoWeb, UserRole, Known, SessionRow, Account, WebAt, SessionsTypeOK, SessionsIInv, NamesStand
    <2>2. WebMoved(r, x)
        BY <1>0, <1>11, <2>1 DEF ChangeVerify, WebMoved, WebStart, WebEnd, WebState
    <2> HIDE DEF x
    <2>3. web' \in [Web -> WebState] /\ web'[r] = x /\ \A q \in Web : q # r => web'[q] = web[q]
        BY <1>0, <2>2 DEF WebMoved
    <2>4. SessionsTypeOK'
        BY <1>0, <1>11, <2>3 DEF ChangeVerify, SessionsTypeOK
    <2>5. NamesStand'
        BY <1>0, <1>11, <2>1, <2>3 DEF ChangeVerify, SessionsIInv, NamesStand, WebAt
    <2>6. LoginsStand'
        BY <1>0, <1>11, <2>1, <2>3 DEF ChangeVerify, SessionsIInv, NamesStand, LoginsStand, WebAt, Account
    <2>7. SessionsOfAccounts' /\ SessionsHaveAccounts'
        BY <1>0, <1>11, <2>1, <2>3 DEF ChangeVerify, SessionsIInv, NamesStand, LoginsStand, SessionsOfAccounts, SessionsHaveAccounts, WebAt
    <2>8. NextRequestSeesIt'
        BY <1>0, <1>11, <2>1, <2>3 DEF ChangeVerify, SessionsIInv, NamesStand, NextRequestSeesIt, WebAt, Account
    <2> QED
        BY <2>4, <2>5, <2>6, <2>7, <2>8 DEF SessionsIInv
<1>12. ASSUME ChangeSet(r), Known(web[r].user) PROVE SessionsIInv'
    <2> DEFINE x == NoWeb
    <2>1. /\ x \in WebState
          /\ x.pc = "idle"
        BY <1>0, <1>12, BlankTypes DEF ChangeSet, Known, WebState, NoWeb, UserRole, Known, SessionRow, Account, WebAt, SessionsTypeOK, SessionsIInv, NamesStand
    <2>2. WebMoved(r, x)
        BY <1>0, <1>12, <2>1 DEF ChangeSet, Known, WebMoved, WebStart, WebEnd, WebState
    <2> HIDE DEF x
    <2>3. web' \in [Web -> WebState] /\ web'[r] = x /\ \A q \in Web : q # r => web'[q] = web[q]
        BY <1>0, <2>2 DEF WebMoved
    <2>4. SessionsTypeOK'
        BY <1>0, <1>12, <2>3 DEF ChangeSet, Known, SessionsTypeOK, Account
    <2>5. NamesStand'
        BY <1>0, <1>12, <2>1, <2>3 DEF ChangeSet, Known, SessionsIInv, NamesStand, WebAt
    <2>6. LoginsStand'
        BY <1>0, <1>12, <2>1, <2>3 DEF ChangeSet, Known, SessionsIInv, NamesStand, LoginsStand, WebAt, Account
    <2>7. SessionsOfAccounts' /\ SessionsHaveAccounts'
        BY <1>0, <1>12, <2>1, <2>3 DEF ChangeSet, Known, SessionsIInv, NamesStand, LoginsStand, SessionsOfAccounts, SessionsHaveAccounts, WebAt
    <2>8. NextRequestSeesIt'
        BY <1>0, <1>12, <2>1, <2>3 DEF ChangeSet, Known, SessionsIInv, NamesStand, NextRequestSeesIt, WebAt, Account
    <2> QED
        BY <2>4, <2>5, <2>6, <2>7, <2>8 DEF SessionsIInv
<1>13. ASSUME ChangeSet(r), ~ Known(web[r].user) PROVE SessionsIInv'
    <2> DEFINE x == NoWeb
    <2>1. /\ x \in WebState
          /\ x.pc = "idle"
        BY <1>0, <1>13, BlankTypes DEF ChangeSet, WebState, NoWeb, UserRole, Known, SessionRow, Account, WebAt, SessionsTypeOK, SessionsIInv, NamesStand
    <2>2. WebMoved(r, x)
        BY <1>0, <1>13, <2>1 DEF ChangeSet, WebMoved, WebStart, WebEnd, WebState
    <2> HIDE DEF x
    <2>3. web' \in [Web -> WebState] /\ web'[r] = x /\ \A q \in Web : q # r => web'[q] = web[q]
        BY <1>0, <2>2 DEF WebMoved
    <2>4. SessionsTypeOK'
        BY <1>0, <1>13, <2>3 DEF ChangeSet, SessionsTypeOK
    <2>5. NamesStand'
        BY <1>0, <1>13, <2>1, <2>3 DEF ChangeSet, SessionsIInv, NamesStand, WebAt
    <2>6. LoginsStand'
        BY <1>0, <1>13, <2>1, <2>3 DEF ChangeSet, SessionsIInv, NamesStand, LoginsStand, WebAt, Account
    <2>7. SessionsOfAccounts' /\ SessionsHaveAccounts'
        BY <1>0, <1>13, <2>1, <2>3 DEF ChangeSet, SessionsIInv, NamesStand, LoginsStand, SessionsOfAccounts, SessionsHaveAccounts, WebAt
    <2>8. NextRequestSeesIt'
        BY <1>0, <1>13, <2>1, <2>3 DEF ChangeSet, SessionsIInv, NamesStand, NextRequestSeesIt, WebAt, Account
    <2> QED
        BY <2>4, <2>5, <2>6, <2>7, <2>8 DEF SessionsIInv
<1> QED
    BY <1>1, <1>2, <1>3, <1>4, <1>5, <1>6, <1>7, <1>8, <1>9, <1>10, <1>11, <1>12, <1>13 DEF WebStep

LEMMA AdminStepIInv ==
    ASSUME SessionsIInv, NEW u \in Person, AdminStep(u)
    PROVE  SessionsIInv'
<1> USE SessionsAssumption
<1>0. /\ web \in [Web -> WebState] /\ accounts \in [Person -> Account] /\ accounts[u] \in Account
      /\ sessions \in [Token -> SessionRow] /\ SessionsTypeOK
      /\ \A r \in Web : web[r] \in WebState
    BY DEF SessionsIInv, SessionsTypeOK
<1>a. ASSUME Touched(u)
      PROVE  /\ web' \in [Web -> WebState]
             /\ \A r \in Web : /\ web'[r].pc = web[r].pc /\ web'[r].user = web[r].user /\ web'[r].made = web[r].made
                              /\ web'[r].role = web[r].role /\ web'[r].shown = web[r].shown
                              /\ web'[r].edited = (web[r].edited \/ web[r].user = u)
    BY <1>0, <1>a DEF Touched, WebState
<1>1. ASSUME NEW role \in UserRole, NEW sso \in BOOLEAN, MakeUser(u, role, sso) PROVE SessionsIInv'
    <2>1. Touched(u)
        BY <1>1 DEF MakeUser
    <2>2. /\ web' \in [Web -> WebState]
          /\ \A r \in Web : /\ web'[r].pc = web[r].pc /\ web'[r].user = web[r].user /\ web'[r].made = web[r].made
                           /\ web'[r].role = web[r].role /\ web'[r].shown = web[r].shown
                           /\ web'[r].edited = (web[r].edited \/ web[r].user = u)
        BY <1>a, <2>1
    <2>3. /\ accounts' \in [Person -> Account] /\ \A v \in Person : v # u => accounts'[v] = accounts[v]
          /\ accounts'[u].made > 0 /\ accounts[u].made = 0
        BY <1>0, <1>1, BlankTypes DEF MakeUser, Account, Known, SessionsTypeOK, UserRole
    <2>4. SessionsTypeOK'
        BY <1>0, <1>1, <2>2, <2>3, BlankTypes DEF MakeUser, SessionsTypeOK
    <2>5. NamesStand'
        BY <1>0, <1>1, <2>2, <2>3 DEF MakeUser, SessionsIInv, NamesStand, NoSession, Known, Account
    <2>6. LoginsStand'
        BY <1>0, <1>1, <2>2, <2>3 DEF MakeUser, SessionsIInv, NamesStand, LoginsStand, WebAt, Known, Account
    <2>7. SessionsOfAccounts' /\ SessionsHaveAccounts'
        BY <1>0, <1>1, <2>2, <2>3 DEF MakeUser, SessionsIInv, NamesStand, SessionsOfAccounts, SessionsHaveAccounts, Known, Account
    <2>8. NextRequestSeesIt'
        <3> SUFFICES ASSUME NEW r \in Web, web'[r].pc = "handler", ~ web'[r].edited
                     PROVE  /\ accounts'[web'[r].user].made > 0 /\ ~ accounts'[web'[r].user].must
                            /\ web'[r].role = accounts'[web'[r].user].role
            BY DEF NextRequestSeesIt, WebAt
        <3>1. web[r].pc = "handler" /\ ~ web[r].edited /\ web[r].user # u /\ web[r].user \in Person
            BY <1>0, <2>2 DEF SessionsIInv, NamesStand, WebState
        <3> QED
            BY <2>2, <2>3, <3>1 DEF SessionsIInv, NextRequestSeesIt, WebAt
    <2> QED
        BY <2>4, <2>5, <2>6, <2>7, <2>8 DEF SessionsIInv
<1>2. ASSUME NEW role \in UserRole, SetUserRole(u, role) PROVE SessionsIInv'
    <2>1. Touched(u)
        BY <1>2 DEF SetUserRole
    <2>2. /\ web' \in [Web -> WebState]
          /\ \A r \in Web : /\ web'[r].pc = web[r].pc /\ web'[r].user = web[r].user /\ web'[r].made = web[r].made
                           /\ web'[r].role = web[r].role /\ web'[r].shown = web[r].shown
                           /\ web'[r].edited = (web[r].edited \/ web[r].user = u)
        BY <1>a, <2>1
    <2>3. /\ accounts' \in [Person -> Account] /\ \A v \in Person : v # u => accounts'[v] = accounts[v]
          /\ accounts'[u].made = accounts[u].made /\ accounts'[u].must = accounts[u].must /\ accounts'[u].password = accounts[u].password
        BY <1>0, <1>2, BlankTypes DEF SetUserRole, Account, Known, SessionsTypeOK, UserRole
    <2>4. SessionsTypeOK'
        BY <1>0, <1>2, <2>2, <2>3, BlankTypes DEF SetUserRole, SessionsTypeOK
    <2>5. NamesStand'
        BY <1>0, <1>2, <2>2, <2>3 DEF SetUserRole, SessionsIInv, NamesStand, NoSession, Known, Account
    <2>6. LoginsStand'
        BY <1>0, <1>2, <2>2, <2>3 DEF SetUserRole, SessionsIInv, NamesStand, LoginsStand, WebAt, Known, Account
    <2>7. SessionsOfAccounts' /\ SessionsHaveAccounts'
        BY <1>0, <1>2, <2>2, <2>3 DEF SetUserRole, SessionsIInv, NamesStand, SessionsOfAccounts, SessionsHaveAccounts, Known, Account
    <2>8. NextRequestSeesIt'
        <3> SUFFICES ASSUME NEW r \in Web, web'[r].pc = "handler", ~ web'[r].edited
                     PROVE  /\ accounts'[web'[r].user].made > 0 /\ ~ accounts'[web'[r].user].must
                            /\ web'[r].role = accounts'[web'[r].user].role
            BY DEF NextRequestSeesIt, WebAt
        <3>1. web[r].pc = "handler" /\ ~ web[r].edited /\ web[r].user # u /\ web[r].user \in Person
            BY <1>0, <2>2 DEF SessionsIInv, NamesStand, WebState
        <3> QED
            BY <2>2, <2>3, <3>1 DEF SessionsIInv, NextRequestSeesIt, WebAt
    <2> QED
        BY <2>4, <2>5, <2>6, <2>7, <2>8 DEF SessionsIInv
<1>3. ASSUME AdminResetUserPassword(u) PROVE SessionsIInv'
    <2>1. Touched(u)
        BY <1>3 DEF AdminResetUserPassword
    <2>2. /\ web' \in [Web -> WebState]
          /\ \A r \in Web : /\ web'[r].pc = web[r].pc /\ web'[r].user = web[r].user /\ web'[r].made = web[r].made
                           /\ web'[r].role = web[r].role /\ web'[r].shown = web[r].shown
                           /\ web'[r].edited = (web[r].edited \/ web[r].user = u)
        BY <1>a, <2>1
    <2>a. lastPassword' \in 0 .. MaxPasswords /\ accounts[u].made > 0
        BY <1>0, <1>3 DEF AdminResetUserPassword, Known, SessionsTypeOK
    <2>b. [accounts[u] EXCEPT !.password = lastPassword', !.must = TRUE] \in Account
        BY <1>0, <2>a DEF Account
    <2>c. accounts' = [accounts EXCEPT ![u] = [accounts[u] EXCEPT !.password = lastPassword', !.must = TRUE]]
        BY <1>0, <1>3 DEF AdminResetUserPassword, Account
    <2>3. /\ accounts' \in [Person -> Account] /\ \A v \in Person : v # u => accounts'[v] = accounts[v]
          /\ accounts'[u].made = accounts[u].made /\ accounts[u].made > 0 /\ accounts'[u].must
        BY <1>0, <2>a, <2>b, <2>c DEF Account
    <2>4. SessionsTypeOK'
        BY <1>0, <1>3, <2>2, <2>3, BlankTypes DEF AdminResetUserPassword, SessionsTypeOK
    <2>5. NamesStand'
        BY <1>0, <1>3, <2>2, <2>3 DEF AdminResetUserPassword, SessionsIInv, NamesStand, NoSession, Known, Account
    <2>6. LoginsStand'
        BY <1>0, <1>3, <2>2, <2>3 DEF AdminResetUserPassword, SessionsIInv, NamesStand, LoginsStand, WebAt, Known, Account
    <2>7. SessionsOfAccounts' /\ SessionsHaveAccounts'
        BY <1>0, <1>3, <2>2, <2>3 DEF AdminResetUserPassword, SessionsIInv, NamesStand, SessionsOfAccounts, SessionsHaveAccounts, Known, Account
    <2>8. NextRequestSeesIt'
        <3> SUFFICES ASSUME NEW r \in Web, web'[r].pc = "handler", ~ web'[r].edited
                     PROVE  /\ accounts'[web'[r].user].made > 0 /\ ~ accounts'[web'[r].user].must
                            /\ web'[r].role = accounts'[web'[r].user].role
            BY DEF NextRequestSeesIt, WebAt
        <3>1. web[r].pc = "handler" /\ ~ web[r].edited /\ web[r].user # u /\ web[r].user \in Person
            BY <1>0, <2>2 DEF SessionsIInv, NamesStand, WebState
        <3> QED
            BY <2>2, <2>3, <3>1 DEF SessionsIInv, NextRequestSeesIt, WebAt
    <2> QED
        BY <2>4, <2>5, <2>6, <2>7, <2>8 DEF SessionsIInv
<1>4. ASSUME RemoveUser(u) PROVE SessionsIInv'
    <2>1. Touched(u)
        BY <1>4 DEF RemoveUser, Wiped
    <2>2. /\ web' \in [Web -> WebState]
          /\ \A r \in Web : /\ web'[r].pc = web[r].pc /\ web'[r].user = web[r].user /\ web'[r].made = web[r].made
                           /\ web'[r].role = web[r].role /\ web'[r].shown = web[r].shown
                           /\ web'[r].edited = (web[r].edited \/ web[r].user = u)
        BY <1>a, <2>1
    <2>3. /\ accounts' \in [Person -> Account] /\ \A v \in Person : v # u => accounts'[v] = accounts[v]
          /\ accounts'[u] = NoAccount /\ accounts'[u].made = 0 /\ ~ accounts'[u].must
        BY <1>0, <1>4, BlankTypes DEF RemoveUser, Wiped, Account, Known, SessionsTypeOK, UserRole, NoAccount
    <2>4. SessionsTypeOK'
        BY <1>0, <1>4, <2>2, <2>3, BlankTypes DEF RemoveUser, Wiped, SessionsTypeOK
    <2>5. NamesStand'
        BY <1>0, <1>4, <2>2, <2>3 DEF RemoveUser, Wiped, SessionsIInv, NamesStand, NoSession, Known, Account
    <2>6. LoginsStand'
        <3> SUFFICES ASSUME ~ crossed', NEW r \in Web, web'[r].pc \in {"session", "set"}
                     PROVE  ~ crossed /\ web[r].user \in Person /\ web[r].user # u
            BY <2>2, <2>3 DEF SessionsIInv, LoginsStand, WebAt
        <3>1. web[r].pc \in {"session", "set"}
            BY <2>2
        <3> QED
            BY <1>4, <3>1 DEF RemoveUser, SessionsIInv, NamesStand
    <2>7. SessionsOfAccounts' /\ SessionsHaveAccounts'
        BY <1>0, <1>4, <2>2, <2>3 DEF RemoveUser, Wiped, SessionsIInv, NamesStand, SessionsOfAccounts, SessionsHaveAccounts, Known, Account
    <2>8. NextRequestSeesIt'
        <3> SUFFICES ASSUME NEW r \in Web, web'[r].pc = "handler", ~ web'[r].edited
                     PROVE  /\ accounts'[web'[r].user].made > 0 /\ ~ accounts'[web'[r].user].must
                            /\ web'[r].role = accounts'[web'[r].user].role
            BY DEF NextRequestSeesIt, WebAt
        <3>1. web[r].pc = "handler" /\ ~ web[r].edited /\ web[r].user # u /\ web[r].user \in Person
            BY <1>0, <2>2 DEF SessionsIInv, NamesStand, WebState
        <3> QED
            BY <2>2, <2>3, <3>1 DEF SessionsIInv, NextRequestSeesIt, WebAt
    <2> QED
        BY <2>4, <2>5, <2>6, <2>7, <2>8 DEF SessionsIInv
<1> QED
    BY <1>1, <1>2, <1>3, <1>4 DEF AdminStep

LEMMA SessionsNextIInv == SessionsIInv /\ [SessionsNext]_sessionVars => SessionsIInv'
<1> SUFFICES ASSUME SessionsIInv, [SessionsNext]_sessionVars PROVE SessionsIInv'
    OBVIOUS
<1>1. ASSUME NEW t \in Token, DeleteSession(t) PROVE SessionsIInv'
    <2>1. /\ sessions' \in [Token -> SessionRow]
          /\ \A s \in Token : sessions'[s] \in {sessions[s], NoSession}
        BY <1>1, BlankTypes DEF DeleteSession, SessionsIInv, SessionsTypeOK
    <2> QED
        BY <1>1, <2>1 DEF DeleteSession, SessionsIInv, SessionsTypeOK, NamesStand, LoginsStand,
                          SessionsOfAccounts, SessionsHaveAccounts, NextRequestSeesIt, WebAt
<1>2. CASE UNCHANGED sessionVars
    BY <1>2 DEF sessionVars, SessionsIInv, SessionsTypeOK, NamesStand, LoginsStand,
                SessionsOfAccounts, SessionsHaveAccounts, NextRequestSeesIt, WebAt
<1> QED
    BY <1>1, <1>2, WebStepIInv, AdminStepIInv DEF SessionsNext

LEMMA SessionsStand == SessionsSpec => []SessionsIInv
    BY SessionsInitIInv, SessionsNextIInv, PTL DEF SessionsSpec

(* SessionsHaveAccounts: DeleteUser takes the sessions along, so a session  *)
(* never serves a later account of the same name, unless the deletion fell  *)
(* between a login's check and its CreateSession.                           *)
THEOREM SessionsOfTheirAccount == SessionsSpec => []SessionsHaveAccounts
<1>1. SessionsIInv => SessionsHaveAccounts
    BY DEF SessionsIInv
<1> QED
    BY <1>1, SessionsStand, PTL

(* NextRequestSeesIt: requireAuth reads the account on every request, so a  *)
(* page is served with the account's present role and without a password    *)
(* that is due, whatever happened before the request.                       *)
THEOREM RequestsSeeTheAccount == SessionsSpec => []NextRequestSeesIt
<1>1. SessionsIInv => NextRequestSeesIt
    BY DEF SessionsIInv
<1> QED
    BY <1>1, SessionsStand, PTL

(* DuePasswordIsShown: changePasswordHandler clears the flag of a password  *)
(* that is due only for someone who typed that password.                    *)
THEOREM DuePasswordKnown == SessionsSpec => DuePasswordIsShown
<1>1. ASSUME SessionsIInv, [SessionsNext]_sessionVars, NEW u \in Person, accounts[u].must,
             accounts'[u].made = accounts[u].made, ~ accounts'[u].must, ~ crossed
      PROVE  \E r \in Web : WebAt(r, "set") /\ web[r].user = u /\ web[r].shown = accounts[u].password
    <2>0. accounts \in [Person -> Account] /\ accounts[u] \in Account /\ accounts[u].made > 0
        BY <1>1 DEF SessionsIInv, SessionsTypeOK, NamesStand, Account
    <2>1. accounts' # accounts
        BY <1>1
    <2>2. ASSUME NEW v \in Person, AdminStep(v) PROVE FALSE
        <3>1. ~ (\E role \in UserRole, sso \in BOOLEAN : MakeUser(v, role, sso))
            BY <1>1, <2>0 DEF MakeUser, Known
        <3>2. ~ (\E role \in UserRole : SetUserRole(v, role))
            BY <1>1, <2>0 DEF SetUserRole, Account
        <3>3. ~ AdminResetUserPassword(v)
            BY <1>1, <2>0 DEF AdminResetUserPassword, Account
        <3>4. ~ RemoveUser(v)
            BY <1>1, <2>0 DEF RemoveUser, NoAccount
        <3> QED
            BY <2>2, <3>1, <3>2, <3>3, <3>4 DEF AdminStep
    <2>3. PICK r \in Web : ChangeSet(r)
        BY <1>1, <2>1, <2>2 DEF SessionsNext, sessionVars, WebStep, DeleteSession, LoginTyped, LoginVerify, LoginSSO,
                                LoginSession, Arrive, Lookup, Handler, ChangeVerify
    <2>4. web[r].user = u
        BY <1>1, <2>0, <2>1, <2>3 DEF ChangeSet
    <2> QED
        BY <1>1, <2>3, <2>4 DEF ChangeSet, SessionsIInv, LoginsStand
<1>2. SessionsIInv /\ [SessionsNext]_sessionVars =>
      [\A u \in Person :
          /\ accounts[u].must /\ accounts'[u].made = accounts[u].made /\ ~ accounts'[u].must
          /\ ~ crossed
          => \E r \in Web : /\ WebAt(r, "set") /\ web[r].user = u
                          /\ web[r].shown = accounts[u].password]_sessionVars
    BY <1>1
<1> QED
    BY <1>2, SessionsStand, PTL DEF SessionsSpec, DuePasswordIsShown

-----------------------------------------------------------------------------
(* Restoring the controller.                                                *)

(* When applyPendingRestore sets a file aside, and when it moves one in     *)
(* (never, for a log); where an entry is in the archive.                    *)
AsideStep(f) ==
    CASE f = "wharf.db" -> 1 [] f = "wharf.db-wal" -> 2 [] f = "wharf.db-shm" -> 3
      [] f = "keys.db" -> 4 [] f \in {"identity", "cert", "key"} -> 5 [] OTHER -> 10
MoveStep(f) ==
    CASE f = "wharf.db" -> 6 [] f = "keys.db" -> 7 [] f \in {"identity", "cert", "key"} -> 8 [] OTHER -> 10
Piece == Part \ {"identity"}
Pos(p) ==
    CASE p = "manifest.json" -> 1 [] p = "wharf.db" -> 2 [] p = "keys.db" -> 3 [] p = "cert" -> 4
      [] OTHER -> 5

LEMMA RestoreSteps ==
    /\ Len(SetAside) = 5 /\ Len(MoveIn) = 3 /\ Len(Archive) = 5
    /\ \A n \in 1 .. 5 : SetAside[n] \in File /\ \A f \in File : f \in With(SetAside[n]) <=> AsideStep(f) = n
    /\ \A n \in 1 .. 5 : SetAside[n] = "identity" <=> n = 5
    /\ \A n \in 1 .. 3 : \A f \in File : f \in With(MoveIn[n]) <=> MoveStep(f) = n + 5
    /\ \A n \in 1 .. 3 : MoveIn[n] \in Part /\ With(MoveIn[n]) \subseteq File \intersect Part
    /\ MoveIn[1] = "wharf.db" /\ MoveIn[2] = "keys.db" /\ MoveIn[3] = "identity"
    /\ \A n \in 1 .. 5 : Archive[n] \in Piece /\ Pos(Archive[n]) = n
    /\ \A p \in Piece : Pos(p) \in 1 .. 5 /\ Archive[Pos(p)] = p
<1>1. Len(SetAside) = 5 /\ Len(MoveIn) = 3 /\ Len(Archive) = 5
    BY DEF SetAside, MoveIn, Archive
<1>2. /\ SetAside[1] = "wharf.db" /\ SetAside[2] = "wharf.db-wal" /\ SetAside[3] = "wharf.db-shm"
      /\ SetAside[4] = "keys.db" /\ SetAside[5] = "identity"
    BY DEF SetAside
<1>3. MoveIn[1] = "wharf.db" /\ MoveIn[2] = "keys.db" /\ MoveIn[3] = "identity"
    BY DEF MoveIn
<1>4. /\ Archive[1] = "manifest.json" /\ Archive[2] = "wharf.db" /\ Archive[3] = "keys.db"
      /\ Archive[4] = "cert" /\ Archive[5] = "key"
    BY DEF Archive
<1>5. Piece = {"manifest.json", "wharf.db", "keys.db", "cert", "key"}
    BY DEF Piece, Part
<1>6. \A n \in 1 .. 5 : n = 1 \/ n = 2 \/ n = 3 \/ n = 4 \/ n = 5
    OBVIOUS
<1>7. \A n \in 1 .. 3 : n = 1 \/ n = 2 \/ n = 3
    OBVIOUS
<1>8. \A n \in 1 .. 5 : SetAside[n] \in File /\ \A f \in File : f \in With(SetAside[n]) <=> AsideStep(f) = n
    BY <1>2, <1>6 DEF AsideStep, File, With, InIdentity
<1>9. \A n \in 1 .. 3 : \A f \in File : f \in With(MoveIn[n]) <=> MoveStep(f) = n + 5
    BY <1>3, <1>7 DEF MoveStep, File, With, InIdentity
<1>10. \A n \in 1 .. 5 : SetAside[n] = "identity" <=> n = 5
    BY <1>2, <1>6
<1>11. \A n \in 1 .. 3 : MoveIn[n] \in Part /\ With(MoveIn[n]) \subseteq File \intersect Part
    BY <1>3, <1>7 DEF File, Part, With, InIdentity
<1>12. /\ \A n \in 1 .. 5 : Archive[n] \in Piece /\ Pos(Archive[n]) = n
       /\ \A p \in Piece : Pos(p) \in 1 .. 5 /\ Archive[Pos(p)] = p
    BY <1>4, <1>5, <1>6 DEF Pos
<1> QED
    BY <1>1, <1>3, <1>8, <1>9, <1>10, <1>11, <1>12

(* Where a start has got to: what it has not set aside yet has no file of   *)
(* that name aside, and what it has set aside is not there until it is      *)
(* moved in.                                                                *)
SuffixStands ==
    /\ suffix <= starts
    /\ \A s \in 0 .. MaxStarts : s > suffix => aside[s] = NoFile
    /\ power = "applying" /\ ~ hurried => \A f \in File : AsideStep(f) >= at => aside[suffix][f] = "none"
ApplyStands ==
    power = "applying" =>
        /\ at \in 1 .. 9 /\ pending
        /\ \A f \in Data \union Log : AsideStep(f) < at /\ at <= MoveStep(f) => files[f] = "none"

(* The controller's own files do not come back once they are set aside, so  *)
(* that nothing is written over them.                                       *)
OwnStands ==
    /\ files["identity"] = "none" => \A f \in InIdentity : files[f] = "none"
    /\ files["key"] = "own" => files["cert"] = "own"
    /\ power = "generating" => files["cert"] = "fresh"
    /\ files["keys.db"] = "own" => files["keys.db-journal"] \in {"none", "own"}

(* What is there of an archive is of one backup, but for one file that was  *)
(* cut off, after which there is nothing.                                   *)
Coherent(v) ==
    /\ \A p, q \in Piece : v[p] \notin {"none", "torn"} /\ v[q] \notin {"none", "torn"} => v[p] = v[q]
    /\ \A p, q \in Piece : v[p] = "torn" /\ Pos(p) < Pos(q) => v[q] = "none"

(* The archive as a start is moving it in.                                  *)
Underway == [p \in Part |-> IF MoveStep(p) < at THEN files[p] ELSE staging[p]]

(* A start has moved in what it has passed, and with the identity it will   *)
(* move a certificate.                                                      *)
Moved ==
    /\ Coherent(Underway) /\ files["keys.db-journal"] = "none"
    /\ \A p \in Piece : MoveStep(p) < at => staging[p] = "none"
    /\ Underway["identity"] # "none" => Underway["cert"] # "none"
    /\ at > 6 => files["wharf.db"] # "none"
    /\ at > 7 => files["keys.db"] # "none"
    /\ at > 8 => files["identity"] # "none"

(* What LoadOrGenerate accepts is of one origin.                            *)
Ready ==
    /\ files["wharf.db"] # "none" /\ files["keys.db"] # "none" /\ files["cert"] # "none"
    /\ files["cert"] = files["key"] => \A f \in Data : files[f] = files["wharf.db"]
    /\ \A f \in Log : files[f] \in {"none", files["wharf.db"]}
    /\ files["keys.db-journal"] \in {"none", files["keys.db"]}

UploadStands(u) ==
    uploads[u] # NoUpload =>
        /\ uploads[u].backup \in Backup
        /\ \A v \in Upload : v # u => uploads[v] = NoUpload
        /\ uploads[u].pc \in {"make", "entry", "write"} =>
               \A p \in Piece : /\ staging[p] \in {"none", uploads[u].backup}
                                /\ Pos(p) >= uploads[u].next => staging[p] = "none"
OneOrigin ==
    ~ overlapped /\ ~ spoilt =>
        /\ \A u \in Upload : UploadStands(u)
        /\ IF power = "applying" THEN Moved ELSE Coherent(staging)
        /\ power \in {"opening", "loading", "up"} \/ (power = "down" /\ ~ pending) => Ready
        /\ power \in {"loading", "up"} => \A f \in Log : files[f] = files["wharf.db"]
        /\ power = "up" => files["cert"] = files["key"]
        /\ power # "generating"

UploadsStand ==
    /\ power # "up" => \A u \in Upload : uploads[u] = NoUpload
    /\ \A u \in Upload : uploads[u].pc = "write" => uploads[u].next \in 1 .. 5

RestoreIInv ==
    /\ RestoreTypeOK /\ SuffixStands /\ ApplyStands /\ OwnStands /\ PreviousDataKept
    /\ OneOrigin /\ UploadsStand

(* The types with the lengths of the lists written out.                     *)
UploadRow == [backup : Backup \union {"none"}, next : 0 .. 6,
              pc : {"idle", "clear", "make", "entry", "write", "drop"}]

LEMMA RestoreTypes ==
    RestoreTypeOK <=>
        /\ power \in {"down", "applying", "opening", "loading", "generating", "up"}
        /\ files \in [File -> Origin]
        /\ aside \in [0 .. MaxStarts -> [File -> Origin]] /\ staging \in [Part -> Staged]
        /\ pending \in BOOLEAN /\ overlapped \in BOOLEAN /\ hurried \in BOOLEAN /\ spoilt \in BOOLEAN
        /\ at \in 0 .. 9 /\ suffix \in 0 .. MaxStarts /\ starts \in 0 .. MaxStarts
        /\ uploaded \in 0 .. MaxUploads /\ uploads \in [Upload -> UploadRow]
<1>1. Len(SetAside) + Len(MoveIn) + 1 = 9 /\ Len(Archive) + 1 = 6
    BY RestoreSteps
<1> QED
    BY <1>1 DEF RestoreTypeOK, UploadRow

LEMMA RestoreTypesNext ==
    RestoreTypeOK' <=>
        /\ power' \in {"down", "applying", "opening", "loading", "generating", "up"}
        /\ files' \in [File -> Origin]
        /\ aside' \in [0 .. MaxStarts -> [File -> Origin]] /\ staging' \in [Part -> Staged]
        /\ pending' \in BOOLEAN /\ overlapped' \in BOOLEAN /\ hurried' \in BOOLEAN /\ spoilt' \in BOOLEAN
        /\ at' \in 0 .. 9 /\ suffix' \in 0 .. MaxStarts /\ starts' \in 0 .. MaxStarts
        /\ uploaded' \in 0 .. MaxUploads /\ uploads' \in [Upload -> UploadRow]
<1>1. Len(SetAside) + Len(MoveIn) + 1 = 9 /\ Len(Archive) + 1 = 6
    BY RestoreSteps
<1> QED
    BY <1>1 DEF RestoreTypeOK, UploadRow

(* The steps of applyPendingRestore by file.                                *)
LEMMA StepRanges ==
    /\ \A f \in File : AsideStep(f) \in 1 .. 10
    /\ \A f \in Data \union Log : f \in File /\ AsideStep(f) \in 1 .. 5 /\ MoveStep(f) \in 6 .. 10
    /\ \A p \in Part : MoveStep(p) \in 6 .. 10 /\ (MoveStep(p) < 10 => p \in File)
    /\ \A f \in Log : MoveStep(f) = 10
    /\ \A f \in Data : MoveStep(f) \in 6 .. 8 /\ f \in Part /\ f \in Piece
    /\ MoveStep("wharf.db") = 6 /\ MoveStep("keys.db") = 7
    /\ MoveStep("identity") = 8 /\ MoveStep("cert") = 8 /\ MoveStep("key") = 8
    /\ AsideStep("identity") = 5 /\ AsideStep("keys.db-journal") = 10 /\ MoveStep("keys.db-journal") = 10
    /\ AsideStep("keys.db") = 4
    /\ {"wharf.db", "keys.db", "keys.db-journal", "identity", "cert", "key"} \subseteq File
    /\ {"wharf.db", "keys.db", "identity", "cert", "key"} \subseteq Part
    /\ Piece \subseteq Part /\ "identity" \notin Piece
<1>1. \A f \in File : AsideStep(f) \in 1 .. 10
    BY DEF AsideStep, File
<1>2. \A f \in Data \union Log : f \in File /\ AsideStep(f) \in 1 .. 5 /\ MoveStep(f) \in 6 .. 10
    BY DEF AsideStep, MoveStep, File, Data, Log
<1>3. \A p \in Part : MoveStep(p) \in 6 .. 10 /\ (MoveStep(p) < 10 => p \in File)
    BY DEF MoveStep, Part, File
<1>4. /\ \A f \in Log : MoveStep(f) = 10
      /\ \A f \in Data : MoveStep(f) \in 6 .. 8 /\ f \in Part /\ f \in Piece
    BY DEF MoveStep, Log, Data, Piece, Part
<1>5. /\ MoveStep("wharf.db") = 6 /\ MoveStep("keys.db") = 7
      /\ MoveStep("identity") = 8 /\ MoveStep("cert") = 8 /\ MoveStep("key") = 8
      /\ AsideStep("identity") = 5 /\ AsideStep("keys.db-journal") = 10 /\ MoveStep("keys.db-journal") = 10
      /\ AsideStep("keys.db") = 4
    BY DEF MoveStep, AsideStep
<1>6. /\ {"wharf.db", "keys.db", "keys.db-journal", "identity", "cert", "key"} \subseteq File
      /\ {"wharf.db", "keys.db", "identity", "cert", "key"} \subseteq Part
      /\ Piece \subseteq Part /\ "identity" \notin Piece
    BY DEF File, Part, Piece
<1> QED
    BY <1>1, <1>2, <1>3, <1>4, <1>5, <1>6

LEMMA RestoreInitIInv == RestoreInit => RestoreIInv
<1> SUFFICES ASSUME RestoreInit PROVE RestoreIInv
    OBVIOUS
<1> USE ControllerRestoreAssumption DEF RestoreInit
<1>1. /\ files \in [File -> Origin] /\ \A f \in Data : files[f] = "own"
      /\ files["identity"] = "dir" /\ files["keys.db-journal"] = "none" /\ \A f \in Log : files[f] = "none"
    BY DEF File, Origin, Staged, Data, Log
<1>2. aside \in [0 .. MaxStarts -> [File -> Origin]] /\ staging \in [Part -> Staged]
    BY DEF NoFile, NoPart, Origin, Staged
<1>3. NoUpload \in UploadRow /\ NoUpload.pc = "idle"
    BY DEF NoUpload, UploadRow
<1>a. /\ power = "down" /\ pending = FALSE /\ overlapped = FALSE /\ hurried = FALSE /\ spoilt = FALSE
      /\ at = 0 /\ suffix = 0 /\ starts = 0 /\ uploaded = 0
    OBVIOUS
<1>b. uploads \in [Upload -> UploadRow] /\ 0 \in 0 .. MaxStarts /\ 0 \in 0 .. MaxUploads
    BY <1>3
<1>c. /\ power \in {"down", "applying", "opening", "loading", "generating", "up"}
      /\ pending \in BOOLEAN /\ overlapped \in BOOLEAN /\ hurried \in BOOLEAN /\ spoilt \in BOOLEAN
    BY <1>a
<1>e. at \in 0 .. 9 /\ suffix \in 0 .. MaxStarts /\ starts \in 0 .. MaxStarts /\ uploaded \in 0 .. MaxUploads
    BY <1>a, <1>b
<1>4. RestoreTypeOK
    BY <1>1, <1>2, <1>b, <1>c, <1>e, RestoreTypes
<1>d. \A s \in 0 .. MaxStarts : aside[s] = NoFile
    OBVIOUS
<1>5. SuffixStands /\ ApplyStands /\ PreviousDataKept
    BY <1>1, <1>d DEF SuffixStands, ApplyStands, PreviousDataKept
<1>6. OwnStands
    BY <1>1 DEF OwnStands, Data
<1>7. Ready
    BY <1>1 DEF Ready, Data
<1>8. Coherent(staging)
    BY StepRanges DEF Coherent, NoPart
<1>9. OneOrigin /\ UploadsStand
    BY <1>3, <1>7, <1>8 DEF OneOrigin, UploadStands, UploadsStand
<1> QED
    BY <1>4, <1>5, <1>6, <1>9 DEF RestoreIInv

(* Taking entries away leaves it of one backup.                             *)
LEMMA FewerCoherent ==
    ASSUME NEW v, NEW w, \A p \in Piece : w[p] \in {v[p], "none"}, Coherent(v)
    PROVE  Coherent(w)
BY DEF Coherent

(* An upload works on restore-pending alone.                                *)
StagedBy(u) ==
    /\ power = "up" /\ UNCHANGED <<power, files, aside, at, suffix, hurried, spoilt, starts>>
    /\ \A v \in Upload : v # u => uploads'[v] = uploads[v]

StagedWell(u) ==
    /\ ~ overlapped
    /\ Coherent(staging')
    /\ UploadStands(u)'
    /\ \A v \in Upload : v # u => uploads[v] = NoUpload

LEMMA StagedIInv ==
    ASSUME RestoreIInv, NEW u \in Upload, StagedBy(u), RestoreTypeOK',
           uploads'[u].pc = "write" => uploads'[u].next \in 1 .. 5,
           ~ overlapped' /\ ~ spoilt => StagedWell(u)
    PROVE  RestoreIInv'
<1> USE DEF StagedWell
<1>1. SuffixStands' /\ ApplyStands' /\ PreviousDataKept' /\ OwnStands'
    BY DEF RestoreIInv, StagedBy, SuffixStands, ApplyStands, PreviousDataKept, OwnStands
<1>2. UploadsStand'
    BY DEF RestoreIInv, StagedBy, UploadsStand
<1>3. ASSUME ~ overlapped', ~ spoilt' PROVE \A v \in Upload : UploadStands(v)'
    <2>1. \A v \in Upload : v # u => uploads'[v] = NoUpload
        BY <1>3 DEF StagedBy
    <2> QED
        BY <1>3, <2>1 DEF UploadStands, StagedBy
<1>4. OneOrigin'
    BY <1>3 DEF RestoreIInv, OneOrigin, StagedBy, Ready
<1> QED
    BY <1>1, <1>2, <1>4 DEF RestoreIInv

(* A step of an upload that has started.                                    *)
LEMMA UploadStepIInv ==
    ASSUME RestoreIInv, NEW u \in Upload, power = "up", uploads[u] # NoUpload, OnlyStaging,
           NEW x \in UploadRow, uploads' = [uploads EXCEPT ![u] = x],
           x.pc = "write" => x.next \in 1 .. 5,
           pending' \in BOOLEAN, staging' \in [Part -> Staged],
           ~ overlapped /\ ~ spoilt =>
               /\ Coherent(staging')
               /\ x # NoUpload => x.backup = uploads[u].backup
               /\ x.pc \in {"make", "entry", "write"} =>
                      \A p \in Piece : /\ staging'[p] \in {"none", x.backup}
                                       /\ Pos(p) >= x.next => staging'[p] = "none"
    PROVE  RestoreIInv'
<1>0. RestoreTypeOK /\ uploads \in [Upload -> UploadRow]
    BY RestoreTypes DEF RestoreIInv
<1>1. uploads'[u] = x /\ uploads' \in [Upload -> UploadRow]
    BY <1>0
<1>2. RestoreTypeOK'
    BY <1>0, <1>1, RestoreTypes, RestoreTypesNext DEF OnlyStaging
<1>3. StagedBy(u) /\ overlapped' = overlapped
    BY <1>0 DEF StagedBy, OnlyStaging
<1>4. ASSUME ~ overlapped', ~ spoilt PROVE StagedWell(u)
    <2>1. UploadStands(u) /\ ~ overlapped
        BY <1>3, <1>4 DEF RestoreIInv, OneOrigin
    <2>2. \A v \in Upload : v # u => uploads[v] = NoUpload /\ uploads'[v] = NoUpload
        BY <1>3, <2>1 DEF UploadStands, StagedBy
    <2>3. UploadStands(u)'
        BY <1>1, <1>4, <2>1, <2>2 DEF UploadStands
    <2> QED
        BY <1>4, <2>1, <2>2, <2>3 DEF StagedWell
<1> QED
    BY <1>1, <1>2, <1>3, <1>4, StagedIInv

(* What an upload has written so far.                                       *)
LEMMA UploadSoFar ==
    ASSUME NEW u \in Upload, UploadStands(u), uploads[u] # NoUpload, uploads[u].pc = "write"
    PROVE  \A p \in Piece : /\ staging[p] \in {"none", uploads[u].backup}
                            /\ Pos(p) >= uploads[u].next => staging[p] = "none"
BY DEF UploadStands

(* os.RemoveAll, file by file.                                              *)
LEMMA UnlinkedIs ==
    ASSUME RestoreTypeOK, NEW p \in Part, Unlinked(p)
    PROVE  staging' \in [Part -> Staged] /\ \A q \in Part : staging'[q] \in {staging[q], "none"}
<1>1. staging \in [Part -> Staged] /\ "none" \in Staged
    BY RestoreTypes DEF Staged
<1> QED
    BY <1>1 DEF Unlinked

LEMMA UploadIInv ==
    ASSUME RestoreIInv, NEW u \in Upload,
           \/ \E b \in Backup : StageStart(u, b)
           \/ RemoveOne(u) \/ RemoveEnd(u) \/ RemoveFails(u) \/ StageMake(u)
           \/ StageEntry(u) \/ StageWrite(u) \/ StageEnd(u) \/ StageFails(u)
    PROVE  RestoreIInv'
<1> USE ControllerRestoreAssumption
<1> DEFINE q == uploads[u]
<1>0. /\ RestoreTypeOK /\ uploads \in [Upload -> UploadRow] /\ q \in UploadRow
      /\ staging \in [Part -> Staged] /\ pending \in BOOLEAN /\ NoUpload \in UploadRow
      /\ NoUpload.pc = "idle" /\ {"torn", "dir", "none"} \subseteq Staged
    BY RestoreTypes DEF RestoreIInv, NoUpload, UploadRow, Staged
<1>a. /\ q.backup \in Backup \union {"none"} /\ q.backup \in Staged /\ q.next \in 0 .. 6
      /\ q = [backup |-> q.backup, pc |-> q.pc, next |-> q.next]
    BY <1>0 DEF UploadRow, Staged
<1>b. \A pc \in {"make", "entry", "write", "clear", "drop"} : UploadAt(u, pc) => q # NoUpload /\ power = "up" /\ q.pc = pc
    BY <1>0 DEF UploadAt
<1>c. ASSUME ~ overlapped, ~ spoilt, power = "up", q # NoUpload
      PROVE  UploadStands(u) /\ Coherent(staging) /\ q.backup \in Backup
    BY <1>c DEF RestoreIInv, OneOrigin, UploadStands
(* Going on to pc, or to the next entry.                                    *)
<1>d. ASSUME NEW pc \in {"idle", "clear", "make", "entry", "write", "drop"}
      PROVE  /\ [q EXCEPT !.pc = pc] \in UploadRow /\ [q EXCEPT !.pc = pc].pc = pc
             /\ [q EXCEPT !.pc = pc].next = q.next /\ [q EXCEPT !.pc = pc].backup = q.backup
    BY <1>0 DEF UploadRow
<1>e. ASSUME NEW pc, UploadGoes(u, pc) PROVE uploads' = [uploads EXCEPT ![u] = [q EXCEPT !.pc = pc]]
    BY <1>0, <1>e DEF UploadGoes
<1>1. ASSUME NEW b \in Backup, StageStart(u, b) PROVE RestoreIInv'
    <2> DEFINE x == [backup |-> b, pc |-> "clear", next |-> 1]
    <2>1. x \in UploadRow /\ uploads'[u] = x /\ x.pc = "clear" /\ x.backup = b
        BY <1>0, <1>1 DEF StageStart, UploadRow
    <2>2. StagedBy(u) /\ staging' = staging
        BY <1>0, <1>1 DEF StageStart, StagedBy
    <2>3. overlapped' = (overlapped \/ \E v \in Upload : uploads[v] # NoUpload)
        BY <1>1 DEF StageStart
    <2>a. overlapped' \in BOOLEAN
        BY <2>3
    <2>b. uploads' \in [Upload -> UploadRow]
        BY <1>0, <1>1, <2>1 DEF StageStart
    <2>c. uploaded' \in 0 .. MaxUploads
        BY <1>0, <1>1, RestoreTypes DEF StageStart
    <2>4. RestoreTypeOK'
        BY <1>0, <1>1, <2>a, <2>b, <2>c, RestoreTypes, RestoreTypesNext DEF StageStart
    <2> HIDE DEF x
    <2>5. ASSUME ~ overlapped', ~ spoilt PROVE StagedWell(u)
        <3>1. ~ overlapped /\ \A v \in Upload : uploads[v] = NoUpload
            BY <2>3, <2>5
        <3>2. \A v \in Upload : v # u => uploads'[v] = NoUpload
            BY <2>2, <3>1 DEF StagedBy
        <3>3. Coherent(staging)
            BY <1>1, <2>5, <3>1 DEF RestoreIInv, OneOrigin, StageStart
        <3>4. UploadStands(u)'
            BY <2>1, <3>2 DEF UploadStands
        <3> QED
            BY <2>2, <3>1, <3>3, <3>4 DEF StagedWell
    <2> QED
        BY <2>1, <2>2, <2>4, <2>5, StagedIInv
<1>2. CASE RemoveOne(u)
    <2>1. power = "up" /\ q # NoUpload /\ q.pc \in {"clear", "drop"} /\ OnlyStaging /\ pending' = pending /\ uploads' = uploads
        BY <1>2, <1>b DEF RemoveOne
    <2>2. PICK p \in Part : Unlinked(p)
        BY <1>2 DEF RemoveOne
    <2>3. staging' \in [Part -> Staged] /\ \A r \in Part : staging'[r] \in {staging[r], "none"}
        BY <1>0, <2>2, UnlinkedIs
    <2>4. uploads' = [uploads EXCEPT ![u] = q]
        BY <1>0, <2>1
    <2>5. ~ overlapped /\ ~ spoilt => Coherent(staging')
        BY <1>c, <2>1, <2>3, FewerCoherent, StepRanges
    <2> QED
        BY <1>0, <2>1, <2>3, <2>4, <2>5, UploadStepIInv
<1>3. CASE RemoveEnd(u)
    <2>1. power = "up" /\ q # NoUpload /\ OnlyStaging /\ pending' = FALSE /\ staging' = staging /\ staging = NoPart
        BY <1>3, <1>b DEF RemoveEnd, AllUnlinked
    <2>2. \A p \in Piece : staging'[p] = "none"
        BY <2>1, StepRanges DEF NoPart
    <2>3. Coherent(staging')
        BY <2>2 DEF Coherent
    <2>4. CASE uploads' = [uploads EXCEPT ![u] = NoUpload]
        BY <1>0, <2>1, <2>3, <2>4, UploadStepIInv
    <2>5. CASE UploadGoes(u, "make")
        <3>1. uploads' = [uploads EXCEPT ![u] = [q EXCEPT !.pc = "make"]]
            BY <1>e, <2>5
        <3> QED
            BY <1>0, <1>d, <2>1, <2>2, <2>3, <3>1, UploadStepIInv
    <2> QED
        BY <1>3, <2>4, <2>5 DEF RemoveEnd
<1>4. CASE RemoveFails(u)
    <2>1. /\ power = "up" /\ q # NoUpload /\ OnlyStaging /\ pending' = pending /\ staging' = staging
          /\ uploads' = [uploads EXCEPT ![u] = NoUpload]
        BY <1>4, <1>b DEF RemoveFails
    <2>2. ~ overlapped /\ ~ spoilt => Coherent(staging')
        BY <1>c, <2>1
    <2> QED
        BY <1>0, <2>1, <2>2, UploadStepIInv
<1>5. CASE StageMake(u)
    <2> DEFINE x == [q EXCEPT !.pc = "entry"]
    <2>1. /\ power = "up" /\ q # NoUpload /\ q.pc = "make" /\ OnlyStaging /\ pending' = TRUE /\ staging' = staging
          /\ uploads' = [uploads EXCEPT ![u] = x]
        BY <1>5, <1>b, <1>e DEF StageMake
    <2>2. x \in UploadRow /\ x.pc = "entry" /\ x.next = q.next /\ x.backup = q.backup
        BY <1>d
    <2>3. ASSUME ~ overlapped, ~ spoilt
          PROVE  Coherent(staging') /\ \A p \in Piece : /\ staging'[p] \in {"none", q.backup}
                                                        /\ Pos(p) >= q.next => staging'[p] = "none"
        BY <1>c, <2>1, <2>3 DEF UploadStands
    <2> QED
        BY <1>0, <2>1, <2>2, <2>3, UploadStepIInv
<1>6. CASE StageEntry(u)
    <2> DEFINE x == [q EXCEPT !.pc = "write"]
    <2>1. /\ power = "up" /\ q # NoUpload /\ q.pc = "entry" /\ OnlyStaging /\ pending' = TRUE
          /\ uploads' = [uploads EXCEPT ![u] = x] /\ q.next \in 1 .. 5
        BY <1>6, <1>b, <1>e, RestoreSteps DEF StageEntry
    <2>2. x \in UploadRow /\ x.pc = "write" /\ x.next = q.next /\ x.backup = q.backup
        BY <1>d
    <2>3. staging' = staging \/ staging' = [staging EXCEPT !["identity"] = "dir"]
        BY <1>6 DEF StageEntry
    <2>4. staging' \in [Part -> Staged] /\ \A p \in Piece : staging'[p] = staging[p]
        BY <1>0, <2>3, StepRanges
    <2>5. ASSUME ~ overlapped, ~ spoilt
          PROVE  Coherent(staging') /\ \A p \in Piece : /\ staging'[p] \in {"none", q.backup}
                                                        /\ Pos(p) >= q.next => staging'[p] = "none"
        BY <1>c, <2>1, <2>4, <2>5, FewerCoherent DEF UploadStands
    <2> QED
        BY <1>0, <2>1, <2>2, <2>4, <2>5, UploadStepIInv
<1>f. ASSUME UploadAt(u, "write"), OnlyStaging PROVE q.next \in 1 .. 5 /\ Archive[q.next] \in Piece /\ Pos(Archive[q.next]) = q.next
    BY <1>b, <1>f, RestoreSteps DEF RestoreIInv, UploadsStand
<1>g. ASSUME UploadAt(u, "write"), OnlyStaging, NEW y \in Staged, staging' = [staging EXCEPT ![Archive[q.next]] = y]
      PROVE  /\ staging' \in [Part -> Staged]
             /\ \A p \in Piece : staging'[p] = IF Pos(p) = q.next THEN y ELSE staging[p]
    <2>1. \A p \in Piece : p = Archive[q.next] <=> Pos(p) = q.next
        BY <1>f, <1>g, RestoreSteps
    <2> QED
        BY <1>0, <1>f, <1>g, <2>1, StepRanges
<1>7. CASE StageWrite(u)
    <2> DEFINE x == [backup |-> q.backup, pc |-> "entry", next |-> q.next + 1]
    <2>1. /\ power = "up" /\ q # NoUpload /\ q.pc = "write" /\ UploadAt(u, "write") /\ OnlyStaging /\ pending' = pending
        BY <1>7, <1>b DEF StageWrite, CanWrite
    <2>2. q.next \in 1 .. 5
        BY <1>f, <2>1
    <2>3. uploads' = [uploads EXCEPT ![u] = x]
        BY <1>0, <1>7, <1>a DEF StageWrite, UploadRow
    <2>4. x \in UploadRow /\ x.pc = "entry" /\ x.next = q.next + 1 /\ x.backup = q.backup
        BY <1>a, <2>2 DEF UploadRow
    <2> HIDE DEF x
    <2>5. /\ staging' \in [Part -> Staged]
          /\ \A p \in Piece : staging'[p] = IF Pos(p) = q.next THEN q.backup ELSE staging[p]
        BY <1>7, <1>a, <1>g, <2>1 DEF StageWrite
    <2>6. ASSUME ~ overlapped, ~ spoilt
          PROVE  /\ Coherent(staging')
                 /\ \A p \in Piece : /\ staging'[p] \in {"none", q.backup}
                                     /\ Pos(p) >= q.next + 1 => staging'[p] = "none"
        <3>1. \A p \in Piece : staging[p] \in {"none", q.backup} /\ (Pos(p) >= q.next => staging[p] = "none")
            BY <1>c, <2>1, <2>6, UploadSoFar
        <3>2. \A p \in Piece : staging'[p] \in {"none", q.backup} /\ (Pos(p) >= q.next + 1 => staging'[p] = "none")
            BY <2>2, <2>5, <3>1, RestoreSteps
        <3>3. q.backup # "torn"
            BY <1>c, <2>1, <2>6
        <3>4. Coherent(staging')
            BY <3>2, <3>3 DEF Coherent
        <3> QED
            BY <3>2, <3>4
    <2> QED
        BY <1>0, <2>1, <2>3, <2>4, <2>5, <2>6, UploadStepIInv
<1>8. CASE StageEnd(u)
    <2>1. power = "up" /\ q # NoUpload /\ OnlyStaging /\ pending' = pending /\ staging' = staging
        BY <1>8, <1>b DEF StageEnd
    <2>2. ~ overlapped /\ ~ spoilt => Coherent(staging')
        BY <1>c, <2>1
    <2>3. CASE uploads' = [uploads EXCEPT ![u] = NoUpload]
        BY <1>0, <2>1, <2>2, <2>3, UploadStepIInv
    <2>4. CASE UploadGoes(u, "drop")
        <3>1. uploads' = [uploads EXCEPT ![u] = [q EXCEPT !.pc = "drop"]]
            BY <1>e, <2>4
        <3> QED
            BY <1>0, <1>d, <2>1, <2>2, <3>1, UploadStepIInv
    <2> QED
        BY <1>8, <2>3, <2>4 DEF StageEnd
<1>9. CASE StageFails(u)
    <2>1. power = "up" /\ q # NoUpload /\ OnlyStaging /\ pending' = pending
        BY <1>9, <1>b DEF StageFails
    <2>2. CASE staging' = staging /\ uploads' = [uploads EXCEPT ![u] = NoUpload]
        <3>1. ~ overlapped /\ ~ spoilt => Coherent(staging')
            BY <1>c, <2>1, <2>2
        <3> QED
            BY <1>0, <2>1, <2>2, <3>1, UploadStepIInv
    <2>3. CASE staging' = staging /\ UploadGoes(u, "drop")
        <3>1. ~ overlapped /\ ~ spoilt => Coherent(staging')
            BY <1>c, <2>1, <2>3
        <3>2. uploads' = [uploads EXCEPT ![u] = [q EXCEPT !.pc = "drop"]]
            BY <1>e, <2>3
        <3> QED
            BY <1>0, <1>d, <2>1, <2>3, <3>1, <3>2, UploadStepIInv
    <2>4. CASE CanWrite(u) /\ UploadGoes(u, "drop") /\ staging' = [staging EXCEPT ![Archive[q.next]] = "torn"]
        <3>0. UploadAt(u, "write") /\ q.pc = "write"
            BY <1>b, <2>4 DEF CanWrite
        <3>1. /\ staging' \in [Part -> Staged]
              /\ \A p \in Piece : staging'[p] = IF Pos(p) = q.next THEN "torn" ELSE staging[p]
            BY <1>0, <1>g, <2>1, <2>4, <3>0
        <3>2. ASSUME ~ overlapped, ~ spoilt PROVE Coherent(staging')
            <4>1. \A p \in Piece : staging[p] \in {"none", q.backup} /\ (Pos(p) >= q.next => staging[p] = "none")
                BY <1>c, <2>1, <3>0, <3>2, UploadSoFar
            <4>2. q.backup # "torn" /\ q.next \in 1 .. 5
                BY <1>c, <1>f, <2>1, <3>0, <3>2
            <4> QED
                BY <3>1, <4>1, <4>2, RestoreSteps DEF Coherent
        <3>3. uploads' = [uploads EXCEPT ![u] = [q EXCEPT !.pc = "drop"]]
            BY <1>e, <2>4
        <3> QED
            BY <1>0, <1>d, <2>1, <3>1, <3>2, <3>3, UploadStepIInv
    <2> QED
        BY <1>9, <2>2, <2>3, <2>4 DEF StageFails
<1> QED
    BY <1>1, <1>2, <1>3, <1>4, <1>5, <1>6, <1>7, <1>8, <1>9

(* What a start that is cut short leaves staged.                            *)
LEMMA StagedWhenCut ==
    ASSUME RestoreIInv, ~ overlapped, ~ spoilt
    PROVE  Coherent(staging)
<1>1. CASE power # "applying"
    BY <1>1 DEF RestoreIInv, OneOrigin
<1>2. CASE power = "applying"
    <2>1. Moved
        BY <1>2 DEF RestoreIInv, OneOrigin
    <2>2. \A p \in Piece : staging[p] \in {Underway[p], "none"}
        BY <2>1, StepRanges DEF Moved, Underway
    <2> QED
        BY <2>1, <2>2, FewerCoherent DEF Moved
<1> QED
    BY <1>1, <1>2

LEMMA StartIInv ==
    ASSUME RestoreIInv, NEW sameSecond \in BOOLEAN, Start(sameSecond)
    PROVE  RestoreIInv'
<1> USE ControllerRestoreAssumption
<1>0. /\ RestoreTypeOK /\ suffix <= starts /\ starts < MaxStarts /\ suffix \in Nat /\ starts \in Nat
      /\ suffix \in 0 .. MaxStarts
    BY RestoreTypes DEF RestoreIInv, SuffixStands, Start
<1>1. /\ files' = files /\ aside' = aside /\ staging' = staging /\ pending' = pending
      /\ uploads' = uploads /\ overlapped' = overlapped /\ uploaded' = uploaded
      /\ at' = 1 /\ starts' = starts + 1 /\ power = "down"
    BY DEF Start
<1>2. suffix' \in 0 .. MaxStarts /\ suffix' <= starts' /\ suffix' >= suffix
    BY <1>0, <1>1 DEF Start
<1>3. starts' \in 0 .. MaxStarts
    BY <1>0, <1>1
<1>4. /\ power' \in {"opening", "applying"} /\ (power' = "applying" => pending)
      /\ (power' = "opening" => ~ pending)
    BY <1>0, RestoreTypes DEF Start
<1>5. hurried' \in BOOLEAN
    BY DEF Start
<1>a. spoilt' \in BOOLEAN /\ (~ spoilt' => ~ spoilt /\ ~ Spoils)
    BY DEF Start
<1>6. RestoreTypeOK'
    BY <1>0, <1>1, <1>2, <1>3, <1>4, <1>5, <1>a, RestoreTypes, RestoreTypesNext
<1>7. ASSUME power' = "applying", ~ hurried' PROVE \A f \in File : aside'[suffix'][f] = "none"
    <2>1. ~ sameSecond
        BY <1>4, <1>7 DEF Start
    <2>2. suffix' = suffix + 1
        BY <2>1 DEF Start
    <2>3. aside[suffix'] = NoFile
        BY <1>0, <1>2, <2>2 DEF RestoreIInv, SuffixStands
    <2> QED
        BY <1>1, <2>3 DEF NoFile
<1>8. SuffixStands'
    <2>1. \A s \in 0 .. MaxStarts : s > suffix' => aside'[s] = NoFile
        BY <1>0, <1>1, <1>2 DEF RestoreIInv, SuffixStands
    <2> QED
        BY <1>2, <1>7, <2>1 DEF SuffixStands
<1>9. ApplyStands' /\ OwnStands'
    BY <1>1, <1>4, StepRanges DEF RestoreIInv, ApplyStands, OwnStands
<1>10. PreviousDataKept'
    BY <1>1 DEF RestoreIInv, PreviousDataKept, Start
<1>11. UploadsStand' /\ \A u \in Upload : uploads'[u] = NoUpload
    BY <1>1 DEF RestoreIInv, UploadsStand
<1>12. ASSUME ~ overlapped', ~ spoilt', power' = "applying" PROVE Moved'
    <2>1. Coherent(staging) /\ ~ Spoils /\ pending
        BY <1>1, <1>4, <1>a, <1>12, StagedWhenCut
    <2>2. \A p \in Part : Underway'[p] = staging[p]
        BY <1>1, StepRanges DEF Underway
    <2>3. Coherent(Underway')
        BY <2>1, <2>2, FewerCoherent, StepRanges
    <2>4. /\ files'["keys.db-journal"] = "none"
          /\ Underway'["identity"] # "none" => Underway'["cert"] # "none"
        BY <1>1, <2>1, <2>2, StepRanges DEF Spoils
    <2>5. \A p \in Piece : ~ (MoveStep(p) < at')
        BY <1>1, StepRanges
    <2> QED
        BY <1>1, <2>3, <2>4, <2>5 DEF Moved
<1>13. ASSUME ~ overlapped', ~ spoilt', power' = "opening" PROVE Ready' /\ Coherent(staging')
    BY <1>1, <1>4, <1>13, <1>a DEF RestoreIInv, OneOrigin, Ready
<1>14. OneOrigin'
    BY <1>4, <1>11, <1>12, <1>13 DEF OneOrigin, UploadStands
<1> QED
    BY <1>6, <1>8, <1>9, <1>10, <1>11, <1>14 DEF RestoreIInv

(* A start that gives up changes nothing.                                   *)
LEMMA FatalIInv ==
    ASSUME RestoreIInv, power = "applying" \/ power = "loading", Fatal,
           UNCHANGED <<files, aside, staging, pending, suffix, uploads, overlapped, hurried, spoilt, starts, uploaded>>
    PROVE  RestoreIInv'
<1>1. /\ power' = "down" /\ at' = 0 /\ files' = files /\ aside' = aside /\ staging' = staging
      /\ pending' = pending /\ suffix' = suffix /\ uploads' = uploads /\ overlapped' = overlapped
      /\ hurried' = hurried /\ spoilt' = spoilt /\ starts' = starts /\ uploaded' = uploaded
    BY DEF Fatal
<1>2. RestoreTypeOK'
    BY <1>1, RestoreTypes, RestoreTypesNext DEF RestoreIInv
<1>3. SuffixStands' /\ ApplyStands' /\ PreviousDataKept' /\ OwnStands'
    BY <1>1 DEF RestoreIInv, SuffixStands, ApplyStands, PreviousDataKept, OwnStands
<1>4. UploadsStand' /\ \A u \in Upload : uploads'[u] = NoUpload
    BY <1>1 DEF RestoreIInv, UploadsStand
<1>5. ASSUME ~ overlapped', ~ spoilt' PROVE Coherent(staging')
    BY <1>1, <1>5, StagedWhenCut
<1>6. ASSUME ~ overlapped', ~ spoilt', ~ pending' PROVE Ready'
    BY <1>1, <1>6 DEF RestoreIInv, OneOrigin, ApplyStands, Ready
<1>7. OneOrigin'
    BY <1>1, <1>4, <1>5, <1>6 DEF OneOrigin, UploadStands
<1> QED
    BY <1>2, <1>3, <1>4, <1>7 DEF RestoreIInv

(* Setting a file aside overwrites nothing: under a suffix of its own there *)
(* is no file of that name yet.                                             *)
LEMMA SetAsideIInv ==
    ASSUME RestoreIInv, ApplySetAside
    PROVE  RestoreIInv'
<1> USE ControllerRestoreAssumption
<1> DEFINE fs == With(SetAside[at])
<1>0. /\ RestoreTypeOK /\ power = "applying" /\ at \in 1 .. 5 /\ pending /\ suffix \in 0 .. MaxStarts
      /\ files \in [File -> Origin] /\ aside \in [0 .. MaxStarts -> [File -> Origin]]
    BY RestoreTypes, RestoreSteps DEF RestoreIInv, ApplyStands, ApplySetAside
<1>1. /\ staging' = staging /\ pending' = pending /\ suffix' = suffix /\ uploads' = uploads
      /\ overlapped' = overlapped /\ hurried' = hurried /\ spoilt' = spoilt /\ starts' = starts
      /\ uploaded' = uploaded
    BY DEF ApplySetAside
<1>2. \A f \in File : f \in fs <=> AsideStep(f) = at
    BY <1>0, RestoreSteps
<1>3. \/ files[SetAside[at]] = "none" /\ at' = at + 1 /\ UNCHANGED <<power, files, aside>>
      \/ Fatal /\ UNCHANGED <<files, aside>>
      \/ /\ aside' = Renamed(fs) /\ files' = [f \in File |-> IF f \in fs THEN "none" ELSE files[f]]
         /\ at' = at + 1 /\ UNCHANGED power
    BY DEF ApplySetAside
<1>a. files[SetAside[at]] = "none" => \A f \in fs : files[f] = "none"
    BY <1>0 DEF With, RestoreIInv, OwnStands
<1>4. CASE Fatal /\ UNCHANGED <<files, aside>>
    BY <1>0, <1>1, <1>4, FatalIInv
<1> HIDE DEF fs
(* What this step disturbs, whether there was anything to rename or not.    *)
<1>5. ASSUME at' = at + 1, power' = power, files' \in [File -> Origin],
             \A f \in File : files'[f] = IF f \in fs THEN "none" ELSE files[f],
             aside' \in [0 .. MaxStarts -> [File -> Origin]],
             \A s \in 0 .. MaxStarts : s # suffix => aside'[s] = aside[s],
             \A f \in File : f \notin fs => aside'[suffix][f] = aside[suffix][f],
             PreviousDataKept'
      PROVE  RestoreIInv'
    <2>1. at' \in 2 .. 6
        BY <1>0, <1>5
    <2>2. RestoreTypeOK'
        BY <1>0, <1>1, <1>5, <2>1, RestoreTypes, RestoreTypesNext
    <2>3. SuffixStands'
        <3>1. suffix' <= starts' /\ \A s \in 0 .. MaxStarts : s > suffix' => aside'[s] = NoFile
            BY <1>0, <1>1, <1>5 DEF RestoreIInv, SuffixStands
        <3>2. ASSUME ~ hurried', NEW f \in File, AsideStep(f) >= at' PROVE aside'[suffix'][f] = "none"
            <4>0. AsideStep(f) \in 1 .. 10
                BY StepRanges
            <4>1. AsideStep(f) >= at /\ f \notin fs
                BY <1>0, <1>2, <1>5, <3>2, <4>0
            <4> QED
                BY <1>0, <1>1, <1>5, <3>2, <4>1 DEF RestoreIInv, SuffixStands
        <3> QED
            BY <3>1, <3>2 DEF SuffixStands
    <2>4. ApplyStands'
        <3>1. ASSUME NEW f \in Data \union Log, AsideStep(f) < at', at' <= MoveStep(f) PROVE files'[f] = "none"
            <4>1. f \in File /\ AsideStep(f) \in 1 .. 5 /\ MoveStep(f) \in 6 .. 10
                BY StepRanges
            <4>2. CASE f \in fs
                BY <1>5, <4>1, <4>2
            <4>3. CASE f \notin fs
                <5>1. AsideStep(f) < at /\ at <= MoveStep(f)
                    BY <1>0, <1>2, <1>5, <3>1, <4>1, <4>3
                <5> QED
                    BY <1>0, <1>5, <4>1, <4>3, <5>1 DEF RestoreIInv, ApplyStands
            <4> QED
                BY <4>2, <4>3
        <3> QED
            BY <1>0, <1>1, <2>1, <3>1 DEF ApplyStands
    <2>5. OwnStands'
        <3>1. /\ "identity" \in fs <=> "cert" \in fs
              /\ "identity" \in fs <=> "key" \in fs
              /\ "keys.db-journal" \notin fs
            BY <1>0, <1>2, StepRanges DEF AsideStep
        <3> QED
            BY <1>0, <1>5, <3>1, StepRanges DEF RestoreIInv, OwnStands, InIdentity
    <2>6. ASSUME ~ overlapped', ~ spoilt' PROVE Moved'
        <3>1. Moved
            BY <1>0, <1>1, <2>6 DEF RestoreIInv, OneOrigin
        <3>2. \A p \in Part : Underway'[p] = staging[p] /\ Underway[p] = staging[p]
            BY <1>0, <1>1, <2>1, StepRanges DEF Underway
        <3>3. Coherent(Underway')
            BY <3>1, <3>2, FewerCoherent, StepRanges DEF Moved
        <3>4. files'["keys.db-journal"] = "none"
            BY <1>0, <1>2, <1>5, <3>1, StepRanges DEF Moved
        <3> QED
            BY <1>1, <2>1, <3>1, <3>2, <3>3, <3>4, StepRanges DEF Moved
    <2>7. UploadsStand' /\ \A u \in Upload : uploads'[u] = NoUpload
        BY <1>0, <1>1, <1>5 DEF RestoreIInv, UploadsStand
    <2>8. OneOrigin'
        BY <1>0, <1>5, <2>6, <2>7 DEF OneOrigin, UploadStands
    <2> QED
        BY <1>5, <2>2, <2>3, <2>4, <2>5, <2>7, <2>8 DEF RestoreIInv
<1>6. CASE files[SetAside[at]] = "none" /\ at' = at + 1 /\ UNCHANGED <<power, files, aside>>
    <2>1. PreviousDataKept'
        BY <1>1, <1>6 DEF RestoreIInv, PreviousDataKept
    <2> QED
        BY <1>0, <1>5, <1>6, <1>a, <2>1
<1>7. CASE /\ aside' = Renamed(fs) /\ files' = [f \in File |-> IF f \in fs THEN "none" ELSE files[f]]
           /\ at' = at + 1 /\ UNCHANGED power
    <2> DEFINE row == [f \in File |-> IF f \in fs THEN files[f] ELSE aside[suffix][f]]
    <2>1. aside' = [aside EXCEPT ![suffix] = row]
        BY <1>7 DEF Renamed
    <2>2. row \in [File -> Origin] /\ \A f \in File : row[f] = IF f \in fs THEN files[f] ELSE aside[suffix][f]
        BY <1>0
    <2> HIDE DEF row
    <2>3. /\ aside' \in [0 .. MaxStarts -> [File -> Origin]] /\ aside'[suffix] = row
          /\ \A s \in 0 .. MaxStarts : s # suffix => aside'[s] = aside[s]
        BY <1>0, <2>1, <2>2
    <2>4. "none" \in Origin
        BY DEF Origin, Staged
    <2>5. files' \in [File -> Origin] /\ \A f \in File : files'[f] = IF f \in fs THEN "none" ELSE files[f]
        BY <1>0, <1>7, <2>4
    <2>6. ASSUME ~ hurried', NEW f \in Data
          PROVE  files'[f] = "own" \/ \E s \in 0 .. MaxStarts : aside'[s][f] = "own"
        <3>1. f \in File /\ ~ hurried /\ AsideStep(f) \in 1 .. 5
            BY <1>1, <2>6, StepRanges
        <3>2. files[f] = "own" \/ \E s \in 0 .. MaxStarts : aside[s][f] = "own"
            BY <3>1 DEF RestoreIInv, PreviousDataKept
        <3>3. CASE f \notin fs
            <4>1. files'[f] = files[f] /\ aside'[suffix][f] = aside[suffix][f]
                BY <2>2, <2>3, <2>5, <3>1, <3>3
            <4> QED
                BY <1>0, <2>3, <3>2, <4>1
        <3>4. CASE f \in fs
            <4>1. aside[suffix][f] = "none" /\ aside'[suffix][f] = files[f]
                BY <1>0, <1>2, <2>2, <2>3, <3>1, <3>4 DEF RestoreIInv, SuffixStands
            <4> QED
                BY <1>0, <2>3, <3>2, <4>1
        <3> QED
            BY <3>3, <3>4
    <2>7. PreviousDataKept'
        BY <2>6 DEF PreviousDataKept
    <2> QED
        BY <1>0, <1>5, <1>7, <2>2, <2>3, <2>5, <2>7
<1> QED
    BY <1>3, <1>4, <1>6, <1>7

(* Moving in: what is under way stays the same archive, and what is moved   *)
(* takes the place of nothing.                                              *)
LEMMA MoveInIInv ==
    ASSUME RestoreIInv, ApplyMoveIn
    PROVE  RestoreIInv'
<1> USE ControllerRestoreAssumption
<1> DEFINE p0 == MoveIn[at - 5]
           fs == With(p0)
<1>0. /\ RestoreTypeOK /\ power = "applying" /\ at \in 6 .. 8 /\ at - 5 \in 1 .. 3 /\ pending
      /\ files \in [File -> Origin] /\ staging \in [Part -> Staged]
    BY RestoreTypes, RestoreSteps DEF RestoreIInv, ApplyStands, ApplyMoveIn
<1>1. /\ aside' = aside /\ pending' = pending /\ suffix' = suffix /\ uploads' = uploads
      /\ overlapped' = overlapped /\ hurried' = hurried /\ spoilt' = spoilt /\ starts' = starts
      /\ uploaded' = uploaded
    BY DEF ApplyMoveIn
<1>2. (\A f \in File : f \in fs <=> MoveStep(f) = at) /\ fs \subseteq File \intersect Part
    <2>1. (at - 5) + 5 = at
        BY <1>0
    <2> QED
        BY <1>0, <2>1, RestoreSteps
<1>a. /\ p0 \in Part /\ p0 \in fs
      /\ p0 = IF at = 6 THEN "wharf.db" ELSE IF at = 7 THEN "keys.db" ELSE "identity"
    <2>1. at = 6 \/ at = 7 \/ at = 8
        BY <1>0
    <2> QED
        BY <1>0, <2>1, RestoreSteps DEF With
<1>3. \/ Fatal /\ UNCHANGED <<files, staging>>
      \/ /\ staging[p0] # "none"
         /\ files' = [f \in File |-> IF f \in fs THEN staging[f] ELSE files[f]]
         /\ staging' = [p \in Part |-> IF p \in fs THEN "none" ELSE staging[p]]
         /\ at' = at + 1 /\ UNCHANGED power
    BY RestoreSteps DEF ApplyMoveIn
<1>4. CASE Fatal /\ UNCHANGED <<files, staging>>
    BY <1>0, <1>1, <1>4, FatalIInv
<1> HIDE DEF fs, p0
<1>5. CASE /\ staging[p0] # "none"
           /\ files' = [f \in File |-> IF f \in fs THEN staging[f] ELSE files[f]]
           /\ staging' = [p \in Part |-> IF p \in fs THEN "none" ELSE staging[p]]
           /\ at' = at + 1 /\ UNCHANGED power
    <2>1. at' \in 7 .. 9
        BY <1>0, <1>5
    <2>2. /\ \A f \in File : files'[f] = IF f \in fs THEN staging[f] ELSE files[f]
          /\ \A p \in Part : staging'[p] = IF p \in fs THEN "none" ELSE staging[p]
        BY <1>5
    <2>a. "none" \in Staged /\ Staged \subseteq Origin /\ "own" \notin Staged
        BY DEF Origin, Staged
    <2>3. files' \in [File -> Origin]
        BY <1>0, <1>2, <1>5, <2>a
    <2>4. staging' \in [Part -> Staged]
        BY <1>0, <1>5, <2>a
    <2>5. RestoreTypeOK'
        BY <1>0, <1>1, <1>5, <2>1, <2>3, <2>4, RestoreTypes, RestoreTypesNext
    <2>6. SuffixStands'
        <3>1. suffix' <= starts' /\ \A s \in 0 .. MaxStarts : s > suffix' => aside'[s] = NoFile
            BY <1>1 DEF RestoreIInv, SuffixStands
        <3>2. ASSUME ~ hurried', NEW f \in File, AsideStep(f) >= at' PROVE aside'[suffix'][f] = "none"
            <4>1. AsideStep(f) >= at
                BY <1>0, <1>5, <3>2, StepRanges
            <4> QED
                BY <1>0, <1>1, <3>2, <4>1 DEF RestoreIInv, SuffixStands
        <3> QED
            BY <3>1, <3>2 DEF SuffixStands
    <2>7. ApplyStands'
        <3>1. ASSUME NEW f \in Data \union Log, at' <= MoveStep(f) PROVE files'[f] = "none"
            <4>1. f \in File /\ AsideStep(f) \in 1 .. 5 /\ MoveStep(f) \in 6 .. 10
                BY StepRanges
            <4>2. f \notin fs /\ AsideStep(f) < at /\ at <= MoveStep(f)
                BY <1>0, <1>2, <1>5, <3>1, <4>1
            <4> QED
                BY <1>0, <2>2, <4>1, <4>2 DEF RestoreIInv, ApplyStands
        <3> QED
            BY <1>0, <1>1, <2>1, <3>1 DEF ApplyStands
    <2>8. PreviousDataKept'
        <3>1. ASSUME ~ hurried, NEW f \in Data
              PROVE  files'[f] = "own" \/ \E s \in 0 .. MaxStarts : aside[s][f] = "own"
            <4>1. f \in File /\ AsideStep(f) \in 1 .. 5 /\ f \in Data \union Log
                BY StepRanges
            <4>2. files[f] = "own" \/ \E s \in 0 .. MaxStarts : aside[s][f] = "own"
                BY <3>1 DEF RestoreIInv, PreviousDataKept
            <4>3. CASE f \in fs
                <5>1. AsideStep(f) < at /\ at <= MoveStep(f)
                    BY <1>0, <1>2, <4>1, <4>3
                <5>2. files[f] = "none"
                    BY <1>0, <4>1, <5>1 DEF RestoreIInv, ApplyStands
                <5> QED
                    BY <4>2, <5>2
            <4>4. CASE f \notin fs
                BY <2>2, <4>1, <4>2, <4>4
            <4> QED
                BY <4>3, <4>4
        <3> QED
            BY <1>1, <3>1 DEF PreviousDataKept
    <2>b. /\ "keys.db-journal" \notin fs /\ ("identity" \in fs <=> "cert" \in fs) /\ ("identity" \in fs <=> "key" \in fs)
          /\ ("wharf.db" \in fs <=> at = 6) /\ ("keys.db" \in fs <=> at = 7) /\ ("identity" \in fs <=> at = 8)
        BY <1>0, <1>2, StepRanges
    <2>9. OwnStands'
        <3>1. files'["keys.db-journal"] = files["keys.db-journal"]
            BY <2>2, <2>b, StepRanges
        <3>2. \A f \in fs : files'[f] \in Staged
            BY <1>0, <1>2, <2>2
        <3>3. at = 8 => files'["identity"] # "none"
            BY <1>5, <1>a, <2>2, <2>b, StepRanges
        <3>4. at # 8 => \A f \in {"identity", "cert", "key"} : files'[f] = files[f]
            BY <2>2, <2>b, StepRanges
        <3>5. at # 7 => files'["keys.db"] = files["keys.db"]
            BY <2>2, <2>b, StepRanges
        <3>6. at = 8 => files'["key"] # "own"
            BY <2>a, <2>b, <3>2
        <3>7. at = 7 => files'["keys.db"] # "own"
            BY <2>a, <2>b, <3>2
        <3>8. power' # "generating"
            BY <1>0, <1>5
        <3> QED
            BY <3>1, <3>3, <3>4, <3>5, <3>6, <3>7, <3>8 DEF RestoreIInv, OwnStands, InIdentity
    <2>10. ASSUME ~ overlapped', ~ spoilt' PROVE Moved'
        <3>1. Moved
            BY <1>0, <1>1, <2>10 DEF RestoreIInv, OneOrigin
        <3>2. \A p \in Part : Underway'[p] = Underway[p]
            <4>1. SUFFICES ASSUME NEW p \in Part PROVE Underway'[p] = Underway[p]
                OBVIOUS
            <4>2. /\ Underway[p] = IF MoveStep(p) < at THEN files[p] ELSE staging[p]
                  /\ Underway'[p] = IF MoveStep(p) < at' THEN files'[p] ELSE staging'[p]
                BY DEF Underway
            <4>3. MoveStep(p) \in 6 .. 10 /\ (p \in File => (p \in fs <=> MoveStep(p) = at)) /\ (MoveStep(p) < 10 => p \in File)
                BY <1>2, StepRanges
            <4>4. p \in fs => p \in File
                BY <1>2
            <4> QED
                BY <1>0, <1>5, <2>2, <4>2, <4>3, <4>4
        <3>3. Coherent(Underway')
            BY <3>1, <3>2, FewerCoherent, StepRanges DEF Moved
        <3>4. \A p \in Piece : MoveStep(p) < at' => staging'[p] = "none"
            <4>1. SUFFICES ASSUME NEW p \in Piece, MoveStep(p) < at' PROVE staging'[p] = "none"
                OBVIOUS
            <4>2. p \in Part /\ MoveStep(p) \in 6 .. 10 /\ (MoveStep(p) = at => p \in fs)
                BY <1>0, <1>2, StepRanges
            <4> QED
                BY <1>0, <1>5, <2>2, <3>1, <4>1, <4>2 DEF Moved
        <3>5. /\ at' > 6 => files'["wharf.db"] # "none"
              /\ at' > 7 => files'["keys.db"] # "none"
              /\ at' > 8 => files'["identity"] # "none"
            BY <1>0, <1>5, <1>a, <2>2, <2>b, <3>1, StepRanges DEF Moved
        <3>6. files'["keys.db-journal"] = "none"
            BY <2>2, <2>b, <3>1, StepRanges DEF Moved
        <3> QED
            BY <3>1, <3>2, <3>3, <3>4, <3>5, <3>6, StepRanges DEF Moved
    <2>11. UploadsStand' /\ \A u \in Upload : uploads'[u] = NoUpload
        BY <1>0, <1>1, <1>5 DEF RestoreIInv, UploadsStand
    <2>12. OneOrigin'
        BY <1>0, <1>5, <2>10, <2>11 DEF OneOrigin, UploadStands
    <2> QED
        BY <2>5, <2>6, <2>7, <2>8, <2>9, <2>11, <2>12 DEF RestoreIInv
<1> QED
    BY <1>3, <1>4, <1>5

(* The end of applyPendingRestore: the whole archive has moved in, and no   *)
(* log of the database that was there is left.                              *)
LEMMA CleanIInv ==
    ASSUME RestoreIInv, ApplyClean
    PROVE  RestoreIInv'
<1> USE ControllerRestoreAssumption
<1>0. RestoreTypeOK /\ power = "applying" /\ at = 9 /\ staging \in [Part -> Staged]
    BY RestoreSteps, RestoreTypes DEF RestoreIInv, ApplyClean
<1>1. /\ files' = files /\ aside' = aside /\ suffix' = suffix /\ uploads' = uploads
      /\ overlapped' = overlapped /\ hurried' = hurried /\ spoilt' = spoilt /\ starts' = starts
      /\ uploaded' = uploaded
    BY DEF ApplyClean
<1>2. UploadsStand' /\ \A u \in Upload : uploads'[u] = NoUpload
    BY <1>0, <1>1 DEF RestoreIInv, UploadsStand
<1>3. OwnStands' /\ PreviousDataKept'
    <2>1. power' # "generating"
        BY <1>0 DEF ApplyClean
    <2> QED
        BY <1>1, <2>1 DEF RestoreIInv, OwnStands, PreviousDataKept
<1>4. CASE (\E p \in Part : Unlinked(p)) /\ UNCHANGED <<pending, power, at>>
    <2>1. PICK p \in Part : Unlinked(p)
        BY <1>4
    <2>2. staging' \in [Part -> Staged] /\ \A r \in Part : staging'[r] \in {staging[r], "none"}
        BY <1>0, <2>1, UnlinkedIs
    <2>3. RestoreTypeOK'
        BY <1>0, <1>1, <1>4, <2>2, RestoreTypes, RestoreTypesNext
    <2>4. SuffixStands' /\ ApplyStands'
        BY <1>1, <1>4 DEF RestoreIInv, SuffixStands, ApplyStands
    <2>5. ASSUME ~ overlapped', ~ spoilt' PROVE Moved'
        <3>1. Moved
            BY <1>0, <1>1, <2>5 DEF RestoreIInv, OneOrigin
        <3>2. \A r \in Part : Underway'[r] \in {Underway[r], "none"} /\ (MoveStep(r) < 9 => Underway'[r] = Underway[r])
            BY <1>0, <1>1, <1>4, <2>2 DEF Underway
        <3>3. Coherent(Underway')
            BY <3>1, <3>2, FewerCoherent, StepRanges DEF Moved
        <3>4. \A r \in Piece : MoveStep(r) < at' => staging'[r] = "none"
            BY <1>4, <2>2, <3>1, StepRanges DEF Moved
        <3> QED
            BY <1>0, <1>1, <1>4, <3>1, <3>2, <3>3, <3>4, StepRanges DEF Moved
    <2>6. OneOrigin'
        BY <1>0, <1>2, <1>4, <2>5 DEF OneOrigin, UploadStands
    <2> QED
        BY <1>2, <1>3, <2>3, <2>4, <2>6 DEF RestoreIInv
<1>5. CASE staging' = staging /\ pending' \in BOOLEAN /\ power' = "opening" /\ at' = 0
    <2>1. RestoreTypeOK'
        BY <1>0, <1>1, <1>5, RestoreTypes, RestoreTypesNext
    <2>2. SuffixStands' /\ ApplyStands'
        BY <1>1, <1>5 DEF RestoreIInv, SuffixStands, ApplyStands
    <2>3. ASSUME ~ overlapped', ~ spoilt' PROVE Coherent(staging') /\ Ready'
        <3>1. Moved /\ Coherent(staging)
            BY <1>0, <1>1, <2>3, StagedWhenCut DEF RestoreIInv, OneOrigin
        <3>2. \A f \in Data \union {"identity"} : Underway[f] = files[f]
            BY <1>0, StepRanges DEF Underway
        <3>3. Data = {"wharf.db", "keys.db", "cert", "key"} /\ Data \subseteq Piece
            BY StepRanges DEF Data
        <3>4. /\ files["wharf.db"] # "none" /\ files["keys.db"] # "none" /\ files["cert"] # "none"
              /\ files["keys.db-journal"] = "none"
            BY <1>0, <3>1, <3>2, <3>3 DEF Moved
        <3>5. /\ Pos("wharf.db") < Pos("cert") /\ Pos("keys.db") < Pos("cert") /\ Pos("cert") < Pos("key")
            BY DEF Pos
        <3>6. ASSUME files["cert"] = files["key"] PROVE \A f \in Data : files[f] = files["wharf.db"]
            <4>1. \A f \in Data : files[f] \notin {"none", "torn"}
                BY <3>1, <3>2, <3>3, <3>4, <3>5, <3>6 DEF Moved, Coherent
            <4> QED
                BY <3>1, <3>2, <3>3, <4>1 DEF Moved, Coherent
        <3>7. \A f \in Log : files[f] = "none"
            BY <1>0, StepRanges DEF RestoreIInv, ApplyStands
        <3>8. Ready'
            BY <1>1, <3>4, <3>6, <3>7 DEF Ready
        <3> QED
            BY <1>5, <3>1, <3>8
    <2>4. OneOrigin'
        BY <1>2, <1>5, <2>3 DEF OneOrigin, UploadStands
    <2> QED
        BY <1>2, <1>3, <2>1, <2>2, <2>4 DEF RestoreIInv
<1>6. pending \in BOOLEAN
    BY <1>0, RestoreTypes
<1> QED
    BY <1>4, <1>5, <1>6 DEF ApplyClean, AllUnlinked

(* Opening what is there: a log that is missing is made for the database.   *)
LEMMA OpenIInv ==
    ASSUME RestoreIInv, Open
    PROVE  RestoreIInv'
<1> USE ControllerRestoreAssumption
<1>0. RestoreTypeOK /\ power = "opening" /\ files \in [File -> Origin] /\ power' = "loading" /\ at' = 0
    BY RestoreTypes DEF RestoreIInv, Open
<1>1. /\ aside' = aside /\ staging' = staging /\ pending' = pending /\ suffix' = suffix /\ uploads' = uploads
      /\ overlapped' = overlapped /\ hurried' = hurried /\ spoilt' = spoilt /\ starts' = starts
      /\ uploaded' = uploaded
    BY DEF Open, OnlyFiles
<1>a. {"none", "torn", "fresh"} \subseteq Origin
    BY DEF Origin, Staged
<1>b. ASSUME NEW f \in File PROVE Opened(f) \in {"none", "torn", "fresh", files["wharf.db"], files[f]}
    BY DEF Opened
<1>2. \A f \in File : files'[f] = Opened(f) /\ Opened(f) \in Origin
    BY <1>0, <1>a, <1>b, StepRanges DEF Open
<1>3. files' \in [File -> Origin]
    BY <1>2 DEF Open
<1>4. RestoreTypeOK'
    BY <1>0, <1>1, <1>3, RestoreTypes, RestoreTypesNext
<1>5. /\ files'["cert"] = files["cert"] /\ files'["key"] = files["key"] /\ files'["identity"] = files["identity"]
      /\ files'["keys.db-journal"] = "none"
    BY <1>2, StepRanges DEF Opened, Log
<1>6. /\ files["wharf.db"] # "none" => files'["wharf.db"] = files["wharf.db"]
      /\ files["keys.db"] # "none" /\ files["keys.db-journal"] \in {"none", files["keys.db"]}
             => files'["keys.db"] = files["keys.db"]
    BY <1>2, StepRanges DEF Opened, Log
<1>7. \A f \in Data : files[f] = "own" => files'[f] = "own"
    BY <1>5, <1>6 DEF Data, RestoreIInv, OwnStands
<1>8. SuffixStands' /\ ApplyStands' /\ PreviousDataKept'
    BY <1>0, <1>1, <1>7 DEF RestoreIInv, SuffixStands, ApplyStands, PreviousDataKept
<1>9. OwnStands'
    BY <1>0, <1>5 DEF RestoreIInv, OwnStands, InIdentity
<1>10. UploadsStand' /\ \A u \in Upload : uploads'[u] = NoUpload
    BY <1>0, <1>1 DEF RestoreIInv, UploadsStand
<1>11. ASSUME ~ overlapped', ~ spoilt'
       PROVE  Coherent(staging') /\ Ready' /\ \A f \in Log : files'[f] = files'["wharf.db"]
    <2>1. Coherent(staging) /\ Ready
        BY <1>0, <1>1, <1>11 DEF RestoreIInv, OneOrigin
    <2>2. \A f \in Data : files'[f] = files[f]
        BY <1>5, <1>6, <2>1 DEF Ready, Data
    <2>3. \A f \in Log : files'[f] = files["wharf.db"]
        BY <1>2, <2>1, StepRanges DEF Opened, Ready, Log
    <2>4. {"wharf.db", "keys.db", "cert", "key"} = Data
        BY DEF Data
    <2>5. Ready'
        BY <1>5, <2>1, <2>2, <2>3, <2>4 DEF Ready
    <2> QED
        BY <1>1, <2>1, <2>2, <2>3, <2>4, <2>5
<1>12. OneOrigin'
    BY <1>0, <1>10, <1>11 DEF OneOrigin, UploadStands
<1> QED
    BY <1>4, <1>8, <1>9, <1>10, <1>12 DEF RestoreIInv

(* Loading the identity, or making one, which a sound restore never does.   *)
LEMMA LoadIInv ==
    ASSUME RestoreIInv, LoadOrGenerate \/ GenerateKey
    PROVE  RestoreIInv'
<1> USE ControllerRestoreAssumption
<1>0. RestoreTypeOK /\ files \in [File -> Origin] /\ power \in {"loading", "generating"}
    BY RestoreTypes DEF RestoreIInv, LoadOrGenerate, GenerateKey
<1>1. /\ aside' = aside /\ staging' = staging /\ pending' = pending /\ suffix' = suffix /\ uploads' = uploads
      /\ overlapped' = overlapped /\ hurried' = hurried /\ spoilt' = spoilt /\ starts' = starts
      /\ uploaded' = uploaded
    BY DEF LoadOrGenerate, GenerateKey, OnlyFiles
<1>2. \A u \in Upload : uploads'[u] = NoUpload /\ uploads'[u].pc # "write"
    BY <1>0, <1>1 DEF RestoreIInv, UploadsStand, NoUpload
<1>3. CASE Fatal /\ UNCHANGED files /\ power = "loading"
    BY <1>0, <1>1, <1>3, FatalIInv
<1>4. ASSUME power' \in {"generating", "up"}, at' = 0, files' \in [File -> Origin], OwnStands', PreviousDataKept',
             ~ overlapped /\ ~ spoilt => power' = "up" /\ files["cert"] = files["key"] /\ files' = files /\ power = "loading"
      PROVE  RestoreIInv'
    <2>1. RestoreTypeOK'
        BY <1>0, <1>1, <1>4, RestoreTypes, RestoreTypesNext
    <2>2. SuffixStands' /\ ApplyStands' /\ UploadsStand'
        BY <1>0, <1>1, <1>2, <1>4 DEF RestoreIInv, SuffixStands, ApplyStands, UploadsStand
    <2>3. ASSUME ~ overlapped', ~ spoilt'
          PROVE  Coherent(staging') /\ Ready' /\ \A f \in Log : files'[f] = files'["wharf.db"]
        BY <1>1, <1>4, <2>3 DEF RestoreIInv, OneOrigin, Ready
    <2>4. OneOrigin'
        BY <1>1, <1>2, <1>4, <2>3 DEF OneOrigin, UploadStands
    <2> QED
        BY <1>4, <2>1, <2>2, <2>4 DEF RestoreIInv
<1>5. CASE power = "loading" /\ files["cert"] = files["key"] /\ power' = "up" /\ at' = 0 /\ UNCHANGED files
    <2>1. OwnStands' /\ PreviousDataKept'
        BY <1>1, <1>5 DEF RestoreIInv, OwnStands, PreviousDataKept
    <2> QED
        BY <1>0, <1>4, <1>5, <2>1
<1>a. "fresh" \in Origin /\ "dir" \in Origin
    BY DEF Origin, Staged
<1>6. CASE /\ power = "loading" /\ files["cert"] = "none" /\ power' = "generating" /\ at' = 0
           /\ files' = [files EXCEPT !["identity"] = "dir", !["cert"] = "fresh"]
    <2>1. /\ files' \in [File -> Origin] /\ files'["identity"] = "dir" /\ files'["cert"] = "fresh"
          /\ \A f \in File \ {"identity", "cert"} : files'[f] = files[f]
        BY <1>0, <1>6, <1>a, StepRanges
    <2>2. OwnStands'
        BY <1>6, <2>1, StepRanges DEF RestoreIInv, OwnStands, InIdentity
    <2>3. \A f \in Data : files[f] = "own" => files'[f] = "own"
        BY <1>6, <2>1, StepRanges DEF Data
    <2>4. PreviousDataKept'
        BY <1>1, <2>3 DEF RestoreIInv, PreviousDataKept
    <2>5. overlapped \/ spoilt
        BY <1>6 DEF RestoreIInv, OneOrigin, Ready
    <2> QED
        BY <1>4, <1>6, <2>1, <2>2, <2>4, <2>5
<1>7. CASE GenerateKey
    <2>1. /\ files' \in [File -> Origin] /\ files'["key"] = "fresh" /\ power = "generating"
          /\ \A f \in File \ {"key"} : files'[f] = files[f]
        BY <1>0, <1>7, <1>a, StepRanges DEF GenerateKey
    <2>2. files["cert"] = "fresh" /\ files["identity"] # "none" /\ files["key"] # "own"
        BY <2>1 DEF RestoreIInv, OwnStands, InIdentity
    <2>3. OwnStands'
        BY <1>7, <2>1, <2>2, StepRanges DEF RestoreIInv, OwnStands, InIdentity, GenerateKey
    <2>4. \A f \in Data : files[f] = "own" => files'[f] = "own"
        BY <2>1, <2>2, StepRanges DEF Data
    <2>5. PreviousDataKept'
        BY <1>1, <2>4 DEF RestoreIInv, PreviousDataKept
    <2>6. overlapped \/ spoilt
        BY <2>1 DEF RestoreIInv, OneOrigin
    <2> QED
        BY <1>4, <1>7, <2>1, <2>3, <2>5, <2>6 DEF GenerateKey
<1> QED
    BY <1>3, <1>5, <1>6, <1>7 DEF LoadOrGenerate

(* A stop: an upload that is cut off leaves the front of its archive, a     *)
(* removal any part of what it was removing.                                *)
LEMMA StopIInv ==
    ASSUME RestoreIInv, NEW torn \in Upload \union {"none"}, NEW journal \in BOOLEAN, Stop(torn, journal)
    PROVE  RestoreIInv'
<1> USE ControllerRestoreAssumption
<1>0. /\ RestoreTypeOK /\ power # "down" /\ power \in {"applying", "opening", "loading", "generating", "up"}
      /\ files \in [File -> Origin] /\ staging \in [Part -> Staged] /\ pending \in BOOLEAN
    BY RestoreTypes DEF RestoreIInv, Stop
<1>1. /\ aside' = aside /\ suffix' = suffix /\ overlapped' = overlapped /\ hurried' = hurried
      /\ spoilt' = spoilt /\ starts' = starts /\ uploaded' = uploaded /\ power' = "down" /\ at' = 0
      /\ pending' = pending /\ uploads' = [u \in Upload |-> NoUpload]
    BY DEF Stop
<1>2. /\ files' \in [File -> Origin] /\ \A f \in File \ {"keys.db-journal"} : files'[f] = files[f]
      /\ files'["keys.db-journal"] \in {files["keys.db-journal"], files["keys.db"]}
    BY <1>0, StepRanges DEF Stop
<1>3. ASSUME torn \in Upload PROVE /\ uploads[torn].next \in 1 .. 5 /\ Archive[uploads[torn].next] \in Piece
                                   /\ Pos(Archive[uploads[torn].next]) = uploads[torn].next
                                   /\ uploads[torn].pc = "write"
    BY <1>3, RestoreSteps DEF Stop, CanWrite, UploadAt, RestoreIInv, UploadsStand
<1>4. staging' = IF torn \in Upload THEN [staging EXCEPT ![Archive[uploads[torn].next]] = "torn"] ELSE staging
    BY DEF Stop
<1>5. staging' \in [Part -> Staged]
    BY <1>0, <1>3, <1>4, StepRanges DEF Staged
<1>6. NoUpload \in UploadRow /\ NoUpload.pc = "idle"
    BY DEF NoUpload, UploadRow
<1>7. RestoreTypeOK'
    BY <1>0, <1>1, <1>2, <1>5, <1>6, RestoreTypes, RestoreTypesNext
<1>a. (Data \union Log \union {"identity"}) \subseteq File \ {"keys.db-journal"}
    BY StepRanges DEF Data, Log
<1>8. SuffixStands' /\ ApplyStands' /\ PreviousDataKept'
    BY <1>1, <1>2, <1>a DEF RestoreIInv, SuffixStands, ApplyStands, PreviousDataKept
<1>b. OwnStands'
    BY <1>1, <1>2, StepRanges DEF RestoreIInv, OwnStands, InIdentity
<1>9. UploadsStand' /\ \A u \in Upload : uploads'[u] = NoUpload
    BY <1>1, <1>6 DEF UploadsStand
<1>10. ASSUME ~ overlapped', ~ spoilt', torn \in Upload PROVE Coherent(staging')
    <2> DEFINE n == uploads[torn].next
    <2>1. n \in 1 .. 5 /\ uploads[torn] # NoUpload
        BY <1>3, <1>6, <1>10
    <2>2. UploadStands(torn)
        BY <1>1, <1>10 DEF RestoreIInv, OneOrigin
    <2>3. \A p \in Piece : Pos(p) \in 1 .. 5 /\ (Pos(p) = n <=> p = Archive[n])
        BY <1>3, <1>10, RestoreSteps
    <2>a. \A p \in Piece : staging[p] \in {"none", uploads[torn].backup} /\ (Pos(p) >= n => staging[p] = "none")
        BY <1>3, <1>10, <2>1, <2>2, UploadSoFar
    <2> HIDE DEF n
    <2>4. /\ uploads[torn].backup \in Backup /\ uploads[torn].backup # "torn"
          /\ \A p \in Piece : staging[p] \in {"none", uploads[torn].backup} /\ (Pos(p) >= n => staging[p] = "none")
        BY <1>10, <2>1, <2>2, <2>a DEF UploadStands
    <2>5. \A p \in Piece : staging'[p] = IF Pos(p) = n THEN "torn" ELSE staging[p]
        BY <1>0, <1>4, <1>10, <2>3, StepRanges DEF n
    <2> QED
        BY <2>1, <2>3, <2>4, <2>5 DEF Coherent
<1>11. ASSUME ~ overlapped', ~ spoilt' PROVE Coherent(staging')
    BY <1>1, <1>4, <1>10, <1>11, StagedWhenCut
<1>12. ASSUME ~ overlapped', ~ spoilt', ~ pending' PROVE Ready'
    <2>1. Ready
        BY <1>0, <1>1, <1>12 DEF RestoreIInv, OneOrigin, ApplyStands
    <2>2. \A f \in Data \union Log : files'[f] = files[f]
        BY <1>2, <1>a
    <2> QED
        BY <1>2, <2>1, <2>2 DEF Ready, Data
<1>13. OneOrigin'
    BY <1>1, <1>9, <1>11, <1>12 DEF OneOrigin, UploadStands
<1> QED
    BY <1>7, <1>8, <1>9, <1>13, <1>b DEF RestoreIInv

LEMMA RestoreStutters ==
    ASSUME RestoreIInv, UNCHANGED restoreVars
    PROVE  RestoreIInv'
<1>1. /\ power' = power /\ files' = files /\ aside' = aside /\ staging' = staging /\ pending' = pending
      /\ at' = at /\ suffix' = suffix /\ uploads' = uploads /\ overlapped' = overlapped
      /\ hurried' = hurried /\ spoilt' = spoilt /\ starts' = starts /\ uploaded' = uploaded
    BY DEF restoreVars
<1>2. RestoreTypeOK' /\ SuffixStands' /\ ApplyStands' /\ PreviousDataKept' /\ OwnStands' /\ UploadsStand'
    BY <1>1 DEF RestoreIInv, RestoreTypeOK, SuffixStands, ApplyStands, PreviousDataKept, OwnStands, UploadsStand
<1>3. Moved' <=> Moved
    BY <1>1 DEF Moved, Underway, Coherent
<1>4. (\A u \in Upload : UploadStands(u)') <=> \A u \in Upload : UploadStands(u)
    BY <1>1 DEF UploadStands
<1>5. OneOrigin'
    BY <1>1, <1>3, <1>4 DEF RestoreIInv, OneOrigin, Ready
<1> QED
    BY <1>1, <1>2, <1>5 DEF RestoreIInv

LEMMA RestoreNextIInv == RestoreIInv /\ [RestoreNext]_restoreVars => RestoreIInv'
<1> SUFFICES ASSUME RestoreIInv, [RestoreNext]_restoreVars PROVE RestoreIInv'
    OBVIOUS
<1>1. ASSUME NEW u \in Upload,
             \/ \E b \in Backup : StageStart(u, b)
             \/ RemoveOne(u) \/ RemoveEnd(u) \/ RemoveFails(u) \/ StageMake(u)
             \/ StageEntry(u) \/ StageWrite(u) \/ StageEnd(u) \/ StageFails(u)
      PROVE  RestoreIInv'
    BY <1>1, UploadIInv
<1>2. ASSUME NEW sameSecond \in BOOLEAN, Start(sameSecond) PROVE RestoreIInv'
    BY <1>2, StartIInv
<1>3. CASE ApplySetAside
    BY <1>3, SetAsideIInv
<1>4. CASE ApplyMoveIn
    BY <1>4, MoveInIInv
<1>5. CASE ApplyClean
    BY <1>5, CleanIInv
<1>6. CASE Open
    BY <1>6, OpenIInv
<1>7. CASE LoadOrGenerate \/ GenerateKey
    BY <1>7, LoadIInv
<1>8. ASSUME NEW torn \in Upload \union {"none"}, NEW journal \in BOOLEAN, Stop(torn, journal)
      PROVE  RestoreIInv'
    BY <1>8, StopIInv
<1>9. CASE UNCHANGED restoreVars
    BY <1>9, RestoreStutters
<1> QED
    BY <1>1, <1>2, <1>3, <1>4, <1>5, <1>6, <1>7, <1>8, <1>9 DEF RestoreNext

LEMMA RestoreStands == RestoreSpec => []RestoreIInv
<1> QED
    BY RestoreInitIInv, RestoreNextIInv, PTL DEF RestoreSpec

(* applyPendingRestore: "renamed aside with a timestamp suffix, never       *)
(* deleted".  However often a start is cut short or gives up, the databases *)
(* and the identity from before are in place or beside it, unless two       *)
(* starts with a restore pending fell within a second.                      *)
THEOREM OwnDataIsKept == RestoreSpec => []PreviousDataKept
<1>1. RestoreIInv => PreviousDataKept
    BY DEF RestoreIInv
<1> QED
    BY <1>1, RestoreStands, PTL

(* A controller that runs has its databases, its log and its identity from  *)
(* one backup, or all its own, whatever uploads, removals and starts were   *)
(* cut short; uploads that overlap excepted, and a start that met a staged  *)
(* identity without its certificate, or a journal of keys.db.               *)
THEOREM NeverHalfRestored == RestoreSpec => []RunsFromOneOrigin
<1>1. RestoreIInv => RunsFromOneOrigin
    BY DEF RestoreIInv, OneOrigin, Ready, RunsFromOneOrigin
<1> QED
    BY <1>1, RestoreStands, PTL

-----------------------------------------------------------------------------
(* Vulnerability scanning: the inductive invariant.                         *)

JobActive(j) == vulnJob[j].pc # "idle"
JobPasses(j) == vulnJob[j].pc \notin {"idle", "begin"}
ReqSaves(r) == vulnReq[r].op \in {"save", "purge"}

(* Whatever is at work has a scanner to work with.                          *)
ScannersNamed ==
    /\ choice.enabled => choice.scanner \in Scanner
    /\ \A r \in VulnReq : vulnReq[r].op = "save" => vulnReq[r].scanner \in Scanner
    /\ \A j \in VulnJob : /\ JobPasses(j) => vulnJob[j].scanner \in Scanner
                          /\ vulnJob[j].pc = "scan" => vulnJob[j].image \in Image

(* One job at a time, and busy says so.                                     *)
SingleFlight ==
    /\ \A j \in VulnJob : JobActive(j) => busy
    /\ \A j, k \in VulnJob : JobActive(j) /\ JobActive(k) => j = k

(* A row that is good was already good when the pass looked at it: nobody   *)
(* else writes rows.                                                        *)
RowsAsRead ==
    \A j \in VulnJob : vulnJob[j].pc = "scan" =>
        (scans[vulnJob[j].scanner][vulnJob[j].image].status = "ok" => vulnJob[j].prev.status = "ok")

(* Unless choices crossed: who is about to write the choice has read the    *)
(* one there is; a pass works with the scanner chosen; rows of another are  *)
(* about to be deleted; and a purge has nobody against it.                  *)
ChoiceRead == \A r \in VulnReq : ReqSaves(r) /\ vulnReq[r].pc = "write" => vulnReq[r].prev = choice.scanner
PassesOfChoice == \A j \in VulnJob : JobPasses(j) => vulnJob[j].scanner = choice.scanner
OthersRowsGo ==
    \A s \in Scanner \ {choice.scanner} :
        \/ \A i \in Image : scans[s][i] = NoResult
        \/ \E r \in VulnReq : VulnReqAt(r, "save", "rows") /\ vulnReq[r].prev = s /\ s # vulnReq[r].scanner
PurgeStands ==
    \A r \in VulnReq : VulnReqAt(r, "purge", "dirs") =>
        /\ ~ choice.enabled /\ ~ Passing
        /\ \A s \in Scanner \ vulnReq[r].left : disk[s] = NoData
ChoicesApart == ~ stray => ChoiceRead /\ PassesOfChoice /\ OthersRowsGo /\ PurgeStands

(* After a purge scanning is off, and nothing was left to write again.      *)
PurgedStands ==
    /\ purged => ~ choice.enabled
    /\ purged /\ ~ stray => /\ ~ Passing
                            /\ \A s \in Scanner : disk[s] = NoData
                            /\ \A s \in Scanner, i \in Image : scans[s][i] = NoResult

VulnIInv == VulnTypeOK /\ ScannersNamed /\ SingleFlight /\ RowsAsRead /\ ChoicesApart /\ PurgedStands

LEMMA VulnBlank ==
    /\ NoResult \in Result
    /\ NoVulnReq \in VulnReqState
    /\ NoVulnJob \in VulnJobState
BY VulnScanAssumption DEF NoResult, Result, NoVulnReq, VulnReqState, NoVulnJob, VulnJobState

LEMMA VulnInitIInv == VulnInit => VulnIInv
<1> SUFFICES ASSUME VulnInit PROVE VulnIInv
    OBVIOUS
<1> USE VulnBlank, VulnScanAssumption
<1>1. VulnTypeOK
    <2>1. /\ choice \in [enabled : BOOLEAN, scanner : Scanner \union {NoScanner}]
          /\ busy \in BOOLEAN /\ stray \in BOOLEAN /\ purged \in BOOLEAN
        BY DEF VulnInit
    <2>1a. published \in 1 .. MaxBuild /\ saves \in 0 .. MaxSaves
        BY DEF VulnInit
    <2>2. disk \in [Scanner -> [binary : BOOLEAN, db : 0 .. MaxBuild]]
        BY DEF VulnInit, NoData
    <2>3. /\ scans \in [Scanner -> [Image -> Result]]
          /\ vulnReq \in [VulnReq -> VulnReqState] /\ vulnJob \in [VulnJob -> VulnJobState]
        BY DEF VulnInit
    <2> QED
        BY <2>1, <2>1a, <2>2, <2>3 DEF VulnTypeOK
<1>2. /\ \A r \in VulnReq : vulnReq[r].op = "none" /\ vulnReq[r].pc = "idle"
      /\ \A j \in VulnJob : vulnJob[j].pc = "idle"
      /\ \A s \in Scanner, i \in Image : scans[s][i] = NoResult
    BY DEF VulnInit, NoVulnReq, NoVulnJob
<1>3. ScannersNamed /\ SingleFlight /\ RowsAsRead
    BY <1>2 DEF VulnInit, ScannersNamed, SingleFlight, RowsAsRead, JobActive, JobPasses
<1>4. ChoicesApart /\ PurgedStands
    BY <1>2 DEF VulnInit, ChoicesApart, ChoiceRead, PassesOfChoice, OthersRowsGo, PurgeStands,
       PurgedStands, JobPasses, ReqSaves, VulnReqAt
<1> QED
    BY <1>1, <1>3, <1>4 DEF VulnIInv

(* Types.                                                                   *)

LEMMA ReqTypes ==
    ASSUME VulnTypeOK, NEW r \in VulnReq, VulnReqStep(r)
    PROVE  VulnTypeOK'
<1> USE VulnBlank, VulnScanAssumption
<1>0. /\ vulnReq[r] \in VulnReqState
      /\ choice.enabled \in BOOLEAN /\ choice.scanner \in Scanner \union {NoScanner}
    BY DEF VulnTypeOK
<1>1. ASSUME NEW update \in BOOLEAN, StartJob(update)
      PROVE  busy' \in BOOLEAN /\ vulnJob' \in [VulnJob -> VulnJobState]
    <2>1. [NoVulnJob EXCEPT !.pc = "begin", !.update = update] \in VulnJobState
        BY DEF VulnJobState, NoVulnJob
    <2> QED
        BY <1>1, <2>1 DEF VulnTypeOK, StartJob
<1>2. ASSUME NEW next \in VulnReqState, ReqStart(r, next) PROVE vulnReq' \in [VulnReq -> VulnReqState]
    BY <1>2 DEF VulnTypeOK, ReqStart
<1>3. ASSUME NEW pc \in {"idle", "write", "rows", "start", "dirs"}, ReqGoto(r, pc)
      PROVE  vulnReq' \in [VulnReq -> VulnReqState]
    BY <1>0, <1>3 DEF VulnTypeOK, ReqGoto, VulnReqState
<1>4. ASSUME ReqReturn(r) PROVE vulnReq' \in [VulnReq -> VulnReqState]
    BY <1>4 DEF VulnTypeOK, ReqReturn
<1>5. ASSUME NEW update \in BOOLEAN, AskScan(r, update) PROVE VulnTypeOK'
    <2>1. [NoVulnReq EXCEPT !.op = "scan", !.pc = "start", !.update = update] \in VulnReqState
        BY DEF NoVulnReq, VulnReqState
    <2> QED
        BY <1>2, <1>5, <2>1 DEF AskScan, VulnTypeOK
<1>6. CASE StartScan(r)
    <2>1. vulnReq[r].update \in BOOLEAN
        BY <1>0 DEF VulnReqState
    <2> QED
        BY <1>1, <1>4, <1>6, <2>1 DEF StartScan, VulnTypeOK
<1>7. ASSUME NEW enabled \in BOOLEAN, NEW s \in Scanner, SaveRead(r, enabled, s) PROVE VulnTypeOK'
    <2>1. [NoVulnReq EXCEPT !.op = "save", !.pc = "write", !.enabled = enabled,
                            !.scanner = s, !.prev = choice.scanner] \in VulnReqState
        BY <1>0 DEF NoVulnReq, VulnReqState
    <2> QED
        BY <1>2, <1>7, <2>1 DEF SaveRead, VulnTypeOK
<1>8. CASE SaveWrite(r)
    <2>1. [enabled |-> vulnReq[r].enabled, scanner |-> vulnReq[r].scanner]
              \in [enabled : BOOLEAN, scanner : Scanner \union {NoScanner}]
        BY <1>0 DEF VulnReqState
    <2>2. stray' \in BOOLEAN /\ purged' \in BOOLEAN
        BY <1>8 DEF SaveWrite
    <2> QED
        BY <1>3, <1>8, <2>1, <2>2 DEF SaveWrite, VulnTypeOK
<1>9. CASE SaveRows(r)
    <2>1. vulnReq' \in [VulnReq -> VulnReqState]
        BY <1>3, <1>4, <1>9 DEF SaveRows
    <2>2. scans' \in [Scanner -> [Image -> Result]]
        BY <1>9 DEF SaveRows, VulnTypeOK
    <2> QED
        BY <1>9, <2>1, <2>2 DEF SaveRows, VulnTypeOK
<1>10. CASE SaveStarts(r)
    BY <1>1, <1>4, <1>10 DEF SaveStarts, VulnTypeOK
<1>11. CASE PurgeCheck(r)
    <2>1. [NoVulnReq EXCEPT !.op = "purge", !.pc = "write", !.prev = choice.scanner] \in VulnReqState
        BY <1>0 DEF NoVulnReq, VulnReqState
    <2> QED
        BY <1>2, <1>11, <2>1 DEF PurgeCheck, VulnTypeOK
<1>12. CASE PurgeWrite(r)
    <2>1. vulnReq' \in [VulnReq -> VulnReqState]
        BY <1>0, <1>12 DEF PurgeWrite, VulnTypeOK, VulnReqState
    <2>2. choice' \in [enabled : BOOLEAN, scanner : Scanner \union {NoScanner}]
        BY <1>0, <1>12 DEF PurgeWrite, VulnReqState
    <2>3. stray' \in BOOLEAN
        BY <1>12 DEF PurgeWrite
    <2> QED
        BY <1>12, <2>1, <2>2, <2>3 DEF PurgeWrite, VulnTypeOK
<1>13. CASE PurgeDirs(r)
    <2>1. CASE vulnReq[r].left # {}
        <3>0. PICK s \in vulnReq[r].left : /\ disk' = [disk EXCEPT ![s] = NoData]
                                           /\ vulnReq' = [vulnReq EXCEPT ![r].left = @ \ {s}]
            BY <1>13, <2>1 DEF PurgeDirs
        <3>1. vulnReq' \in [VulnReq -> VulnReqState]
            BY <1>0, <3>0 DEF VulnTypeOK, VulnReqState
        <3>2. disk' \in [Scanner -> [binary : BOOLEAN, db : 0 .. MaxBuild]]
            <4>1. NoData \in [binary : BOOLEAN, db : 0 .. MaxBuild]
                BY DEF NoData
            <4> QED
                BY <3>0, <4>1 DEF VulnTypeOK
        <3> QED
            BY <1>13, <2>1, <3>1, <3>2 DEF PurgeDirs, VulnTypeOK
    <2>2. CASE vulnReq[r].left = {}
        <3>1. scans' \in [Scanner -> [Image -> Result]]
            BY <1>13, <2>2 DEF PurgeDirs
        <3>2. purged' \in BOOLEAN
            BY <1>13, <2>2 DEF PurgeDirs
        <3> QED
            BY <1>4, <1>13, <2>2, <3>1, <3>2 DEF PurgeDirs, VulnTypeOK
    <2> QED
        BY <2>1, <2>2
<1> QED
    BY <1>5, <1>6, <1>7, <1>8, <1>9, <1>10, <1>11, <1>12, <1>13 DEF VulnReqStep

LEMMA JobTypes ==
    ASSUME VulnTypeOK, ScannersNamed, NEW j \in VulnJob, VulnJobStep(j)
    PROVE  VulnTypeOK'
<1> USE VulnBlank, VulnScanAssumption
<1>0. vulnJob[j] \in VulnJobState /\ choice.scanner \in Scanner \union {NoScanner}
    BY DEF VulnTypeOK
<1>1. ASSUME JobEnds(j) PROVE busy' \in BOOLEAN /\ vulnJob' \in [VulnJob -> VulnJobState]
    BY <1>1 DEF VulnTypeOK, JobEnds
<1>2. ASSUME NEW pc \in {"idle", "begin", "install", "update", "targets", "next", "scan"}, JobGoto(j, pc)
      PROVE  vulnJob' \in [VulnJob -> VulnJobState]
    BY <1>0, <1>2 DEF VulnTypeOK, JobGoto, VulnJobState
<1>3. CASE PassBegin(j)
    <2>0. ASSUME vulnJob' = [vulnJob EXCEPT ![j].pc = "install", ![j].scanner = choice.scanner]
          PROVE  vulnJob' \in [VulnJob -> VulnJobState]
        BY <1>0, <2>0 DEF VulnTypeOK, VulnJobState
    <2>1. vulnJob' \in [VulnJob -> VulnJobState] /\ busy' \in BOOLEAN
        BY <1>1, <1>3, <2>0 DEF PassBegin, VulnTypeOK
    <2> QED
        BY <1>3, <2>1 DEF PassBegin, VulnTypeOK
<1>4. CASE PassInstall(j)
    <2>1. disk' \in [Scanner -> [binary : BOOLEAN, db : 0 .. MaxBuild]]
        <3>1. vulnJob[j].scanner \in Scanner
            BY <1>4 DEF PassInstall, ScannersNamed, JobPasses
        <3>2. disk' = [disk EXCEPT ![vulnJob[j].scanner].binary = TRUE] \/ disk' = disk
            BY <1>4 DEF PassInstall
        <3>3. /\ disk \in [Scanner -> [binary : BOOLEAN, db : 0 .. MaxBuild]]
              /\ [disk[vulnJob[j].scanner] EXCEPT !.binary = TRUE] \in [binary : BOOLEAN, db : 0 .. MaxBuild]
            BY <3>1 DEF VulnTypeOK
        <3> QED
            BY <3>1, <3>2, <3>3
    <2> QED
        BY <1>1, <1>2, <1>4, <2>1 DEF PassInstall, VulnTypeOK
<1>5. CASE PassUpdate(j)
    <2>1. published \in 0 .. MaxBuild /\ disk[vulnJob[j].scanner].db \in 0 .. MaxBuild
        BY <1>5 DEF PassUpdate, VulnTypeOK, ScannersNamed, JobPasses
    <2>2. disk' \in [Scanner -> [binary : BOOLEAN, db : 0 .. MaxBuild]]
        BY <1>5, <2>1 DEF PassUpdate, VulnTypeOK
    <2>3. ASSUME NEW b \in 0 .. MaxBuild, vulnJob' = [vulnJob EXCEPT ![j].pc = "targets", ![j].built = b]
          PROVE  vulnJob' \in [VulnJob -> VulnJobState]
        BY <1>0, <2>3 DEF VulnTypeOK, VulnJobState
    <2>4. vulnJob' \in [VulnJob -> VulnJobState] /\ busy' \in BOOLEAN
        <3>1. CASE JobEnds(j)
            BY <1>1, <3>1
        <3>2. CASE ~ JobEnds(j)
            <4>1. \E b \in 0 .. MaxBuild : vulnJob' = [vulnJob EXCEPT ![j].pc = "targets", ![j].built = b]
                BY <1>5, <2>1, <3>2 DEF PassUpdate
            <4> QED
                BY <1>5, <2>3, <3>2, <4>1 DEF PassUpdate, VulnTypeOK
        <3> QED
            BY <3>1, <3>2
    <2> QED
        BY <1>5, <2>2, <2>4 DEF PassUpdate, VulnTypeOK
<1>6. ASSUME NEW targets \in SUBSET Image, PassTargets(j, targets) PROVE VulnTypeOK'
    <2>0. ASSUME vulnJob' = [vulnJob EXCEPT ![j].pc = "next", ![j].keep = targets, ![j].left = targets]
          PROVE  vulnJob' \in [VulnJob -> VulnJobState]
        BY <1>0, <2>0 DEF VulnTypeOK, VulnJobState
    <2>1. vulnJob' \in [VulnJob -> VulnJobState] /\ busy' \in BOOLEAN
        BY <1>1, <1>6, <2>0 DEF PassTargets, VulnTypeOK
    <2> QED
        BY <1>6, <2>1 DEF PassTargets, VulnTypeOK
<1>7. ASSUME NEW i \in Image, PassNext(j, i) PROVE VulnTypeOK'
    <2>1. scans[vulnJob[j].scanner][i] \in Result
        BY <1>7 DEF PassNext, VulnTypeOK, ScannersNamed, JobPasses
    <2>2. vulnJob' \in [VulnJob -> VulnJobState]
        BY <1>0, <1>7, <2>1 DEF PassNext, VulnTypeOK, VulnJobState
    <2> QED
        BY <1>7, <2>2 DEF PassNext, VulnTypeOK
<1>8. CASE PassScan(j)
    <2>1. /\ vulnJob[j].scanner \in Scanner /\ vulnJob[j].image \in Image
          /\ disk[vulnJob[j].scanner].db \in 0 .. MaxBuild
        BY <1>8 DEF PassScan, VulnTypeOK, ScannersNamed, JobPasses
    <2>2. ASSUME NEW st \in {"ok", "error"}, NEW b \in 0 .. MaxBuild
          PROVE  UpsertImageScan(vulnJob[j].scanner, vulnJob[j].image, st, b) \in [Scanner -> [Image -> Result]]
        BY <2>1 DEF UpsertImageScan, VulnTypeOK, Result
    <2>3. scans' \in [Scanner -> [Image -> Result]]
        BY <1>8, <2>1, <2>2 DEF PassScan, VulnTypeOK
    <2> QED
        BY <1>2, <1>8, <2>3 DEF PassScan, VulnTypeOK
<1>9. CASE PassPrune(j)
    <2>1. scans' \in [Scanner -> [Image -> Result]]
        BY <1>9 DEF PassPrune, PruneImageScans, VulnTypeOK
    <2>2. stray' \in BOOLEAN
        BY <1>9 DEF PassPrune
    <2> QED
        BY <1>1, <1>9, <2>1, <2>2 DEF PassPrune, VulnTypeOK
<1>10. CASE PassFails(j)
    BY <1>1, <1>10 DEF PassFails, VulnTypeOK
<1> QED
    BY <1>3, <1>4, <1>5, <1>6, <1>7, <1>8, <1>9, <1>10 DEF VulnJobStep

(* A job can be started only while there is none.                           *)
JobsKept ==
    \A j \in VulnJob : \/ vulnJob'[j] = vulnJob[j]
                       \/ vulnJob[j].pc = "idle" /\ vulnJob'[j].pc = "begin"

LEMMA StartsAlone ==
    ASSUME VulnTypeOK, SingleFlight, NEW update, StartJob(update)
    PROVE  SingleFlight' /\ JobsKept
<1>1. CASE busy
    BY <1>1 DEF StartJob, MayStart, SingleFlight, JobActive, JobsKept
<1>2. CASE ~ busy
    <2>1. PICK j \in VulnJob :
             /\ vulnJob[j].pc = "idle"
             /\ vulnJob' = [vulnJob EXCEPT ![j] = [NoVulnJob EXCEPT !.pc = "begin", !.update = update]]
        BY <1>2 DEF StartJob, MayStart
    <2>2. /\ vulnJob'[j].pc = "begin"
          /\ \A k \in VulnJob \ {j} : vulnJob'[k] = vulnJob[k] /\ vulnJob[k].pc = "idle"
        BY <1>2, <2>1 DEF VulnTypeOK, SingleFlight, JobActive, NoVulnJob
    <2>3. busy'
        BY <1>2 DEF StartJob, MayStart
    <2> QED
        BY <2>1, <2>2, <2>3 DEF SingleFlight, JobActive, JobsKept
<1> QED
    BY <1>1, <1>2

(* A request is opened: it has read the choice there is.                    *)
Opening(r) ==
    /\ vulnReq[r].op = "none"
    /\ vulnReq'[r].pc \notin {"rows", "dirs"}
    /\ vulnReq'[r].op = "save" => vulnReq'[r].scanner \in Scanner
    /\ vulnReq'[r].op \in {"save", "purge"} => vulnReq'[r].prev = choice.scanner
    /\ UNCHANGED <<choice, busy, disk, scans, vulnJob, stray, purged>>

(* A request ends, with or without a job started.                           *)
Closing(r) ==
    /\ vulnReq[r].pc = "start"
    /\ vulnReq'[r].op = "none" /\ vulnReq'[r].pc = "idle"
    /\ SingleFlight' /\ JobsKept
    /\ UNCHANGED <<choice, disk, scans, stray, purged>>

OthersKept(r) == \A q \in VulnReq \ {r} : vulnReq'[q] = vulnReq[q]

LEMMA RequestFrames ==
    ASSUME VulnTypeOK, SingleFlight, NEW r \in VulnReq
    PROVE  /\ \A update \in BOOLEAN : AskScan(r, update) => Opening(r) /\ OthersKept(r)
           /\ \A enabled \in BOOLEAN, s \in Scanner :
                 SaveRead(r, enabled, s) => Opening(r) /\ OthersKept(r)
           /\ PurgeCheck(r) => Opening(r) /\ OthersKept(r)
           /\ StartScan(r) \/ SaveStarts(r) => Closing(r) /\ OthersKept(r)
<1>1. ASSUME NEW update \in BOOLEAN, AskScan(r, update) PROVE Opening(r) /\ OthersKept(r)
    <2>1. /\ vulnReq[r].op = "none"
          /\ vulnReq' = [vulnReq EXCEPT ![r] =
                            [NoVulnReq EXCEPT !.op = "scan", !.pc = "start", !.update = update]]
        BY <1>1 DEF AskScan, ReqStart
    <2>2. vulnReq'[r].op = "scan" /\ vulnReq'[r].pc = "start" /\ OthersKept(r)
        BY <2>1 DEF VulnTypeOK, NoVulnReq, OthersKept
    <2> QED
        BY <1>1, <2>1, <2>2 DEF AskScan, Opening
<1>2. ASSUME NEW enabled \in BOOLEAN, NEW s \in Scanner, SaveRead(r, enabled, s)
      PROVE  Opening(r) /\ OthersKept(r)
    <2>1. /\ vulnReq[r].op = "none"
          /\ vulnReq' = [vulnReq EXCEPT ![r] =
                            [NoVulnReq EXCEPT !.op = "save", !.pc = "write", !.enabled = enabled,
                                              !.scanner = s, !.prev = choice.scanner]]
        BY <1>2 DEF SaveRead, ReqStart
    <2>2. /\ vulnReq'[r].op = "save" /\ vulnReq'[r].pc = "write"
          /\ vulnReq'[r].scanner = s /\ vulnReq'[r].prev = choice.scanner /\ OthersKept(r)
        BY <2>1 DEF VulnTypeOK, NoVulnReq, OthersKept
    <2> QED
        BY <1>2, <2>1, <2>2 DEF SaveRead, Opening
<1>3. ASSUME PurgeCheck(r) PROVE Opening(r) /\ OthersKept(r)
    <2>1. /\ vulnReq[r].op = "none"
          /\ vulnReq' = [vulnReq EXCEPT ![r] =
                            [NoVulnReq EXCEPT !.op = "purge", !.pc = "write", !.prev = choice.scanner]]
        BY <1>3 DEF PurgeCheck, ReqStart
    <2>2. /\ vulnReq'[r].op = "purge" /\ vulnReq'[r].pc = "write"
          /\ vulnReq'[r].prev = choice.scanner /\ OthersKept(r)
        BY <2>1 DEF VulnTypeOK, NoVulnReq, OthersKept
    <2> QED
        BY <1>3, <2>1, <2>2 DEF PurgeCheck, Opening
<1>4. ASSUME StartScan(r) \/ SaveStarts(r) PROVE Closing(r) /\ OthersKept(r)
    <2>1. SingleFlight' /\ JobsKept
        BY <1>4, StartsAlone DEF StartScan, SaveStarts
    <2>2. vulnReq' = [vulnReq EXCEPT ![r] = NoVulnReq] /\ vulnReq[r].pc = "start"
        BY <1>4 DEF StartScan, SaveStarts, ReqReturn, VulnReqAt
    <2>3. vulnReq'[r].op = "none" /\ vulnReq'[r].pc = "idle" /\ OthersKept(r)
        BY <2>2 DEF VulnTypeOK, NoVulnReq, OthersKept
    <2> QED
        BY <1>4, <2>1, <2>2, <2>3 DEF StartScan, SaveStarts, Closing
<1> QED
    BY <1>1, <1>2, <1>3, <1>4

LEMMA OpeningIInv ==
    ASSUME VulnIInv, VulnTypeOK', NEW r \in VulnReq, Opening(r), OthersKept(r)
    PROVE  VulnIInv'
<1> USE DEF VulnIInv, Opening, OthersKept
<1>1. ScannersNamed' /\ SingleFlight' /\ RowsAsRead'
    BY DEF ScannersNamed, SingleFlight, RowsAsRead, JobActive, JobPasses
<1>2. ASSUME ~ stray PROVE (ChoiceRead /\ PassesOfChoice /\ OthersRowsGo /\ PurgeStands)'
    <2>1. ChoiceRead /\ PassesOfChoice /\ OthersRowsGo /\ PurgeStands
        BY <1>2 DEF ChoicesApart
    <2>2. ChoiceRead' /\ PassesOfChoice'
        BY <2>1 DEF ChoiceRead, PassesOfChoice, ReqSaves, JobPasses
    <2>3. OthersRowsGo'
        BY <2>1 DEF OthersRowsGo, VulnReqAt
    <2>4. PurgeStands'
        BY <2>1 DEF PurgeStands, VulnReqAt, Passing
    <2> QED
        BY <2>2, <2>3, <2>4
<1>3. PurgedStands'
    BY DEF PurgedStands, Passing
<1> QED
    BY <1>1, <1>2, <1>3 DEF ChoicesApart

LEMMA ClosingIInv ==
    ASSUME VulnIInv, VulnTypeOK', NEW r \in VulnReq, Closing(r), OthersKept(r)
    PROVE  VulnIInv'
<1> USE DEF VulnIInv, Closing, OthersKept, JobsKept
<1>1. ScannersNamed' /\ RowsAsRead'
    BY DEF ScannersNamed, RowsAsRead, JobPasses
<1>2. Passing' <=> Passing
    BY DEF Passing
<1>3. ASSUME ~ stray PROVE (ChoiceRead /\ PassesOfChoice /\ OthersRowsGo /\ PurgeStands)'
    <2>1. ChoiceRead /\ PassesOfChoice /\ OthersRowsGo /\ PurgeStands
        BY <1>3 DEF ChoicesApart
    <2>2. ChoiceRead' /\ PassesOfChoice'
        BY <2>1 DEF ChoiceRead, PassesOfChoice, ReqSaves, JobPasses
    <2>3. OthersRowsGo'
        BY <2>1 DEF OthersRowsGo, VulnReqAt
    <2>4. PurgeStands'
        BY <1>2, <2>1 DEF PurgeStands, VulnReqAt
    <2> QED
        BY <2>2, <2>3, <2>4
<1>4. PurgedStands'
    BY <1>2 DEF PurgedStands
<1> QED
    BY <1>1, <1>3, <1>4 DEF ChoicesApart

LEMMA SaveWriteIInv ==
    ASSUME VulnIInv, VulnTypeOK', NEW r \in VulnReq, SaveWrite(r)
    PROVE  VulnIInv'
<1> USE DEF VulnIInv
<1>0. /\ vulnReq[r].op = "save" /\ vulnReq[r].pc = "write" /\ vulnReq[r].scanner \in Scanner
      /\ choice'.enabled = vulnReq[r].enabled /\ choice'.scanner = vulnReq[r].scanner
      /\ UNCHANGED <<busy, disk, scans, vulnJob>>
    BY DEF SaveWrite, VulnReqAt, ScannersNamed
<1>1. /\ vulnReq'[r].op = "save" /\ vulnReq'[r].pc = "rows"
      /\ vulnReq'[r].scanner = vulnReq[r].scanner /\ vulnReq'[r].prev = vulnReq[r].prev
      /\ OthersKept(r)
    <2>1. vulnReq' = [vulnReq EXCEPT ![r].pc = "rows"] /\ vulnReq[r] \in VulnReqState
        BY DEF SaveWrite, ReqGoto, VulnTypeOK
    <2> QED
        BY <1>0, <2>1 DEF VulnTypeOK, VulnReqState, OthersKept
<1>2. ScannersNamed' /\ SingleFlight' /\ RowsAsRead'
    BY <1>0, <1>1 DEF ScannersNamed, SingleFlight, RowsAsRead, JobActive, JobPasses, OthersKept
<1>3. ASSUME ~ stray' PROVE (ChoiceRead /\ PassesOfChoice /\ OthersRowsGo /\ PurgeStands)'
    <2>1. ~ stray /\ ~ Others(r) /\ (Passing => choice.scanner = vulnReq[r].scanner)
        BY <1>3 DEF SaveWrite
    <2>2. ChoiceRead /\ PassesOfChoice /\ OthersRowsGo
        BY <2>1 DEF ChoicesApart
    <2>3. \A q \in VulnReq \ {r} : vulnReq[q].op \notin {"save", "purge"} /\ vulnReq'[q] = vulnReq[q]
        BY <1>1, <2>1 DEF Others, OthersKept
    <2>4. ChoiceRead' /\ PurgeStands'
        BY <1>1, <2>3 DEF ChoiceRead, PurgeStands, ReqSaves, VulnReqAt
    <2>5. PassesOfChoice'
        BY <1>0, <2>1, <2>2 DEF PassesOfChoice, JobPasses, Passing
    <2>6. OthersRowsGo'
        <3> SUFFICES ASSUME NEW s \in Scanner \ {vulnReq[r].scanner},
                            ~ \A i \in Image : scans[s][i] = NoResult
                     PROVE  VulnReqAt(r, "save", "rows")' /\ (vulnReq[r].prev = s /\ s # vulnReq[r].scanner)'
            BY <1>0 DEF OthersRowsGo
        <3>1. s = choice.scanner
            BY <1>0, <2>2, <2>3 DEF OthersRowsGo, VulnReqAt
        <3>2. vulnReq[r].prev = choice.scanner
            BY <1>0, <2>2 DEF ChoiceRead, ReqSaves
        <3> QED
            BY <1>1, <3>1, <3>2 DEF VulnReqAt
    <2> QED
        BY <2>4, <2>5, <2>6
<1>4. PurgedStands'
    <2>1. purged' => purged /\ ~ choice'.enabled
        BY <1>0 DEF SaveWrite
    <2>2. ~ stray' => ~ stray
        BY DEF SaveWrite
    <2>3. Passing' <=> Passing
        BY <1>0 DEF Passing
    <2> QED
        BY <1>0, <2>1, <2>2, <2>3 DEF PurgedStands
<1> QED
    BY <1>2, <1>3, <1>4 DEF ChoicesApart

LEMMA SaveRowsIInv ==
    ASSUME VulnIInv, VulnTypeOK', NEW r \in VulnReq, SaveRows(r)
    PROVE  VulnIInv'
<1> USE DEF VulnIInv
<1>0. /\ vulnReq[r].op = "save" /\ vulnReq[r].pc = "rows"
      /\ UNCHANGED <<choice, busy, disk, vulnJob, stray, purged>>
    BY DEF SaveRows, VulnReqAt
<1>1. /\ \/ vulnReq'[r].op = "none" /\ vulnReq'[r].pc = "idle"
         \/ /\ vulnReq'[r].op = "save" /\ vulnReq'[r].pc = "start"
            /\ vulnReq'[r].scanner = vulnReq[r].scanner
      /\ OthersKept(r)
    <2>1. \/ vulnReq' = [vulnReq EXCEPT ![r] = NoVulnReq]
          \/ vulnReq' = [vulnReq EXCEPT ![r].pc = "start"]
        BY DEF SaveRows, ReqGoto, ReqReturn
    <2>2. vulnReq[r] \in VulnReqState
        BY DEF VulnTypeOK
    <2> QED
        BY <1>0, <2>1, <2>2 DEF VulnTypeOK, VulnReqState, NoVulnReq, OthersKept
<1>2. \A s \in Scanner, i \in Image : scans'[s][i] = scans[s][i] \/ scans'[s][i] = NoResult
    BY DEF SaveRows, VulnTypeOK
<1>3. ScannersNamed' /\ SingleFlight'
    BY <1>0, <1>1 DEF ScannersNamed, SingleFlight, JobActive, JobPasses, OthersKept
<1>4. RowsAsRead'
    BY <1>0, <1>2 DEF RowsAsRead, ScannersNamed, JobPasses, NoResult
<1>5. ASSUME ~ stray PROVE (ChoiceRead /\ PassesOfChoice /\ OthersRowsGo /\ PurgeStands)'
    <2>1. ChoiceRead /\ PassesOfChoice /\ OthersRowsGo /\ PurgeStands
        BY <1>5 DEF ChoicesApart
    <2>2. ChoiceRead' /\ PassesOfChoice'
        BY <1>0, <1>1, <2>1 DEF ChoiceRead, PassesOfChoice, ReqSaves, JobPasses, OthersKept
    <2>3. PurgeStands'
        BY <1>0, <1>1, <2>1 DEF PurgeStands, VulnReqAt, Passing, OthersKept
    <2>4. ASSUME NEW s \in Scanner, vulnReq[r].prev = s, s # vulnReq[r].scanner
          PROVE  \A i \in Image : scans'[s][i] = NoResult
        <3>1. scans' = [scans EXCEPT ![s] = [i \in Image |-> NoResult]]
            BY <2>4, VulnScanAssumption DEF SaveRows
        <3> QED
            BY <3>1 DEF VulnTypeOK
    <2>5. OthersRowsGo'
        <3> SUFFICES ASSUME NEW s \in Scanner \ {choice.scanner},
                            ~ \A i \in Image : scans'[s][i] = NoResult
                     PROVE  \E q \in VulnReq : (VulnReqAt(q, "save", "rows") /\ vulnReq[q].prev = s
                                                /\ s # vulnReq[q].scanner)'
            BY <1>0 DEF OthersRowsGo
        <3>1. PICK q \in VulnReq : VulnReqAt(q, "save", "rows") /\ vulnReq[q].prev = s /\ s # vulnReq[q].scanner
            BY <1>2, <2>1 DEF OthersRowsGo
        <3>2. q # r
            BY <2>4, <3>1
        <3> QED
            BY <1>1, <3>1, <3>2 DEF VulnReqAt, OthersKept
    <2> QED
        BY <2>2, <2>3, <2>5
<1>6. PurgedStands'
    BY <1>0, <1>2 DEF PurgedStands, Passing
<1> QED
    BY <1>0, <1>3, <1>4, <1>5, <1>6 DEF ChoicesApart

LEMMA PurgeWriteIInv ==
    ASSUME VulnIInv, VulnTypeOK', NEW r \in VulnReq, PurgeWrite(r)
    PROVE  VulnIInv'
<1> USE DEF VulnIInv
<1>0. /\ vulnReq[r].op = "purge" /\ vulnReq[r].pc = "write"
      /\ ~ choice'.enabled /\ choice'.scanner = vulnReq[r].prev
      /\ UNCHANGED <<busy, disk, scans, vulnJob, purged>>
    BY DEF PurgeWrite, VulnReqAt
<1>1. /\ vulnReq'[r].op = "purge" /\ vulnReq'[r].pc = "dirs" /\ vulnReq'[r].left = Scanner
      /\ OthersKept(r)
    <2>1. vulnReq' = [vulnReq EXCEPT ![r].pc = "dirs", ![r].left = Scanner] /\ vulnReq[r] \in VulnReqState
        BY DEF PurgeWrite, VulnTypeOK
    <2> QED
        BY <1>0, <2>1 DEF VulnTypeOK, VulnReqState, OthersKept
<1>2. ScannersNamed' /\ SingleFlight' /\ RowsAsRead'
    BY <1>0, <1>1 DEF ScannersNamed, SingleFlight, RowsAsRead, JobActive, JobPasses, OthersKept
<1>3. ~ stray' => ~ stray /\ ~ Others(r) /\ ~ Passing
    BY DEF PurgeWrite
<1>4. ASSUME ~ stray' PROVE (ChoiceRead /\ PassesOfChoice /\ OthersRowsGo /\ PurgeStands)'
    <2>1. ChoiceRead /\ PassesOfChoice /\ OthersRowsGo
        BY <1>3, <1>4 DEF ChoicesApart
    <2>2. \A q \in VulnReq \ {r} : vulnReq[q].op \notin {"save", "purge"} /\ vulnReq'[q] = vulnReq[q]
        BY <1>1, <1>3, <1>4 DEF Others, OthersKept
    <2>3. ~ Passing'
        BY <1>0, <1>3, <1>4 DEF Passing
    <2>4. ChoiceRead' /\ PurgeStands'
        BY <1>0, <1>1, <2>2, <2>3 DEF ChoiceRead, PurgeStands, ReqSaves, VulnReqAt
    <2>5. PassesOfChoice'
        BY <2>3 DEF PassesOfChoice, JobPasses, Passing
    <2>6. choice'.scanner = choice.scanner
        BY <1>0, <2>1 DEF ChoiceRead, ReqSaves
    <2>7. OthersRowsGo'
        BY <1>0, <2>1, <2>2, <2>6 DEF OthersRowsGo, VulnReqAt
    <2> QED
        BY <2>4, <2>5, <2>7
<1>5. PurgedStands'
    BY <1>0, <1>3 DEF PurgedStands, Passing
<1> QED
    BY <1>2, <1>4, <1>5 DEF ChoicesApart

LEMMA PurgeDirsIInv ==
    ASSUME VulnIInv, VulnTypeOK', NEW r \in VulnReq, PurgeDirs(r)
    PROVE  VulnIInv'
<1> USE DEF VulnIInv
<1>0. /\ vulnReq[r].op = "purge" /\ vulnReq[r].pc = "dirs"
      /\ UNCHANGED <<choice, busy, vulnJob, stray>>
    BY DEF PurgeDirs, VulnReqAt
<1>1. SingleFlight' /\ (Passing' <=> Passing)
    BY <1>0 DEF SingleFlight, JobActive, Passing
<1>2. CASE vulnReq[r].left # {}
    <2>0. PICK s \in vulnReq[r].left : /\ disk' = [disk EXCEPT ![s] = NoData]
                                       /\ vulnReq' = [vulnReq EXCEPT ![r].left = @ \ {s}]
        BY <1>2 DEF PurgeDirs
    <2>1. UNCHANGED <<scans, purged>>
        BY <1>2 DEF PurgeDirs
    <2>2. /\ vulnReq'[r].op = "purge" /\ vulnReq'[r].pc = "dirs"
          /\ vulnReq'[r].left = vulnReq[r].left \ {s} /\ OthersKept(r)
        <3>1. vulnReq[r] \in VulnReqState
            BY DEF VulnTypeOK
        <3> QED
            BY <1>0, <2>0, <3>1 DEF VulnTypeOK, VulnReqState, OthersKept
    <2>3. disk'[s] = NoData /\ \A t \in Scanner : disk'[t] = disk[t] \/ disk'[t] = NoData
        <3>1. s \in Scanner
            BY DEF VulnTypeOK, VulnReqState
        <3> QED
            BY <2>0, <3>1 DEF VulnTypeOK
    <2>4. ScannersNamed' /\ RowsAsRead'
        BY <1>0, <2>1, <2>2 DEF ScannersNamed, RowsAsRead, JobPasses, OthersKept
    <2>5. ASSUME ~ stray PROVE (ChoiceRead /\ PassesOfChoice /\ OthersRowsGo /\ PurgeStands)'
        <3>1. ChoiceRead /\ PassesOfChoice /\ OthersRowsGo /\ PurgeStands
            BY <2>5 DEF ChoicesApart
        <3>2. ChoiceRead' /\ PassesOfChoice' /\ OthersRowsGo'
            BY <1>0, <2>1, <2>2, <3>1 DEF ChoiceRead, PassesOfChoice, OthersRowsGo, ReqSaves, JobPasses,
               VulnReqAt, OthersKept
        <3>3. PurgeStands'
            BY <1>0, <1>1, <2>2, <2>3, <3>1 DEF PurgeStands, VulnReqAt, OthersKept
        <3> QED
            BY <3>2, <3>3
    <2>6. PurgedStands'
        BY <1>0, <1>1, <2>1, <2>3 DEF PurgedStands
    <2> QED
        BY <1>0, <1>1, <2>4, <2>5, <2>6 DEF ChoicesApart
<1>3. CASE vulnReq[r].left = {}
    <2>1. /\ vulnReq' = [vulnReq EXCEPT ![r] = NoVulnReq]
          /\ scans' = [s \in Scanner |-> [i \in Image |-> NoResult]]
          /\ purged' = ~ choice.enabled /\ UNCHANGED disk
        BY <1>3 DEF PurgeDirs, ReqReturn
    <2>2. vulnReq'[r].op = "none" /\ OthersKept(r)
        BY <2>1 DEF VulnTypeOK, NoVulnReq, OthersKept
    <2>3. \A s \in Scanner, i \in Image : scans'[s][i] = NoResult
        BY <2>1
    <2>4. ScannersNamed'
        BY <1>0, <2>2 DEF ScannersNamed, JobPasses, OthersKept
    <2>5. RowsAsRead'
        BY <1>0, <2>3 DEF RowsAsRead, ScannersNamed, JobPasses, NoResult
    <2>6. ASSUME ~ stray PROVE (ChoiceRead /\ PassesOfChoice /\ OthersRowsGo /\ PurgeStands)'
        <3>1. ChoiceRead /\ PassesOfChoice /\ PurgeStands
            BY <2>6 DEF ChoicesApart
        <3>2. ChoiceRead' /\ PassesOfChoice' /\ OthersRowsGo'
            BY <1>0, <2>2, <2>3, <3>1 DEF ChoiceRead, PassesOfChoice, OthersRowsGo, ReqSaves, JobPasses, OthersKept
        <3>3. PurgeStands'
            BY <1>0, <1>1, <2>1, <2>2, <3>1 DEF PurgeStands, VulnReqAt, OthersKept
        <3> QED
            BY <3>2, <3>3
    <2>7. PurgedStands'
        <3>1. ~ stray => ~ Passing /\ \A s \in Scanner : disk[s] = NoData
            BY <1>0, <1>3 DEF ChoicesApart, PurgeStands, VulnReqAt
        <3> QED
            BY <1>0, <1>1, <2>1, <2>3, <3>1 DEF PurgedStands
    <2> QED
        BY <1>0, <1>1, <2>4, <2>5, <2>6, <2>7 DEF ChoicesApart
<1> QED
    BY <1>2, <1>3

LEMMA ReqIInv ==
    ASSUME VulnIInv, NEW r \in VulnReq, VulnReqStep(r)
    PROVE  VulnIInv'
<1>1. VulnTypeOK /\ SingleFlight
    BY DEF VulnIInv
<1>2. VulnTypeOK'
    BY <1>1, ReqTypes
<1>3. \/ Opening(r) /\ OthersKept(r)
      \/ Closing(r) /\ OthersKept(r)
      \/ SaveWrite(r) \/ SaveRows(r) \/ PurgeWrite(r) \/ PurgeDirs(r)
    BY <1>1, RequestFrames DEF VulnReqStep
<1> QED
    BY <1>2, <1>3, OpeningIInv, ClosingIInv, SaveWriteIInv, SaveRowsIInv, PurgeWriteIInv, PurgeDirsIInv

(* A job is the only one there is: it goes on with its scanner, or ends.    *)
JobAlone(j) == \A k \in VulnJob \ {j} : vulnJob[k].pc = "idle" /\ vulnJob'[k] = vulnJob[k]

Moving(j) ==
    /\ vulnJob'[j].pc \notin {"idle", "begin"}
    /\ vulnJob'[j].scanner \in Scanner
    /\ \/ JobPasses(j) /\ vulnJob'[j].scanner = vulnJob[j].scanner
       \/ choice.enabled /\ vulnJob'[j].scanner = choice.scanner
    /\ vulnJob'[j].pc = "scan" =>
           /\ vulnJob'[j].image \in Image
           /\ scans[vulnJob'[j].scanner][vulnJob'[j].image].status = "ok" => vulnJob'[j].prev.status = "ok"
    /\ UNCHANGED <<choice, busy, scans, vulnReq, stray, purged>>

Ending(j) ==
    /\ vulnJob'[j].pc = "idle"
    /\ UNCHANGED <<choice, disk, scans, vulnReq, stray, purged>>

LEMMA JobFrames ==
    ASSUME VulnIInv, NEW j \in VulnJob, VulnJobStep(j)
    PROVE  /\ vulnJob[j].pc # "idle" /\ JobAlone(j)
           /\ Moving(j) \/ Ending(j) \/ PassScan(j) \/ PassPrune(j)
<1> USE DEF VulnIInv
<1>0. vulnJob[j] \in VulnJobState
    BY DEF VulnTypeOK
<1>1. vulnJob[j].pc # "idle"
    BY DEF VulnJobStep, PassBegin, PassInstall, PassUpdate, PassTargets, PassNext, PassScan, PassPrune, PassFails
<1>2. \A k \in VulnJob \ {j} : vulnJob[k].pc = "idle"
    BY <1>1 DEF SingleFlight, JobActive
<1>3. \A k \in VulnJob \ {j} : vulnJob'[k] = vulnJob[k]
    BY DEF VulnTypeOK, VulnJobStep, PassBegin, PassInstall, PassUpdate, PassTargets, PassNext, PassScan,
       PassPrune, PassFails, JobGoto, JobEnds
<1>4. ASSUME JobEnds(j) PROVE vulnJob'[j].pc = "idle"
    BY <1>4 DEF JobEnds, VulnTypeOK, NoVulnJob
<1>5. ASSUME PassBegin(j) PROVE Moving(j) \/ Ending(j)
    <2>1. CASE JobEnds(j)
        BY <1>4, <1>5, <2>1 DEF PassBegin, Ending, JobEnds
    <2>2. CASE ~ JobEnds(j)
        <3>1. /\ choice.enabled /\ UNCHANGED busy
              /\ vulnJob' = [vulnJob EXCEPT ![j].pc = "install", ![j].scanner = choice.scanner]
            BY <1>5, <2>2 DEF PassBegin, ActiveScanner
        <3>2. vulnJob'[j].pc = "install" /\ vulnJob'[j].scanner = choice.scanner
            BY <1>0, <3>1 DEF VulnTypeOK, VulnJobState
        <3>3. choice.scanner \in Scanner
            BY <3>1 DEF ScannersNamed
        <3> QED
            BY <1>5, <3>1, <3>2, <3>3 DEF PassBegin, Moving
    <2> QED
        BY <2>1, <2>2
<1>6. ASSUME PassInstall(j) PROVE Moving(j) \/ Ending(j)
    <2>1. CASE JobEnds(j) /\ UNCHANGED disk
        BY <1>4, <1>6, <2>1 DEF PassInstall, Ending
    <2>2. CASE JobGoto(j, "update") /\ UNCHANGED busy
        <3>1. vulnJob'[j].pc = "update" /\ vulnJob'[j].scanner = vulnJob[j].scanner
            BY <1>0, <2>2 DEF JobGoto, VulnTypeOK, VulnJobState
        <3>2. JobPasses(j) /\ vulnJob[j].scanner \in Scanner
            BY <1>6 DEF PassInstall, ScannersNamed, JobPasses
        <3> QED
            BY <1>6, <2>2, <3>1, <3>2 DEF PassInstall, Moving
    <2> QED
        BY <1>6, <2>1, <2>2 DEF PassInstall
<1>7. ASSUME PassUpdate(j) PROVE Moving(j) \/ Ending(j)
    <2>1. CASE JobEnds(j) /\ UNCHANGED disk
        BY <1>4, <1>7, <2>1 DEF PassUpdate, Ending
    <2>2. CASE ~ (JobEnds(j) /\ UNCHANGED disk)
        <3>0. PICK b : vulnJob' = [vulnJob EXCEPT ![j].pc = "targets", ![j].built = b]
            BY <1>7, <2>2 DEF PassUpdate
        <3>1. vulnJob'[j].pc = "targets" /\ vulnJob'[j].scanner = vulnJob[j].scanner
            BY <1>0, <3>0 DEF VulnTypeOK, VulnJobState
        <3>2. JobPasses(j) /\ vulnJob[j].scanner \in Scanner
            BY <1>7 DEF PassUpdate, ScannersNamed, JobPasses
        <3> QED
            BY <1>7, <2>2, <3>1, <3>2 DEF PassUpdate, Moving
    <2> QED
        BY <2>1, <2>2
<1>8. ASSUME NEW targets \in SUBSET Image, PassTargets(j, targets) PROVE Moving(j) \/ Ending(j)
    <2>1. CASE JobEnds(j)
        BY <1>4, <1>8, <2>1 DEF PassTargets, Ending
    <2>2. CASE ~ JobEnds(j)
        <3>0. /\ vulnJob' = [vulnJob EXCEPT ![j].pc = "next", ![j].keep = targets, ![j].left = targets]
              /\ UNCHANGED busy
            BY <1>8, <2>2 DEF PassTargets
        <3>1. vulnJob'[j].pc = "next" /\ vulnJob'[j].scanner = vulnJob[j].scanner
            BY <1>0, <3>0 DEF VulnTypeOK, VulnJobState
        <3>2. JobPasses(j) /\ vulnJob[j].scanner \in Scanner
            BY <1>8 DEF PassTargets, ScannersNamed, JobPasses
        <3> QED
            BY <1>8, <3>0, <3>1, <3>2 DEF PassTargets, Moving
    <2> QED
        BY <2>1, <2>2
<1>9. ASSUME NEW i \in Image, PassNext(j, i) PROVE Moving(j)
    <2>1. /\ vulnJob'[j].pc \in {"next", "scan"} /\ vulnJob'[j].scanner = vulnJob[j].scanner
          /\ vulnJob'[j].image = i /\ vulnJob'[j].prev = scans[vulnJob[j].scanner][i]
        BY <1>0, <1>9 DEF PassNext, VulnTypeOK, VulnJobState
    <2>2. JobPasses(j) /\ vulnJob[j].scanner \in Scanner
        BY <1>9 DEF PassNext, ScannersNamed, JobPasses
    <2> QED
        BY <1>9, <2>1, <2>2 DEF PassNext, Moving
<1>10. ASSUME PassFails(j) PROVE Ending(j)
    BY <1>4, <1>10 DEF PassFails, Ending
<1>11. Moving(j) \/ Ending(j) \/ PassScan(j) \/ PassPrune(j)
    BY <1>5, <1>6, <1>7, <1>8, <1>9, <1>10 DEF VulnJobStep
<1> QED
    BY <1>1, <1>2, <1>3, <1>11 DEF JobAlone

LEMMA MovingIInv ==
    ASSUME VulnIInv, VulnTypeOK', NEW j \in VulnJob, vulnJob[j].pc # "idle", JobAlone(j), Moving(j)
    PROVE  VulnIInv'
<1> USE DEF VulnIInv, JobAlone, Moving
<1>1. ScannersNamed' /\ RowsAsRead'
    BY DEF ScannersNamed, RowsAsRead, JobPasses
<1>2. SingleFlight'
    BY DEF SingleFlight, JobActive
<1>3. ASSUME ~ stray PROVE (ChoiceRead /\ PassesOfChoice /\ OthersRowsGo /\ PurgeStands)'
    <2>1. ChoiceRead /\ PassesOfChoice /\ OthersRowsGo /\ PurgeStands
        BY <1>3 DEF ChoicesApart
    <2>2. ChoiceRead' /\ OthersRowsGo'
        BY <2>1 DEF ChoiceRead, ReqSaves, OthersRowsGo, VulnReqAt
    <2>3. PassesOfChoice'
        BY <2>1 DEF PassesOfChoice, JobPasses
    <2>4. PurgeStands'
        <3>1. choice.enabled \/ Passing
            BY DEF Passing, JobPasses
        <3> QED
            BY <2>1, <3>1 DEF PurgeStands, VulnReqAt
    <2> QED
        BY <2>2, <2>3, <2>4
<1>4. PurgedStands'
    BY DEF PurgedStands, Passing, JobPasses
<1> QED
    BY <1>1, <1>2, <1>3, <1>4 DEF ChoicesApart

LEMMA EndingIInv ==
    ASSUME VulnIInv, VulnTypeOK', NEW j \in VulnJob, JobAlone(j), Ending(j)
    PROVE  VulnIInv'
<1> USE DEF VulnIInv, JobAlone, Ending
<1>0. \A k \in VulnJob : vulnJob'[k].pc = "idle"
    OBVIOUS
<1>1. ScannersNamed' /\ RowsAsRead' /\ SingleFlight' /\ PassesOfChoice' /\ ~ Passing'
    BY <1>0 DEF ScannersNamed, RowsAsRead, SingleFlight, PassesOfChoice, JobPasses, JobActive, Passing
<1>2. ASSUME ~ stray PROVE (ChoiceRead /\ OthersRowsGo /\ PurgeStands)'
    <2>1. ChoiceRead /\ OthersRowsGo /\ PurgeStands
        BY <1>2 DEF ChoicesApart
    <2> QED
        BY <1>1, <2>1 DEF ChoiceRead, ReqSaves, OthersRowsGo, VulnReqAt, PurgeStands
<1>3. PurgedStands'
    BY <1>1 DEF PurgedStands
<1> QED
    BY <1>1, <1>2, <1>3 DEF ChoicesApart

(* What a scan writes is one row, good or with nothing good lost.           *)
LEMMA ScanWrites ==
    ASSUME VulnIInv, NEW j \in VulnJob, PassScan(j)
    PROVE  /\ vulnJob[j].scanner \in Scanner /\ vulnJob[j].image \in Image
           /\ \A s \in Scanner \ {vulnJob[j].scanner} : scans'[s] = scans[s]
           /\ \A s \in Scanner, i \in Image : scans[s][i].status = "ok" => scans'[s][i].status # "error"
<1>1. vulnJob[j].scanner \in Scanner /\ vulnJob[j].image \in Image
    BY DEF VulnIInv, ScannersNamed, JobPasses, PassScan
<1>2. \A s \in Scanner \ {vulnJob[j].scanner} : scans'[s] = scans[s]
    BY <1>1 DEF VulnIInv, VulnTypeOK, PassScan, UpsertImageScan
<1>3. ASSUME NEW s \in Scanner, NEW i \in Image, scans[s][i].status = "ok"
      PROVE  scans'[s][i].status # "error"
    <2>1. CASE s = vulnJob[j].scanner /\ i = vulnJob[j].image
        <3>1. KeepEarlier(vulnJob[j].prev)
            BY <1>3, <2>1 DEF VulnIInv, RowsAsRead, PassScan, KeepEarlier
        <3>2. scans' = scans \/ \E b : scans' = UpsertImageScan(s, i, "ok", b)
            BY <2>1, <3>1 DEF PassScan
        <3> QED
            BY <1>3, <3>2 DEF UpsertImageScan, VulnIInv, VulnTypeOK
    <2>2. CASE ~ (s = vulnJob[j].scanner /\ i = vulnJob[j].image)
        <3>1. scans'[s][i] = scans[s][i]
            BY <1>1, <2>2 DEF PassScan, UpsertImageScan, VulnIInv, VulnTypeOK
        <3> QED
            BY <1>3, <3>1
    <2> QED
        BY <2>1, <2>2
<1> QED
    BY <1>1, <1>2, <1>3

LEMMA PassScanIInv ==
    ASSUME VulnIInv, VulnTypeOK', NEW j \in VulnJob, JobAlone(j), PassScan(j)
    PROVE  VulnIInv'
<1> USE DEF VulnIInv
<1>0. /\ vulnJob[j].pc = "scan" /\ UNCHANGED <<choice, busy, disk, vulnReq, stray, purged>>
      /\ Passing
    BY DEF PassScan, Passing
<1>1. vulnJob'[j].pc = "next" /\ vulnJob'[j].scanner = vulnJob[j].scanner
    BY DEF PassScan, JobGoto, VulnTypeOK, VulnJobState
<1>2. ScannersNamed' /\ RowsAsRead'
    BY <1>0, <1>1 DEF ScannersNamed, RowsAsRead, JobPasses, JobAlone
<1>3. SingleFlight'
    BY <1>0, <1>1 DEF SingleFlight, JobActive, JobAlone
<1>4. ASSUME ~ stray PROVE (ChoiceRead /\ PassesOfChoice /\ OthersRowsGo /\ PurgeStands)'
    <2>1. ChoiceRead /\ PassesOfChoice /\ OthersRowsGo /\ PurgeStands
        BY <1>4 DEF ChoicesApart
    <2>2. ChoiceRead'
        BY <1>0, <2>1 DEF ChoiceRead, ReqSaves
    <2>3. PassesOfChoice'
        BY <1>0, <1>1, <2>1 DEF PassesOfChoice, JobPasses, JobAlone
    <2>4. vulnJob[j].scanner = choice.scanner
        BY <1>0, <2>1 DEF PassesOfChoice, JobPasses
    <2>5. OthersRowsGo'
        BY <1>0, <2>1, <2>4, ScanWrites DEF OthersRowsGo, VulnReqAt
    <2>6. PurgeStands'
        BY <1>0, <2>1 DEF PurgeStands, VulnReqAt
    <2> QED
        BY <2>2, <2>3, <2>5, <2>6
<1>5. PurgedStands'
    BY <1>0 DEF PurgedStands
<1> QED
    BY <1>0, <1>2, <1>3, <1>4, <1>5 DEF ChoicesApart

LEMMA PassPruneIInv ==
    ASSUME VulnIInv, VulnTypeOK', NEW j \in VulnJob, JobAlone(j), PassPrune(j)
    PROVE  VulnIInv'
<1> USE DEF VulnIInv
<1>0. /\ vulnJob[j].pc = "next" /\ vulnJob'[j].pc = "idle" /\ vulnJob[j].scanner \in Scanner
      /\ UNCHANGED <<choice, disk, vulnReq, purged>>
      /\ Passing
    BY DEF PassPrune, JobEnds, VulnTypeOK, NoVulnJob, ScannersNamed, JobPasses, Passing
<1>1. \A k \in VulnJob : vulnJob'[k].pc = "idle"
    BY <1>0 DEF JobAlone
<1>2. ScannersNamed' /\ RowsAsRead' /\ SingleFlight' /\ PassesOfChoice' /\ ~ Passing'
    BY <1>0, <1>1 DEF ScannersNamed, RowsAsRead, SingleFlight, PassesOfChoice, JobPasses, JobActive, Passing
<1>3. \A s \in Scanner, i \in Image :
         /\ scans'[s][i] = scans[s][i] \/ scans'[s][i] = NoResult
         /\ s # vulnJob[j].scanner => scans'[s][i] = NoResult
    BY DEF PassPrune, PruneImageScans
<1>4. ~ stray' => \/ ~ stray
                  \/ choice = [enabled |-> TRUE, scanner |-> vulnJob[j].scanner] /\ ~ Saving
    BY DEF PassPrune
<1>5. ASSUME ~ stray PROVE (ChoiceRead /\ OthersRowsGo /\ PurgeStands)'
    <2>1. ChoiceRead /\ PassesOfChoice /\ OthersRowsGo /\ PurgeStands
        BY <1>5 DEF ChoicesApart
    <2>2. vulnJob[j].scanner = choice.scanner
        BY <1>0, <2>1 DEF PassesOfChoice, JobPasses
    <2>3. OthersRowsGo'
        BY <1>0, <1>3, <2>2 DEF OthersRowsGo
    <2>4. ChoiceRead'
        BY <1>0, <2>1 DEF ChoiceRead, ReqSaves
    <2>5. PurgeStands'
        BY <1>0, <1>2, <2>1 DEF PurgeStands, VulnReqAt
    <2> QED
        BY <2>3, <2>4, <2>5
<1>6. ASSUME choice = [enabled |-> TRUE, scanner |-> vulnJob[j].scanner], ~ Saving
      PROVE  (ChoiceRead /\ OthersRowsGo /\ PurgeStands)'
    <2>1. \A r \in VulnReq : vulnReq'[r].op \notin {"save", "purge"}
        BY <1>0, <1>6 DEF Saving
    <2>2. ChoiceRead' /\ PurgeStands'
        BY <2>1 DEF ChoiceRead, PurgeStands, ReqSaves, VulnReqAt
    <2>3. OthersRowsGo'
        BY <1>0, <1>3, <1>6 DEF OthersRowsGo
    <2> QED
        BY <2>2, <2>3
<1>7. PurgedStands'
    <2>1. purged => ~ choice.enabled
        BY DEF PurgedStands
    <2>2. ~ stray' /\ purged => ~ stray
        BY <1>4, <2>1
    <2> QED
        BY <1>0, <2>1, <2>2 DEF PurgedStands
<1> QED
    BY <1>2, <1>4, <1>5, <1>6, <1>7 DEF ChoicesApart

LEMMA JobIInv ==
    ASSUME VulnIInv, NEW j \in VulnJob, VulnJobStep(j)
    PROVE  VulnIInv'
<1>1. VulnTypeOK'
    BY JobTypes DEF VulnIInv
<1>2. /\ vulnJob[j].pc # "idle" /\ JobAlone(j)
      /\ Moving(j) \/ Ending(j) \/ PassScan(j) \/ PassPrune(j)
    BY JobFrames
<1> QED
    BY <1>1, <1>2, MovingIInv, EndingIInv, PassScanIInv, PassPruneIInv

LEMMA VulnRestartIInv == VulnIInv /\ VulnRestart => VulnIInv'
<1> SUFFICES ASSUME VulnIInv, VulnRestart PROVE VulnIInv'
    OBVIOUS
<1> USE DEF VulnIInv
<1>1. /\ \A r \in VulnReq : vulnReq'[r].op = "none" /\ vulnReq'[r].pc = "idle"
      /\ \A j \in VulnJob : vulnJob'[j].pc = "idle"
      /\ UNCHANGED <<choice, disk, scans, purged>>
    BY DEF VulnRestart, NoVulnReq, NoVulnJob
<1>2. VulnTypeOK'
    <2>1. /\ vulnReq' \in [VulnReq -> VulnReqState] /\ vulnJob' \in [VulnJob -> VulnJobState]
          /\ busy' \in BOOLEAN
        BY VulnBlank DEF VulnRestart
    <2>2. stray' \in BOOLEAN
        BY DEF VulnRestart
    <2>3. saves' \in 0 .. MaxSaves
        BY VulnScanAssumption DEF VulnRestart, VulnTypeOK
    <2> QED
        BY <2>1, <2>2, <2>3 DEF VulnRestart, VulnTypeOK
<1>3. ScannersNamed' /\ RowsAsRead' /\ SingleFlight' /\ ~ Passing'
    BY <1>1 DEF ScannersNamed, RowsAsRead, SingleFlight, JobPasses, JobActive, Passing
<1>4. ~ stray' => ~ stray /\ ~ Saving
    BY DEF VulnRestart
<1>5. ~ stray' => (ChoiceRead /\ PassesOfChoice /\ PurgeStands)'
    BY <1>1 DEF ChoiceRead, PassesOfChoice, PurgeStands, JobPasses, ReqSaves, VulnReqAt
<1>6. ~ stray' => OthersRowsGo'
    BY <1>1, <1>4 DEF ChoicesApart, OthersRowsGo, VulnReqAt, Saving
<1>7. PurgedStands'
    BY <1>1, <1>3, <1>4 DEF PurgedStands
<1> QED
    BY <1>2, <1>3, <1>5, <1>6, <1>7 DEF ChoicesApart

LEMMA VulnNextIInv == VulnIInv /\ [VulnNext]_vulnVars => VulnIInv'
<1> SUFFICES ASSUME VulnIInv, [VulnNext]_vulnVars PROVE VulnIInv'
    OBVIOUS
<1>1. ASSUME UNCHANGED <<choice, busy, disk, scans, vulnReq, vulnJob, stray, purged>>, VulnTypeOK'
      PROVE  VulnIInv'
    BY <1>1 DEF VulnIInv, ScannersNamed, SingleFlight, RowsAsRead, ChoicesApart, ChoiceRead, PassesOfChoice,
       OthersRowsGo, PurgeStands, PurgedStands, JobActive, JobPasses, ReqSaves, VulnReqAt, Passing
<1>2. CASE UNCHANGED vulnVars
    BY <1>1, <1>2 DEF vulnVars, VulnIInv, VulnTypeOK
<1>3. CASE Publish
    <2>1. published' \in 1 .. MaxBuild
        BY <1>3, VulnScanAssumption DEF Publish, VulnIInv, VulnTypeOK
    <2>2. VulnTypeOK'
        BY <1>3, <2>1 DEF Publish, VulnIInv, VulnTypeOK
    <2> QED
        BY <1>1, <1>3, <2>2 DEF Publish
<1> QED
    BY <1>2, <1>3, ReqIInv, JobIInv, VulnRestartIInv DEF VulnNext

LEMMA VulnStands == VulnSpec => []VulnIInv
<1> QED
    BY VulnInitIInv, VulnNextIInv, PTL DEF VulnSpec

(* A good result is never replaced by an error.                             *)
THEOREM GoodResultsKept == VulnSpec => GoodResultStays
<1>1. ASSUME VulnIInv, [VulnNext]_vulnVars
      PROVE  [\A s \in Scanner, i \in Image :
                scans[s][i].status = "ok" => scans'[s][i].status # "error"]_vulnVars
    <2>1. ASSUME UNCHANGED scans
          PROVE  \A s \in Scanner, i \in Image : scans[s][i].status = "ok" => scans'[s][i].status # "error"
        BY <2>1
    <2>2. ASSUME NEW j \in VulnJob, VulnJobStep(j)
          PROVE  \A s \in Scanner, i \in Image : scans[s][i].status = "ok" => scans'[s][i].status # "error"
        <3>1. CASE PassScan(j)
            BY <1>1, <3>1, ScanWrites
        <3>2. CASE PassPrune(j)
            BY <3>2 DEF PassPrune, PruneImageScans, NoResult
        <3>3. CASE Moving(j) \/ Ending(j)
            BY <2>1, <3>3 DEF Moving, Ending
        <3> QED
            BY <1>1, <2>2, <3>1, <3>2, <3>3, JobFrames
    <2>3. ASSUME NEW r \in VulnReq, VulnReqStep(r)
          PROVE  \A s \in Scanner, i \in Image : scans[s][i].status = "ok" => scans'[s][i].status # "error"
        <3>1. CASE SaveRows(r)
            BY <1>1, <3>1 DEF SaveRows, VulnIInv, VulnTypeOK, NoResult
        <3>2. CASE PurgeDirs(r)
            <4>1. scans' = scans \/ \A s \in Scanner, i \in Image : scans'[s][i] = NoResult
                BY <3>2 DEF PurgeDirs
            <4> QED
                BY <4>1 DEF NoResult
        <3>3. CASE ~ SaveRows(r) /\ ~ PurgeDirs(r)
            BY <2>1, <2>3, <3>3 DEF VulnReqStep, AskScan, StartScan, SaveRead, SaveWrite, SaveStarts,
               PurgeCheck, PurgeWrite
        <3> QED
            BY <3>1, <3>2, <3>3
    <2>4. CASE Publish \/ VulnRestart \/ UNCHANGED vulnVars
        BY <2>1, <2>4 DEF Publish, VulnRestart, vulnVars
    <2> QED
        BY <1>1, <2>2, <2>3, <2>4 DEF VulnNext
<1> QED
    BY <1>1, VulnStands, PTL DEF VulnSpec, GoodResultStays

(* Only results of the chosen scanner are in the table, unless choices      *)
(* crossed.                                                                 *)
THEOREM OnlyChosenResults == VulnSpec => []ResultsOfTheChoice
<1>1. VulnIInv => ResultsOfTheChoice
    BY DEF VulnIInv, ChoicesApart, OthersRowsGo, ResultsOfTheChoice, Saving, VulnReqAt
<1> QED
    BY <1>1, VulnStands, PTL

(* What a purge deleted stays deleted until scanning is turned on.          *)
THEOREM PurgesLast == VulnSpec => []PurgeLasts
<1>1. VulnIInv => PurgeLasts
    BY DEF VulnIInv, PurgedStands, PurgeLasts
<1> QED
    BY <1>1, VulnStands, PTL

-----------------------------------------------------------------------------
(* Notifications: the inductive invariant.                                  *)

(* A check at rest is blank, and unless checks overlapped there is one.     *)
ChecksApart ==
    /\ \A c \in Check : checks[c].pc = "idle" => checks[c] = NoCheck
    /\ ~ lapped => \A c, d \in Check : checks[c] # NoCheck /\ checks[d] # NoCheck => c = d

(* Nothing newer than what was published is known; before anything is       *)
(* known, nothing is behind.                                                *)
KnownReleases ==
    /\ latest <= released
    /\ latest = 0 => agentOutdated = {} /\ \A c \in Check : checks[c].newest = 0

(* A host down and not flagged has an outage nobody was told of.            *)
OutagesToTell ==
    \A h \in Agent : /\ said[h].down <= outages[h]
                     /\ h \notin tunnels /\ h \notin hostDown => said[h].down < outages[h]

(* What the check under way will say of h, and what h's flag will be then.  *)
Seen(c, h) == SemverLess(checks[c].versions[h], checks[c].newest)
Looked(h) == \E c \in Check : h \in checks[c].left
SeesBehind(h) == \E c \in Check : h \in checks[c].left /\ Seen(c, h)
Raising(h) == h \notin agentOutdated /\ SeesBehind(h)
Standing(h) == IF Looked(h) THEN SeesBehind(h) ELSE h \in agentOutdated

(* Messages about h that may still come before anything else happens: the   *)
(* check's under way, the next one's, and those of releases not known yet.  *)
ToCome(h) ==
    (IF Raising(h) THEN 1 ELSE 0) +
    (IF latest = 0 THEN IF runs[h] < released THEN 1 ELSE 0
     ELSE (released - latest) + (IF ~ Standing(h) /\ runs[h] < latest THEN 1 ELSE 0))

ReleasesToTell == ~ lapped => \A h \in Agent : said[h].outdated + ToCome(h) <= behind[h]

NotifyIInv == NotifyTypeOK /\ ChecksApart /\ KnownReleases /\ OutagesToTell /\ ReleasesToTell

LEMMA BlankCheck == NoCheck \in CheckState /\ NoCheck.left = {} /\ NoCheck.newest = 0 /\ NoCheck.pc = "idle"
BY NotificationsAssumption DEF NoCheck, CheckState

LEMMA NotifyInitIInv == NotifyInit => NotifyIInv
<1> SUFFICES ASSUME NotifyInit PROVE NotifyIInv
    OBVIOUS
<1> USE BlankCheck, NotificationsAssumption
<1>1. NotifyTypeOK
    <2>1. checks \in [Check -> CheckState]
        BY DEF NotifyInit
    <2>2. notifyLock \subseteq Check /\ Cardinality(notifyLock) <= 1
        BY FS_EmptySet DEF NotifyInit
    <2>3. serverUpdateNotified \in BOOLEAN /\ lapped \in BOOLEAN
        BY DEF NotifyInit
    <2> QED
        BY <2>1, <2>2, <2>3 DEF NotifyInit, NotifyTypeOK, Said
<1>2. ChecksApart /\ KnownReleases
    BY DEF NotifyInit, ChecksApart, KnownReleases
<1>3. OutagesToTell
    BY DEF NotifyInit, OutagesToTell
<1>4. ReleasesToTell
    BY DEF NotifyInit, ReleasesToTell, ToCome, Raising, SeesBehind
<1> QED
    BY <1>1, <1>2, <1>3, <1>4 DEF NotifyIInv

LEMMA FleetTypes ==
    ASSUME NotifyTypeOK, NEW h \in Agent
    PROVE  /\ said[h].down \in Nat /\ said[h].outdated \in Nat
           /\ outages[h] \in Nat /\ behind[h] \in Nat
           /\ runs[h] \in Nat /\ released \in Nat /\ latest \in Nat /\ released # 0
BY NotificationsAssumption DEF NotifyTypeOK, Said

LEMMA NotifyTypes ==
    ASSUME NotifyTypeOK, NotifyNext
    PROVE  NotifyTypeOK'
<1> USE BlankCheck, NotificationsAssumption
<1>1. ASSUME NEW h \in Agent, Connect(h) PROVE NotifyTypeOK'
    BY <1>1 DEF Connect, NotifyTypeOK
<1>2. ASSUME NEW h \in Agent, Disconnect(h) PROVE NotifyTypeOK'
    BY <1>2 DEF Disconnect, NotifyTypeOK
<1>3. ASSUME NEW h \in Agent, NEW v \in 1 .. MaxRelease, AgentReports(h, v) PROVE NotifyTypeOK'
    <2>1. behind' \in [Agent -> Nat] /\ runs' \in [Agent -> 1 .. MaxRelease]
        BY <1>3 DEF AgentReports, NotifyTypeOK
    <2>2. drops' \in 0 .. MaxDrops
        BY <1>3 DEF AgentReports, NotifyTypeOK
    <2> QED
        BY <1>3, <2>1, <2>2 DEF AgentReports, NotifyTypeOK
<1>4. CASE Release
    BY <1>4 DEF Release, NotifyTypeOK
<1>5. ASSUME NEW v \in 0 .. MaxRelease, CheckLatestVersions(v) PROVE NotifyTypeOK'
    BY <1>5 DEF CheckLatestVersions, Set, NotifyTypeOK
<1>6. ASSUME NEW c \in Check, CheckReads(c) PROVE NotifyTypeOK'
    <2>1. [pc |-> "wait", versions |-> runs, newest |-> latest, left |-> Agent] \in CheckState
        BY DEF NotifyTypeOK, CheckState
    <2>2. checks' \in [Check -> CheckState]
        BY <1>6, <2>1 DEF CheckReads, NotifyTypeOK
    <2>3. lapped' \in BOOLEAN
        BY <1>6 DEF CheckReads
    <2> QED
        BY <1>6, <2>2, <2>3 DEF CheckReads, NotifyTypeOK
<1>7. ASSUME NEW c \in Check, CheckLocks(c) PROVE NotifyTypeOK'
    <2>1. checks' \in [Check -> CheckState]
        BY <1>7 DEF CheckLocks, NotifyTypeOK, CheckState
    <2>2. notifyLock' \subseteq Check /\ Cardinality(notifyLock') <= 1
        BY <1>7, FS_Singleton DEF CheckLocks
    <2> QED
        BY <1>7, <2>1, <2>2 DEF CheckLocks, NotifyTypeOK
<1>8. ASSUME NEW c \in Check, CheckServer(c) PROVE NotifyTypeOK'
    <2>1. checks' \in [Check -> CheckState]
        BY <1>8 DEF CheckServer, NotifyTypeOK
    <2>2. notifyLock' \subseteq Check /\ Cardinality(notifyLock') <= 1
        BY <1>8, FS_EmptySet DEF CheckServer
    <2>3. serverUpdateNotified' \in BOOLEAN
        BY <1>8 DEF CheckServer
    <2> QED
        BY <1>8, <2>1, <2>2, <2>3 DEF CheckServer, NotifyTypeOK
<1>9. ASSUME NEW c \in Check, NEW h \in Agent, CheckHost(c, h) PROVE NotifyTypeOK'
    <2>1. checks' \in [Check -> CheckState]
        BY <1>9 DEF CheckHost, NotifyTypeOK, CheckState
    <2>2. said' \in [Agent -> Said]
        <3>1. said[h].down \in Nat /\ said[h].outdated \in Nat
            BY FleetTypes
        <3>2. PICK a \in {0, 1}, b \in {0, 1} :
                 said' = [said EXCEPT ![h] = [down |-> @.down + a, outdated |-> @.outdated + b]]
            BY <1>9 DEF CheckHost
        <3>3. [down |-> said[h].down + a, outdated |-> said[h].outdated + b] \in Said
            BY <3>1 DEF Said
        <3> QED
            BY <3>2, <3>3 DEF NotifyTypeOK
    <2>3. hostDown' \subseteq Agent /\ agentOutdated' \subseteq Agent
        BY <1>9 DEF CheckHost, Flagged, NotifyTypeOK
    <2> QED
        BY <1>9, <2>1, <2>2, <2>3 DEF CheckHost, NotifyTypeOK
<1>10. CASE NotifyRestart
    <2>1. checks' \in [Check -> CheckState]
        BY <1>10 DEF NotifyRestart
    <2>2. notifyLock' \subseteq Check /\ Cardinality(notifyLock') <= 1
        BY <1>10, FS_EmptySet DEF NotifyRestart
    <2>3. serverUpdateNotified' \in BOOLEAN /\ lapped' \in BOOLEAN
        BY <1>10 DEF NotifyRestart
    <2>4. said' \in [Agent -> Said]
        BY <1>10 DEF NotifyRestart, Said
    <2>5. behind' \in [Agent -> Nat] /\ outages' \in [Agent -> Nat]
        BY <1>10 DEF NotifyRestart
    <2>6. drops' \in 0 .. MaxDrops /\ latest' \in 0 .. MaxRelease
        BY <1>10 DEF NotifyRestart, NotifyTypeOK
    <2> QED
        BY <1>10, <2>1, <2>2, <2>3, <2>4, <2>5, <2>6 DEF NotifyRestart, NotifyTypeOK
<1> QED
    BY <1>1, <1>2, <1>3, <1>4, <1>5, <1>6, <1>7, <1>8, <1>9, <1>10 DEF NotifyNext

(* d releases are not known yet, e afterwards; b news so far, f afterwards. *)
LEMMA NewsCount ==
    ASSUME NEW s \in Int, NEW p \in Int, NEW q \in Int, NEW r \in Int, NEW d \in Int, NEW e \in Int,
           NEW b \in Int, NEW f \in Int,
           s + (p + (d + q)) <= b, r <= 1, 0 <= q,
           \/ r <= q /\ e = d /\ f = b
           \/ e = d /\ f = b + 1
           \/ r <= q /\ e = d + 1 /\ f = b + 1
           \/ e = 0 /\ d >= 1 /\ f = b
    PROVE  s + (p + (e + r)) <= f
OBVIOUS

(* A step of the fleet or of the version check leaves the checks alone.     *)
LEMMA FleetIInv ==
    ASSUME NotifyIInv, NotifyTypeOK', UNCHANGED <<checks, agentOutdated, hostDown, lapped, said>>,
           latest' <= released', latest' = 0 => latest = 0,
           \A h \in Agent : /\ outages[h] <= outages'[h]
                            /\ h \in tunnels /\ h \notin tunnels' => outages'[h] = outages[h] + 1
                            /\ \/ /\ runs'[h] < runs[h] /\ UNCHANGED <<released, latest>>
                                  /\ behind'[h] = behind[h] + 1
                               \/ /\ runs'[h] >= runs[h] /\ UNCHANGED <<released, latest>>
                                  /\ behind'[h] = behind[h]
                               \/ /\ released' = released + 1 /\ UNCHANGED <<runs, latest>>
                                  /\ behind'[h] = behind[h] + 1
                               \/ /\ latest' = released /\ UNCHANGED <<runs, released, behind>>
    PROVE  NotifyIInv'
<1> USE DEF NotifyIInv
<1>1. ChecksApart'
    BY DEF ChecksApart
<1>2. KnownReleases'
    BY DEF KnownReleases
<1>3. OutagesToTell'
    <2> SUFFICES ASSUME NEW h \in Agent
                 PROVE  /\ said'[h].down <= outages'[h]
                        /\ h \notin tunnels' /\ h \notin hostDown' => said'[h].down < outages'[h]
        BY DEF OutagesToTell
    <2>1. /\ said[h].down <= outages[h]
          /\ h \notin tunnels /\ h \notin hostDown => said[h].down < outages[h]
          /\ said[h].down \in Nat /\ outages[h] \in Nat /\ outages'[h] \in Nat
        BY FleetTypes DEF OutagesToTell, NotifyTypeOK
    <2> QED
        BY <2>1
<1>4. ASSUME ~ lapped, NEW h \in Agent PROVE said'[h].outdated + ToCome(h)' <= behind'[h]
    <2>1. (Raising(h)' <=> Raising(h)) /\ (Standing(h)' <=> Standing(h))
        BY DEF Raising, Standing, SeesBehind, Looked, Seen
    <2>2. said[h].outdated + ToCome(h) <= behind[h]
        BY <1>4 DEF ReleasesToTell
    <2>3. /\ said[h].outdated \in Nat /\ behind[h] \in Nat /\ runs[h] \in Nat /\ runs'[h] \in Nat
          /\ released \in Nat /\ latest \in Nat /\ released' \in Nat /\ latest' \in Nat
          /\ latest <= released
        BY FleetTypes, NotificationsAssumption DEF NotifyTypeOK, KnownReleases
    <2>4. CASE latest = 0
        <3>1. ~ Raising(h) /\ ~ Standing(h)
            BY <2>4, <2>3 DEF Raising, Standing, SeesBehind, Looked, Seen, SemverLess, KnownReleases
        <3> QED
            BY <2>1, <2>2, <2>3, <2>4, <3>1 DEF ToCome
    <2>5. CASE latest # 0
        <3> DEFINE P == IF Raising(h) THEN 1 ELSE 0
                   Q == IF ~ Standing(h) /\ runs[h] < latest THEN 1 ELSE 0
                   R == IF ~ Standing(h) /\ runs'[h] < latest' THEN 1 ELSE 0
        <3>1. /\ P \in {0, 1} /\ Q \in {0, 1} /\ R \in {0, 1}
              /\ said[h].outdated + (P + ((released - latest) + Q)) <= behind[h]
            BY <2>2, <2>5 DEF ToCome
        <3>2. latest' # 0 /\ ToCome(h)' = P + ((released' - latest') + R)
            BY <2>1, <2>3, <2>5 DEF ToCome
        <3>3. \/ R <= Q /\ released' - latest' = released - latest /\ behind'[h] = behind[h]
              \/ released' - latest' = released - latest /\ behind'[h] = behind[h] + 1
              \/ R <= Q /\ released' - latest' = (released - latest) + 1 /\ behind'[h] = behind[h] + 1
              \/ released' - latest' = 0 /\ released - latest >= 1 /\ behind'[h] = behind[h]
            <4>1. CASE runs'[h] < runs[h] /\ UNCHANGED <<released, latest>> /\ behind'[h] = behind[h] + 1
                BY <4>1
            <4>2. CASE runs'[h] >= runs[h] /\ UNCHANGED <<released, latest>> /\ behind'[h] = behind[h]
                <5>1. R <= Q
                    BY <2>3, <4>2
                <5> QED
                    BY <4>2, <5>1
            <4>3. CASE released' = released + 1 /\ UNCHANGED <<runs, latest>> /\ behind'[h] = behind[h] + 1
                <5>1. R <= Q /\ released' - latest' = (released - latest) + 1
                    BY <2>3, <4>3
                <5> QED
                    BY <4>3, <5>1
            <4>4. CASE latest' = released /\ UNCHANGED <<runs, released, behind>>
                <5>1. CASE latest = released
                    <6>1. R <= Q
                        BY <2>3, <4>4, <5>1
                    <6> QED
                        BY <4>4, <5>1, <6>1
                <5>2. CASE latest # released
                    BY <2>3, <4>4, <5>2
                <5> QED
                    BY <5>1, <5>2
            <4> QED
                BY <4>1, <4>2, <4>3, <4>4
        <3>4. /\ said'[h].outdated = said[h].outdated
              /\ P \in Int /\ Q \in Int /\ R \in Int /\ 0 <= Q /\ R <= 1 /\ R <= Q + 1
              /\ released - latest \in Int /\ released' - latest' \in Int
              /\ said[h].outdated \in Int /\ behind[h] \in Int /\ behind'[h] \in Int
            BY <2>3, <3>1
        <3> HIDE DEF P, Q, R
        <3>5. said[h].outdated + (P + ((released' - latest') + R)) <= behind'[h]
            BY <3>1, <3>3, <3>4, NewsCount
        <3> QED
            BY <3>2, <3>4, <3>5
    <2> QED
        BY <2>4, <2>5
<1> QED
    BY <1>1, <1>2, <1>3, <1>4 DEF ReleasesToTell

(* A check moves on without looking at a host.                              *)
LEMMA CheckMovesIInv ==
    ASSUME NotifyIInv, NotifyTypeOK', NEW c \in Check, CheckLocks(c) \/ CheckServer(c)
    PROVE  NotifyIInv'
<1> USE DEF NotifyIInv
<1>0. UNCHANGED <<tunnels, runs, released, latest, hostDown, agentOutdated, outages, behind, lapped, said>>
    BY DEF CheckLocks, CheckServer
<1>1. /\ checks[c] # NoCheck
      /\ \A d \in Check \ {c} : checks'[d] = checks[d]
      /\ \/ checks'[c] = NoCheck /\ checks[c].left = {}
         \/ /\ checks'[c].pc = "hosts" /\ checks'[c].left = checks[c].left
            /\ checks'[c].versions = checks[c].versions /\ checks'[c].newest = checks[c].newest
    BY BlankCheck DEF CheckLocks, CheckServer, NotifyTypeOK, CheckState
<1>2. ChecksApart'
    BY <1>0, <1>1 DEF ChecksApart
<1>3. KnownReleases'
    BY <1>0, <1>1, BlankCheck DEF KnownReleases
<1>4. OutagesToTell'
    BY <1>0 DEF OutagesToTell
<1>5. ASSUME NEW h \in Agent PROVE ToCome(h)' = ToCome(h)
    <2>1. (Looked(h)' <=> Looked(h)) /\ (SeesBehind(h)' <=> SeesBehind(h))
        BY <1>1, BlankCheck DEF Looked, SeesBehind, Seen
    <2> QED
        BY <1>0, <2>1 DEF ToCome, Raising, Standing
<1> QED
    BY <1>0, <1>2, <1>3, <1>4, <1>5 DEF ReleasesToTell

(* A check begins: what the next check would have said is now its own.      *)
LEMMA CheckReadsIInv ==
    ASSUME NotifyIInv, NotifyTypeOK', NEW c \in Check, CheckReads(c)
    PROVE  NotifyIInv'
<1> USE DEF NotifyIInv
<1>0. UNCHANGED <<tunnels, runs, released, latest, hostDown, agentOutdated, outages, behind, said>>
    BY DEF CheckReads
<1>1. /\ checks[c] = NoCheck
      /\ \A d \in Check \ {c} : checks'[d] = checks[d]
      /\ checks'[c].pc = "wait" /\ checks'[c].left = Agent
      /\ checks'[c].versions = runs /\ checks'[c].newest = latest
    BY DEF CheckReads, NotifyTypeOK, ChecksApart
<1>2. ~ lapped' => ~ lapped /\ \A d \in Check : checks[d] = NoCheck
    BY <1>1 DEF CheckReads
<1>3. ChecksApart'
    BY <1>1, <1>2 DEF ChecksApart
<1>4. KnownReleases'
    BY <1>0, <1>1 DEF KnownReleases
<1>5. OutagesToTell'
    BY <1>0 DEF OutagesToTell
<1>6. ASSUME ~ lapped', NEW h \in Agent PROVE said'[h].outdated + ToCome(h)' <= behind'[h]
    <2>1. ~ Looked(h) /\ ~ SeesBehind(h)
        BY <1>2, <1>6, BlankCheck DEF Looked, SeesBehind
    <2>2. Looked(h)' /\ (SeesBehind(h)' <=> SemverLess(runs[h], latest))
        BY <1>1, <1>2, <1>6, BlankCheck DEF Looked, SeesBehind, Seen
    <2>3. SemverLess(runs[h], latest) <=> latest # 0 /\ runs[h] < latest
        BY NotificationsAssumption DEF NotifyTypeOK, SemverLess
    <2>4. ToCome(h)' = ToCome(h)
        <3>1. CASE latest = 0
            BY <1>0, <2>1, <2>2, <2>3, <3>1 DEF ToCome, Raising
        <3>2. CASE latest # 0
            <4>1. /\ ~ Raising(h) /\ (Standing(h) <=> h \in agentOutdated)
                  /\ Raising(h)' <=> h \notin agentOutdated /\ runs[h] < latest
                  /\ Standing(h)' <=> runs[h] < latest
                BY <1>0, <2>1, <2>2, <2>3, <3>2 DEF Raising, Standing
            <4>2. released - latest \in Int
                BY FleetTypes
            <4> QED
                BY <1>0, <3>2, <4>1, <4>2 DEF ToCome
        <3> QED
            BY <3>1, <3>2
    <2> QED
        BY <1>0, <1>2, <1>6, <2>4 DEF ReleasesToTell
<1> QED
    BY <1>3, <1>4, <1>5, <1>6 DEF ReleasesToTell

(* A host is looked at: a message is one of those to come.                  *)
LEMMA CheckHostIInv ==
    ASSUME NotifyIInv, NotifyTypeOK', NEW c \in Check, NEW h \in Agent, CheckHost(c, h)
    PROVE  NotifyIInv'
<1> USE DEF NotifyIInv
<1>0. /\ UNCHANGED <<tunnels, runs, released, latest, outages, behind, lapped>>
      /\ checks[c].pc = "hosts" /\ h \in checks[c].left /\ checks[c] # NoCheck
      /\ hostDown' = Flagged(h \notin tunnels, hostDown, h)
      /\ agentOutdated' = Flagged(Seen(c, h), agentOutdated, h)
    BY BlankCheck DEF CheckHost, Seen
<1>1. /\ \A d \in Check \ {c} : checks'[d] = checks[d]
      /\ checks'[c].pc = "hosts" /\ checks'[c].left = checks[c].left \ {h}
      /\ checks'[c].versions = checks[c].versions /\ checks'[c].newest = checks[c].newest
    BY DEF CheckHost, NotifyTypeOK, CheckState
<1>2. /\ \A g \in Agent \ {h} : said'[g] = said[g]
      /\ said'[h].down = said[h].down + IF h \notin tunnels /\ h \notin hostDown THEN 1 ELSE 0
      /\ said'[h].outdated = said[h].outdated + IF Seen(c, h) /\ h \notin agentOutdated THEN 1 ELSE 0
    BY DEF CheckHost, NotifyTypeOK, Raises, Seen
<1>3. ChecksApart'
    BY <1>0, <1>1, BlankCheck DEF ChecksApart
<1>4. KnownReleases'
    <2>1. latest = 0 => ~ Seen(c, h)
        BY DEF KnownReleases, Seen, SemverLess
    <2> QED
        BY <1>0, <1>1, <2>1 DEF KnownReleases, Flagged
<1>5. OutagesToTell'
    <2> SUFFICES ASSUME NEW g \in Agent
                 PROVE  /\ said'[g].down <= outages'[g]
                        /\ g \notin tunnels' /\ g \notin hostDown' => said'[g].down < outages'[g]
        BY DEF OutagesToTell
    <2>1. /\ said[g].down <= outages[g] /\ said[g].down \in Nat /\ outages[g] \in Nat
          /\ g \notin tunnels /\ g \notin hostDown => said[g].down < outages[g]
        BY FleetTypes DEF OutagesToTell
    <2>2. CASE g = h
        BY <1>0, <1>2, <2>1, <2>2 DEF Flagged
    <2>3. CASE g # h
        BY <1>0, <1>2, <2>1, <2>3 DEF Flagged
    <2> QED
        BY <2>2, <2>3
<1>6. ASSUME ~ lapped, NEW g \in Agent PROVE said'[g].outdated + ToCome(g)' <= behind'[g]
    <2>0. said[g].outdated + ToCome(g) <= behind[g]
        BY <1>6 DEF ReleasesToTell
    <2>1. CASE g # h
        <3>1. (Looked(g)' <=> Looked(g)) /\ (SeesBehind(g)' <=> SeesBehind(g))
            BY <1>1, <2>1 DEF Looked, SeesBehind, Seen
        <3>2. g \in agentOutdated' <=> g \in agentOutdated
            BY <1>0, <2>1 DEF Flagged
        <3>3. ToCome(g)' = ToCome(g)
            BY <1>0, <3>1, <3>2 DEF ToCome, Raising, Standing
        <3> QED
            BY <1>0, <1>2, <2>0, <2>1, <3>3
    <2>2. CASE g = h
        <3>1. \A d \in Check \ {c} : checks[d] = NoCheck
            BY <1>0, <1>6 DEF ChecksApart
        <3>2. Looked(h) /\ (SeesBehind(h) <=> Seen(c, h)) /\ ~ Looked(h)' /\ ~ SeesBehind(h)'
            BY <1>0, <1>1, <3>1, BlankCheck DEF Looked, SeesBehind
        <3>3. h \in agentOutdated' <=> Seen(c, h)
            BY <1>0 DEF Flagged
        <3>4. /\ Raising(h) <=> Seen(c, h) /\ h \notin agentOutdated
              /\ ~ Raising(h)' /\ (Standing(h)' <=> Standing(h))
            BY <3>2, <3>3 DEF Raising, Standing
        <3> DEFINE Rest == IF latest = 0 THEN IF runs[h] < released THEN 1 ELSE 0
                           ELSE (released - latest) + (IF ~ Standing(h) /\ runs[h] < latest THEN 1 ELSE 0)
        <3>5. Rest \in Int /\ said[h].outdated \in Int /\ behind[h] \in Int
            BY FleetTypes
        <3>6. ToCome(h) = (IF Raising(h) THEN 1 ELSE 0) + Rest /\ ToCome(h)' = 0 + Rest
            BY <1>0, <3>4 DEF ToCome
        <3> HIDE DEF Rest
        <3> QED
            BY <1>0, <1>2, <2>0, <2>2, <3>4, <3>5, <3>6
    <2> QED
        BY <2>1, <2>2
<1> QED
    BY <1>0, <1>3, <1>4, <1>5, <1>6 DEF ReleasesToTell

LEMMA NotifyRestartIInv ==
    ASSUME NotifyIInv, NotifyTypeOK', NotifyRestart
    PROVE  NotifyIInv'
<1> USE DEF NotifyIInv
<1>1. /\ \A c \in Check : checks'[c] = NoCheck
      /\ UNCHANGED <<runs, released>> /\ latest' = 0 /\ agentOutdated' = {}
      /\ \A h \in Agent : /\ said'[h].down = 0 /\ said'[h].outdated = 0 /\ outages'[h] = 1
                          /\ behind'[h] = IF runs[h] < released THEN 1 ELSE 0
    BY DEF NotifyRestart
<1>2. ChecksApart'
    BY <1>1 DEF ChecksApart
<1>3. KnownReleases'
    BY <1>1, BlankCheck, NotificationsAssumption DEF KnownReleases, NotifyTypeOK
<1>4. OutagesToTell'
    BY <1>1 DEF OutagesToTell
<1>5. ReleasesToTell'
    BY <1>1, BlankCheck DEF ReleasesToTell, ToCome, Raising, SeesBehind
<1> QED
    BY <1>2, <1>3, <1>4, <1>5

LEMMA NotifyNextIInv == NotifyIInv /\ [NotifyNext]_notifyVars => NotifyIInv'
<1> SUFFICES ASSUME NotifyIInv, [NotifyNext]_notifyVars PROVE NotifyIInv'
    OBVIOUS
<1>0. NotifyTypeOK /\ KnownReleases
    BY DEF NotifyIInv
<1>1. CASE UNCHANGED notifyVars
    BY <1>1 DEF notifyVars, NotifyIInv, NotifyTypeOK, ChecksApart, KnownReleases, OutagesToTell, ReleasesToTell,
       ToCome, Raising, Standing, Looked, SeesBehind, Seen
<1>2. CASE NotifyNext
    <2>0. NotifyTypeOK'
        BY <1>0, <1>2, NotifyTypes
    <2>1. ASSUME NEW h \in Agent, Connect(h) PROVE NotifyIInv'
        <3>1. \A g \in Agent : outages[g] \in Nat /\ runs[g] \in Nat
            BY <1>0, FleetTypes
        <3>2. UNCHANGED <<checks, agentOutdated, hostDown, lapped, said, outages, runs, released, latest, behind>>
            BY <2>1 DEF Connect
        <3>3. tunnels \subseteq tunnels'
            BY <2>1 DEF Connect
        <3> QED
            BY <1>0, <2>0, <3>1, <3>2, <3>3, FleetIInv DEF KnownReleases
    <2>2. ASSUME NEW h \in Agent, Disconnect(h) PROVE NotifyIInv'
        <3>1. \A g \in Agent : outages[g] \in Nat /\ runs[g] \in Nat
            BY <1>0, FleetTypes
        <3>2. UNCHANGED <<checks, agentOutdated, hostDown, lapped, said, runs, released, latest, behind>>
            BY <2>2 DEF Disconnect
        <3>3. \A g \in Agent : /\ outages[g] <= outages'[g]
                               /\ g \in tunnels /\ g \notin tunnels' => outages'[g] = outages[g] + 1
            BY <1>0, <2>2, <3>1 DEF Disconnect, NotifyTypeOK
        <3> QED
            BY <1>0, <2>0, <3>1, <3>2, <3>3, FleetIInv DEF KnownReleases
    <2>3. ASSUME NEW h \in Agent, NEW v \in 1 .. MaxRelease, AgentReports(h, v) PROVE NotifyIInv'
        <3>1. \A g \in Agent : outages[g] \in Nat /\ runs[g] \in Nat
            BY <1>0, FleetTypes
        <3>2. UNCHANGED <<checks, agentOutdated, hostDown, lapped, said, outages, tunnels, released, latest>>
            BY <2>3 DEF AgentReports
        <3>3. \A g \in Agent : \/ runs'[g] < runs[g] /\ behind'[g] = behind[g] + 1
                               \/ runs'[g] >= runs[g] /\ behind'[g] = behind[g]
            BY <1>0, <2>3, <3>1, NotificationsAssumption DEF AgentReports, NotifyTypeOK
        <3> QED
            BY <1>0, <2>0, <3>1, <3>2, <3>3, FleetIInv DEF KnownReleases
    <2>4. CASE Release
        <3>1. \A g \in Agent : outages[g] \in Nat
            BY <1>0, FleetTypes
        <3>2. UNCHANGED <<checks, agentOutdated, hostDown, lapped, said, outages, tunnels, runs, latest>>
            BY <2>4 DEF Release
        <3>3. released' = released + 1 /\ \A g \in Agent : behind'[g] = behind[g] + 1
            BY <2>4 DEF Release
        <3>4. latest' <= released'
            BY <1>0, <3>2, <3>3, NotificationsAssumption DEF KnownReleases, NotifyTypeOK
        <3> QED
            BY <2>0, <3>1, <3>2, <3>3, <3>4, FleetIInv
    <2>5. ASSUME NEW v \in 0 .. MaxRelease, CheckLatestVersions(v) PROVE NotifyIInv'
        <3>1. \A g \in Agent : outages[g] \in Nat /\ runs[g] \in Nat
            BY <1>0, FleetTypes
        <3>2. UNCHANGED <<checks, agentOutdated, hostDown, lapped, said, outages, tunnels, runs, released, behind>>
            BY <2>5 DEF CheckLatestVersions
        <3>3. latest' = latest \/ latest' = released
            BY <2>5 DEF CheckLatestVersions, Set
        <3>4. latest' <= released' /\ (latest' = 0 => latest = 0)
            BY <1>0, <3>2, <3>3, NotificationsAssumption DEF KnownReleases, NotifyTypeOK
        <3> QED
            BY <2>0, <3>1, <3>2, <3>3, <3>4, FleetIInv
    <2> QED
        BY <1>2, <2>0, <2>1, <2>2, <2>3, <2>4, <2>5, CheckMovesIInv, CheckReadsIInv, CheckHostIInv,
           NotifyRestartIInv DEF NotifyNext
<1> QED
    BY <1>1, <1>2

LEMMA NotifyStands == NotifySpec => []NotifyIInv
<1> QED
    BY NotifyInitIInv, NotifyNextIInv, PTL DEF NotifySpec

(* A host is reported down no more often than it went down, and outdated no *)
(* more often than releases appeared or it went back, unless checks         *)
(* overlapped.                                                              *)
THEOREM ToldOnce == NotifySpec => []NoRepeatedMessages
<1>1. NotifyIInv => NoRepeatedMessages
    <2> SUFFICES ASSUME NotifyIInv, NEW h \in Agent
                 PROVE  said[h].down <= outages[h] /\ (lapped \/ said[h].outdated <= behind[h])
        BY DEF NoRepeatedMessages
    <2>1. /\ said[h].outdated \in Nat /\ behind[h] \in Nat
          /\ released \in Nat /\ latest \in Nat /\ latest <= released
        BY FleetTypes DEF NotifyIInv, KnownReleases
    <2>2. ToCome(h) \in Int /\ ToCome(h) >= 0
        BY <2>1 DEF ToCome
    <2>3. lapped \/ said[h].outdated + ToCome(h) <= behind[h]
        BY DEF NotifyIInv, ReleasesToTell
    <2> QED
        BY <2>1, <2>2, <2>3 DEF NotifyIInv, OutagesToTell
<1> QED
    BY <1>1, NotifyStands, PTL

-----------------------------------------------------------------------------
(* Secret resolution: the inductive invariant, as conditions on one job q   *)
(* and the tokens ls OpenBao has issued.                                    *)

ValueType == [path : SecretPath \union {"file"}, id : Ident, allow : SUBSET SecretPath, ver : Nat, tok : Nat]
MemoType == [got : BOOLEAN, ok : BOOLEAN, ver : Nat, tok : Nat]
EffectiveType == [got : BOOLEAN, ok : BOOLEAN, id : Ident, allow : SUBSET SecretPath]
JobType == [pc : {"idle", "entry", "creds", "allowed", "token", "call", "failed", "answered"},
            refs : (EntryKind \X EntryKind) \union {<<>>}, env : Seq(ValueType), failed : BOOLEAN,
            eff : EffectiveType, memo : [SecretPath -> MemoType], attempt : {0, 1}, tok : Nat]

Issued(t, id, ls) == Static(id) \/ (t \in 1 .. Len(ls) /\ ls[t] = id)

NextRef(q) == q.refs[Len(q.env) + 1]

(* What was read was read with the effective connection, over a token of    *)
(* its credentials.                                                         *)
MemoStands(q, ls) ==
    \A p \in SecretPath : q.memo[p].got =>
        q.eff.got /\ q.pc # "creds" /\ (q.memo[p].ok => Issued(q.memo[p].tok, q.eff.id, ls))

(* A reference on its way to the provider is allowed and not yet read.      *)
WorkStands(q, ls) ==
    /\ q.pc \in {"creds", "allowed", "token", "call"} => q.eff.got /\ NextRef(q) \in SecretPath
    /\ q.pc \in {"token", "call"} => NextRef(q) \in q.eff.allow /\ ~ q.memo[NextRef(q)].got
    /\ q.pc = "call" => Issued(q.tok, q.eff.id, ls)

(* Unless an entry failed, every value is what was read, by the effective   *)
(* connection.                                                              *)
GoodValue(v, q, ls) ==
    /\ q.eff.got /\ q.pc # "creds"
    /\ v.id = q.eff.id /\ v.path \in v.allow /\ Issued(v.tok, v.id, ls)
    /\ q.memo[v.path].got /\ v.ver = q.memo[v.path].ver
EnvStands(q, ls) ==
    q.pc # "answered" /\ ~ q.failed =>
        \A k \in 1 .. Len(q.env) : q.env[k].path \in SecretPath => GoodValue(q.env[k], q, ls)

AnswerStands(q, ls) ==
    q.pc = "answered" =>
        \A k, l \in 1 .. Len(q.env) : q.env[k].path \in SecretPath /\ q.env[l].path \in SecretPath =>
            /\ q.env[k].path \in q.env[k].allow /\ Issued(q.env[k].tok, q.env[k].id, ls)
            /\ q.env[k].id = q.env[l].id
            /\ q.env[k].path = q.env[l].path => q.env[k].ver = q.env[l].ver

JobStands(q, ls) ==
    q \in JobType /\ MemoStands(q, ls) /\ WorkStands(q, ls) /\ EnvStands(q, ls) /\ AnswerStands(q, ls)

ServerStands ==
    /\ bound \in [is : BOOLEAN, allow : SUBSET SecretPath]
    /\ conf \in 0 .. MaxEdits /\ cred \in 0 .. MaxEdits /\ edits \in 0 .. MaxEdits
    /\ secret \in [SecretPath -> Nat]
    /\ leases \in Seq(Ident) /\ tokens \in [Ident -> Nat]
    /\ \A id \in Ident : tokens[id] # 0 => tokens[id] \in 1 .. Len(leases) /\ leases[tokens[id]] = id

ResolveIInv ==
    /\ ServerStands
    /\ job \in [ResolveJob -> JobType]
    /\ \A j \in ResolveJob : JobStands(job[j], leases)

LEMMA BlankJob ==
    /\ NoJob \in JobType /\ NoEffective \in EffectiveType /\ NoValue \in ValueType
    /\ NoJob.pc = "idle" /\ NoJob.env = <<>> /\ ~ NoJob.failed
    /\ \A p \in SecretPath : ~ NoJob.memo[p].got
<1>1. <<0, 0>> \in Ident
    BY SecretResolveAssumption DEF Ident
<1>2. NoEffective \in EffectiveType /\ NoValue \in ValueType /\ Unread \in MemoType
    BY <1>1 DEF NoEffective, EffectiveType, NoValue, ValueType, Unread, MemoType
<1>3. <<>> \in Seq(ValueType)
    OBVIOUS
<1> QED
    BY <1>2, <1>3 DEF NoJob, JobType, Unread

(* Tokens are issued one after the other.                                   *)
Extends(ls, ms) == Len(ls) <= Len(ms) /\ \A t \in 1 .. Len(ls) : ms[t] = ls[t]

LEMMA IssuedStays ==
    ASSUME NEW ls \in Seq(Ident), NEW ms \in Seq(Ident), Extends(ls, ms), NEW t, NEW id, Issued(t, id, ls)
    PROVE  Issued(t, id, ms)
BY DEF Issued, Extends

LEMMA JobStays ==
    ASSUME NEW q, NEW ls \in Seq(Ident), NEW ms \in Seq(Ident), Extends(ls, ms), JobStands(q, ls)
    PROVE  JobStands(q, ms)
<1>1. \A t, id : Issued(t, id, ls) => Issued(t, id, ms)
    BY IssuedStays
<1>2. MemoStands(q, ms) /\ WorkStands(q, ms)
    BY <1>1 DEF JobStands, MemoStands, WorkStands
<1>3. EnvStands(q, ms)
    BY <1>1 DEF JobStands, EnvStands, GoodValue
<1>4. AnswerStands(q, ms)
    BY <1>1 DEF JobStands, AnswerStands
<1> QED
    BY <1>2, <1>3, <1>4 DEF JobStands

LEMMA Appends ==
    ASSUME NEW S, NEW s \in Seq(S), NEW x \in S
    PROVE  /\ Append(s, x) \in Seq(S) /\ Len(Append(s, x)) = Len(s) + 1 /\ Len(s) \in Nat
           /\ \A k \in 1 .. Len(s) : Append(s, x)[k] = s[k]
           /\ Append(s, x)[Len(s) + 1] = x
OBVIOUS

(* One more entry: its value is good, or the job has failed.                *)
LEMMA SettledStands ==
    ASSUME NEW ls, NEW q \in JobType, MemoStands(q, ls), EnvStands(q, ls), q.pc \notin {"answered", "creds"},
           NEW v \in ValueType, NEW ok \in BOOLEAN,
           ok /\ v.path \in SecretPath => GoodValue(v, q, ls)
    PROVE  JobStands(Settled(q, v, ok), ls)
<1> DEFINE r == Settled(q, v, ok)
<1>1. q \in JobType
    OBVIOUS
<1>2. Append(q.env, v) \in Seq(ValueType)
    BY <1>1, Appends DEF JobType
<1>3. /\ r \in JobType /\ r.pc = "entry" /\ r.env = Append(q.env, v) /\ r.eff = q.eff /\ r.memo = q.memo
    BY <1>1, <1>2 DEF Settled, JobType
<1>4. ~ r.failed => ~ q.failed /\ ok
    BY <1>1 DEF Settled, JobType
<1> HIDE DEF r
<1>5. MemoStands(r, ls)
    BY <1>3 DEF MemoStands
<1>6. WorkStands(r, ls) /\ AnswerStands(r, ls)
    BY <1>3 DEF WorkStands, AnswerStands
<1>7. EnvStands(r, ls)
    <2> SUFFICES ASSUME ~ r.failed, NEW k \in 1 .. Len(r.env), r.env[k].path \in SecretPath
                 PROVE  GoodValue(r.env[k], r, ls)
        BY DEF EnvStands
    <2>0. q.env \in Seq(ValueType) /\ Len(q.env) \in Nat
        BY <1>1 DEF JobType
    <2>1. CASE k \in 1 .. Len(q.env)
        <3>1. r.env[k] = q.env[k]
            BY <1>3, <2>0, <2>1, Appends
        <3>2. GoodValue(q.env[k], q, ls)
            BY <1>4, <2>1, <3>1 DEF EnvStands
        <3> QED
            BY <1>3, <3>1, <3>2 DEF GoodValue
    <2>2. CASE k \notin 1 .. Len(q.env)
        <3>1. r.env[k] = v
            <4>1. Len(r.env) = Len(q.env) + 1 /\ r.env[Len(q.env) + 1] = v
                BY <1>3, <2>0, Appends
            <4>2. k = Len(q.env) + 1
                BY <2>0, <2>2, <4>1
            <4> QED
                BY <4>1, <4>2
        <3> QED
            BY <1>3, <1>4, <3>1 DEF GoodValue
    <2> QED
        BY <2>1, <2>2
<1>8. JobStands(r, ls)
    BY <1>3, <1>5, <1>6, <1>7 DEF JobStands
<1> QED
    BY <1>8 DEF r

(* A read is over: what is remembered of it and the value go together.      *)
LEMMA ReadEndsStands ==
    ASSUME NEW ls, NEW q, JobStands(q, ls), q.pc \in {"token", "call"},
           NEW ok \in BOOLEAN, NEW ver \in Nat, ok => q.pc = "call"
    PROVE  LET m == [got |-> TRUE, ok |-> ok, ver |-> ver, tok |-> q.tok] IN
           JobStands(Settled([q EXCEPT !.memo[NextRef(q)] = m], Value(NextRef(q), q.eff, m), ok), ls)
<1> DEFINE m == [got |-> TRUE, ok |-> ok, ver |-> ver, tok |-> q.tok]
           r == [q EXCEPT !.memo[NextRef(q)] = m]
           v == Value(NextRef(q), q.eff, m)
<1>1. q \in JobType /\ q.eff \in EffectiveType /\ q.memo \in [SecretPath -> MemoType] /\ q.tok \in Nat
    BY DEF JobStands, JobType
<1>2. /\ q.eff.got /\ NextRef(q) \in SecretPath /\ NextRef(q) \in q.eff.allow
      /\ ~ q.memo[NextRef(q)].got
      /\ ok => Issued(q.tok, q.eff.id, ls)
    BY DEF JobStands, WorkStands
<1>3. m \in MemoType /\ m.got /\ m.ok = ok /\ m.ver = ver /\ m.tok = q.tok
    BY <1>1 DEF MemoType
<1>4. v \in ValueType /\ v.path = NextRef(q) /\ v.id = q.eff.id /\ v.allow = q.eff.allow
      /\ v.ver = ver /\ v.tok = q.tok
    BY <1>1, <1>2 DEF Value, ValueType, EffectiveType
<1> HIDE DEF m
<1>5. /\ r \in JobType /\ r.pc = q.pc /\ r.env = q.env /\ r.failed = q.failed /\ r.eff = q.eff
      /\ r.memo = [q.memo EXCEPT ![NextRef(q)] = m]
    <2>1. [q.memo EXCEPT ![NextRef(q)] = m] \in [SecretPath -> MemoType]
        BY <1>1, <1>3
    <2>2. r = [q EXCEPT !.memo = [q.memo EXCEPT ![NextRef(q)] = m]]
        BY <1>1 DEF JobType
    <2> HIDE DEF r
    <2> QED
        BY <1>1, <2>1, <2>2 DEF JobType
<1> HIDE DEF r, v
<1>6. \A p \in SecretPath : r.memo[p] = IF p = NextRef(q) THEN m ELSE q.memo[p]
    BY <1>1, <1>5
<1>7. MemoStands(r, ls)
    BY <1>2, <1>3, <1>5, <1>6 DEF MemoStands, JobStands
<1>8. EnvStands(r, ls)
    <2> SUFFICES ASSUME ~ q.failed, NEW k \in 1 .. Len(q.env), q.env[k].path \in SecretPath
                 PROVE  GoodValue(q.env[k], r, ls)
        BY <1>5 DEF EnvStands
    <2>1. GoodValue(q.env[k], q, ls)
        BY DEF JobStands, EnvStands
    <2>2. q.env[k].path # NextRef(q)
        BY <1>2, <2>1 DEF GoodValue
    <2> QED
        BY <1>5, <1>6, <2>1, <2>2 DEF GoodValue
<1>9. ok => GoodValue(v, r, ls)
    BY <1>2, <1>3, <1>4, <1>5, <1>6 DEF GoodValue
<1>10. JobStands(Settled(r, v, ok), ls)
    BY <1>4, <1>5, <1>7, <1>8, <1>9, SettledStands
<1> QED
    BY <1>10 DEF r, v, m

(* A job moves on, while the server may have issued a token.                *)
LEMMA JobMoves ==
    ASSUME ResolveIInv, NEW j \in ResolveJob, NEW q, job' = [job EXCEPT ![j] = q], JobStands(q, leases'),
           ServerStands', Extends(leases, leases')
    PROVE  ResolveIInv'
<1>1. leases \in Seq(Ident) /\ leases' \in Seq(Ident)
    BY DEF ResolveIInv, ServerStands
<1>2. q \in JobType
    BY DEF JobStands
<1>3. job' \in [ResolveJob -> JobType]
    BY <1>2 DEF ResolveIInv
<1>4. ASSUME NEW k \in ResolveJob PROVE JobStands(job'[k], leases')
    <2>1. CASE k = j
        BY <2>1 DEF ResolveIInv
    <2>2. CASE k # j
        <3>1. job'[k] = job[k] /\ JobStands(job[k], leases)
            BY <2>2 DEF ResolveIInv
        <3> QED
            BY <1>1, <3>1, JobStays
    <2> QED
        BY <2>1, <2>2
<1> QED
    BY <1>3, <1>4 DEF ResolveIInv

LEMMA ServerSame ==
    ASSUME ServerStands, UNCHANGED <<bound, conf, cred, edits, secret, leases, tokens>>
    PROVE  ServerStands' /\ Extends(leases, leases')
<1>1. Len(leases) \in Nat
    BY DEF ServerStands
<1> QED
    BY <1>1 DEF ServerStands, Extends

(* OpenBao issues a token, and it is cached.                                *)
LEMMA TokenIssued ==
    ASSUME ServerStands, NEW id \in Ident, leases' = Append(leases, id),
           tokens' = [tokens EXCEPT ![id] = Len(leases')],
           UNCHANGED <<bound, conf, cred, edits, secret>>
    PROVE  ServerStands' /\ Extends(leases, leases') /\ leases' \in Seq(Ident)
           /\ Len(leases') \in 1 .. Len(leases') /\ leases'[Len(leases')] = id /\ Len(leases') \in Nat
<1>1. leases \in Seq(Ident) /\ tokens \in [Ident -> Nat]
    BY DEF ServerStands
<1>2. /\ leases' \in Seq(Ident) /\ Len(leases') = Len(leases) + 1 /\ Len(leases) \in Nat
      /\ \A t \in 1 .. Len(leases) : leases'[t] = leases[t]
      /\ leases'[Len(leases')] = id
    BY <1>1, Appends
<1>3. tokens' \in [Ident -> Nat] /\ \A i \in Ident : tokens'[i] = IF i = id THEN Len(leases') ELSE tokens[i]
    BY <1>1, <1>2
<1>4. \A i \in Ident : tokens'[i] # 0 => tokens'[i] \in 1 .. Len(leases') /\ leases'[tokens'[i]] = i
    BY <1>2, <1>3 DEF ServerStands
<1> QED
    BY <1>2, <1>3, <1>4 DEF ServerStands, Extends

(* A job goes on with the same entry.                                       *)
LEMMA EntryGoesOn ==
    ASSUME NEW ls, NEW q, JobStands(q, ls), q.pc \notin {"answered", "creds"},
           NEW r \in JobType, r.pc \in {"allowed", "token", "call"},
           r.env = q.env, r.failed = q.failed, r.eff = q.eff, r.memo = q.memo, WorkStands(r, ls)
    PROVE  JobStands(r, ls)
<1>1. MemoStands(r, ls)
    BY DEF JobStands, MemoStands
<1>2. EnvStands(r, ls)
    BY DEF JobStands, EnvStands, GoodValue
<1>3. AnswerStands(r, ls)
    BY DEF AnswerStands
<1> QED
    BY <1>1, <1>2, <1>3 DEF JobStands

(* Before the binding is looked up nothing was read.                        *)
LEMMA BindingLookedUp ==
    ASSUME NEW ls, NEW q, JobStands(q, ls), q.pc \in {"entry", "creds"}, q.pc = "entry" => ~ q.eff.got,
           NEW r \in JobType, r.pc \in {"creds", "allowed"}, r.eff.got, NextRef(r) \in SecretPath,
           r.env = q.env, r.failed = q.failed, r.memo = q.memo
    PROVE  JobStands(r, ls)
<1>1. \A p \in SecretPath : ~ q.memo[p].got
    BY DEF JobStands, MemoStands
<1>2. ~ q.failed => \A k \in 1 .. Len(q.env) : q.env[k].path \notin SecretPath
    BY DEF JobStands, EnvStands, GoodValue
<1>3. MemoStands(r, ls) /\ EnvStands(r, ls)
    BY <1>1, <1>2 DEF MemoStands, EnvStands
<1>4. WorkStands(r, ls) /\ AnswerStands(r, ls)
    BY DEF WorkStands, AnswerStands
<1> QED
    BY <1>3, <1>4 DEF JobStands

LEMMA ResolveStepIInv ==
    ASSUME ResolveIInv, NEW j \in ResolveJob, ResolveStep(j)
    PROVE  ResolveIInv'
<1> DEFINE q == job[j]
<1>0. /\ ServerStands /\ JobStands(q, leases) /\ q \in JobType /\ Ref(j) = NextRef(q)
      /\ q.eff \in EffectiveType /\ q.eff.id \in Ident /\ leases \in Seq(Ident)
      /\ q.memo \in [SecretPath -> MemoType] /\ q.env \in Seq(ValueType) /\ q.tok \in Nat
    BY DEF ResolveIInv, JobStands, JobType, EffectiveType, Ref, NextRef, ServerStands
<1>1. ASSUME NEW r, job' = [job EXCEPT ![j] = r], JobStands(r, leases),
             UNCHANGED <<bound, conf, cred, edits, secret, leases, tokens>>
      PROVE  ResolveIInv'
    BY <1>0, <1>1, JobMoves, ServerSame
<1>2. ASSUME NEW refs \in EntryKind \X EntryKind, StartResolve(j, refs) PROVE ResolveIInv'
    <2> DEFINE r == [NoJob EXCEPT !.pc = "entry", !.refs = refs]
    <2>1. /\ r \in JobType /\ r.pc = "entry" /\ r.env = <<>>
          /\ \A p \in SecretPath : ~ r.memo[p].got
        BY BlankJob DEF JobType
    <2> HIDE DEF r
    <2>2. JobStands(r, leases)
        BY <2>1 DEF JobStands, MemoStands, WorkStands, EnvStands, AnswerStands
    <2>3. job' = [job EXCEPT ![j] = r]
        BY <1>2 DEF StartResolve, r
    <2> QED
        BY <1>1, <1>2, <2>2, <2>3 DEF StartResolve
<1>3. CASE OtherEntry(j)
    <2>1. NoValue.path \notin SecretPath /\ NoValue \in ValueType
        BY SecretResolveAssumption, BlankJob DEF NoValue
    <2>2. job' = [job EXCEPT ![j] = Settled(q, NoValue, Ref(j) = "file")] /\ q.pc = "entry"
        BY <1>3 DEF OtherEntry
    <2>3. (Ref(j) = "file") \in BOOLEAN
        OBVIOUS
    <2>4. JobStands(Settled(q, NoValue, Ref(j) = "file"), leases)
        BY <1>0, <2>1, <2>2, <2>3, SettledStands DEF JobStands
    <2> QED
        BY <1>1, <1>3, <2>2, <2>4 DEF OtherEntry
<1>4. CASE ReadBinding(j)
    <2>0. q.pc = "entry" /\ NextRef(q) \in SecretPath /\ UNCHANGED <<bound, conf, cred, edits, secret, leases, tokens>>
        BY <1>0, <1>4 DEF ReadBinding
    <2>1. CASE q.eff.got
        <3> DEFINE r == [q EXCEPT !.pc = "allowed"]
        <3>1. job' = [job EXCEPT ![j] = r]
            BY <1>4, <2>1 DEF ReadBinding, LookedUp
        <3>2. /\ r \in JobType /\ r.pc = "allowed" /\ r.env = q.env /\ r.failed = q.failed /\ r.eff = q.eff
              /\ r.memo = q.memo /\ r.refs = q.refs
            BY <1>0 DEF JobType
        <3> HIDE DEF r
        <3>3. WorkStands(r, leases)
            BY <2>0, <2>1, <3>2 DEF WorkStands, NextRef
        <3>4. JobStands(r, leases)
            BY <1>0, <2>0, <3>2, <3>3, EntryGoesOn
        <3> QED
            BY <1>1, <2>0, <3>1, <3>4
    <2>2. CASE ~ q.eff.got
        <3> DEFINE e == [got |-> TRUE, ok |-> bound.is, id |-> <<conf, 0>>, allow |-> bound.allow]
                   r == [q EXCEPT !.eff = e, !.pc = IF bound.is THEN "creds" ELSE "allowed"]
        <3>1. job' = [job EXCEPT ![j] = r]
            BY <1>4, <2>2 DEF ReadBinding, LookedUp
        <3>2. e \in EffectiveType /\ e.got
            <4>1. <<conf, 0>> \in Ident
                BY <1>0, SecretResolveAssumption DEF ServerStands, Ident
            <4> QED
                BY <1>0, <4>1 DEF ServerStands, EffectiveType
        <3> HIDE DEF e
        <3>3. /\ r \in JobType /\ r.pc \in {"creds", "allowed"} /\ r.env = q.env /\ r.failed = q.failed
              /\ r.eff = e /\ r.memo = q.memo /\ r.refs = q.refs
            BY <1>0, <3>2 DEF JobType
        <3> HIDE DEF r
        <3>4. JobStands(r, leases)
            BY <1>0, <2>0, <2>2, <3>2, <3>3, BindingLookedUp DEF NextRef
        <3> QED
            BY <1>1, <2>0, <3>1, <3>4
    <2> QED
        BY <2>1, <2>2
<1>5. CASE ReadCredentials(j)
    <2> DEFINE e == [q.eff EXCEPT !.id = <<q.eff.id[1], cred>>]
               r == [q EXCEPT !.eff = e, !.pc = "allowed"]
    <2>0. q.pc = "creds" /\ UNCHANGED <<bound, conf, cred, edits, secret, leases, tokens>>
        BY <1>5 DEF ReadCredentials
    <2>1. job' = [job EXCEPT ![j] = r]
        BY <1>0, <1>5 DEF ReadCredentials, JobType, ResolveIInv
    <2>2. e \in EffectiveType /\ e.got = q.eff.got
        <3>1. <<q.eff.id[1], cred>> \in Ident
            BY <1>0 DEF ServerStands, Ident
        <3> QED
            BY <1>0, <3>1 DEF EffectiveType
    <2> HIDE DEF e
    <2>3. /\ r \in JobType /\ r.pc = "allowed" /\ r.env = q.env /\ r.failed = q.failed
          /\ r.eff = e /\ r.memo = q.memo /\ r.refs = q.refs
        BY <1>0, <2>2 DEF JobType
    <2> HIDE DEF r
    <2>4. q.eff.got /\ NextRef(q) \in SecretPath
        BY <1>0, <2>0 DEF JobStands, WorkStands
    <2>5. JobStands(r, leases)
        BY <1>0, <2>0, <2>2, <2>3, <2>4, BindingLookedUp DEF NextRef
    <2> QED
        BY <1>1, <2>0, <2>1, <2>5
<1>6. CASE CheckAllowed(j)
    <2> DEFINE m == q.memo[NextRef(q)]
    <2>0. q.pc = "allowed" /\ UNCHANGED <<bound, conf, cred, edits, secret, leases, tokens>>
        BY <1>6 DEF CheckAllowed
    <2>1. q.eff.got /\ NextRef(q) \in SecretPath /\ m \in MemoType
        BY <1>0, <2>0 DEF JobStands, WorkStands
    <2>2. CASE ~ q.eff.ok \/ NextRef(q) \notin q.eff.allow
        <3>1. JobStands(Settled(q, NoValue, FALSE), leases)
            BY <1>0, <2>0, BlankJob, SettledStands DEF JobStands
        <3>2. job' = [job EXCEPT ![j] = Settled(q, NoValue, FALSE)]
            BY <1>0, <1>6, <2>2 DEF CheckAllowed
        <3> QED
            BY <1>1, <2>0, <3>1, <3>2
    <2>3. CASE q.eff.ok /\ NextRef(q) \in q.eff.allow /\ m.got
        <3> DEFINE v == Value(NextRef(q), q.eff, m)
        <3>1. v \in ValueType /\ v.path = NextRef(q) /\ v.id = q.eff.id /\ v.allow = q.eff.allow
              /\ v.ver = m.ver /\ v.tok = m.tok /\ m.ok \in BOOLEAN
            BY <1>0, <2>1 DEF Value, ValueType, EffectiveType, MemoType
        <3>2. m.ok => Issued(m.tok, q.eff.id, leases)
            BY <1>0, <2>1, <2>3 DEF JobStands, MemoStands
        <3> HIDE DEF v
        <3>3. m.ok => GoodValue(v, q, leases)
            BY <2>0, <2>1, <2>3, <3>1, <3>2 DEF GoodValue
        <3>4. JobStands(Settled(q, v, m.ok), leases)
            BY <1>0, <2>0, <3>1, <3>3, SettledStands DEF JobStands
        <3>5. job' = [job EXCEPT ![j] = Settled(q, v, m.ok)]
            BY <1>0, <1>6, <2>3 DEF CheckAllowed, v
        <3> QED
            BY <1>1, <2>0, <3>4, <3>5
    <2>4. CASE q.eff.ok /\ NextRef(q) \in q.eff.allow /\ ~ m.got
        <3> DEFINE r == [q EXCEPT !.pc = "token"]
        <3>1. job' = [job EXCEPT ![j] = r]
            BY <1>0, <1>6, <2>4 DEF CheckAllowed
        <3>2. /\ r \in JobType /\ r.pc = "token" /\ r.env = q.env /\ r.failed = q.failed /\ r.eff = q.eff
              /\ r.memo = q.memo /\ r.refs = q.refs
            BY <1>0 DEF JobType
        <3> HIDE DEF r
        <3>3. WorkStands(r, leases)
            BY <2>1, <2>4, <3>2 DEF WorkStands, NextRef
        <3>4. JobStands(r, leases)
            BY <1>0, <2>0, <3>2, <3>3, EntryGoesOn
        <3> QED
            BY <1>1, <2>0, <3>1, <3>4
    <2> QED
        BY <2>2, <2>3, <2>4
<1>7. ASSUME NEW t \in Nat, NEW ls \in Seq(Ident), Extends(leases, ls), q.pc = "token", Issued(t, q.eff.id, ls)
      PROVE  JobStands([q EXCEPT !.pc = "call", !.tok = t], ls)
    <2> DEFINE r == [q EXCEPT !.pc = "call", !.tok = t]
    <2>1. /\ r \in JobType /\ r.pc = "call" /\ r.env = q.env /\ r.failed = q.failed /\ r.eff = q.eff
          /\ r.memo = q.memo /\ r.refs = q.refs /\ r.tok = t
        BY <1>0, <1>7 DEF JobType
    <2> HIDE DEF r
    <2>2. JobStands(q, ls)
        BY <1>0, <1>7, JobStays
    <2>3. WorkStands(r, ls)
        BY <1>7, <2>1, <2>2 DEF JobStands, WorkStands, NextRef
    <2>4. JobStands(r, ls)
        BY <1>7, <2>1, <2>2, <2>3, EntryGoesOn
    <2> QED
        BY <2>4 DEF r
<1>8. Extends(leases, leases)
    BY <1>0 DEF Extends
<1>9. ASSUME NEW ok \in BOOLEAN, NEW ver \in Nat, q.pc \in {"token", "call"}, ok => q.pc = "call", ReadEnds(j, ok, ver),
             UNCHANGED <<bound, conf, cred, edits, secret, leases, tokens>>
      PROVE  ResolveIInv'
    <2> DEFINE m == [got |-> TRUE, ok |-> ok, ver |-> ver, tok |-> q.tok]
               r == Settled([q EXCEPT !.memo[NextRef(q)] = m], Value(NextRef(q), q.eff, m), ok)
    <2>1. JobStands(r, leases)
        BY <1>0, <1>9, ReadEndsStands
    <2>2. job' = [job EXCEPT ![j] = r]
        BY <1>0, <1>9 DEF ReadEnds
    <2> HIDE DEF r
    <2> QED
        BY <1>1, <1>9, <2>1, <2>2
<1>10. CASE CachedToken(j)
    <2>0. q.pc = "token" /\ UNCHANGED <<bound, conf, cred, edits, secret, leases, tokens>>
        BY <1>10 DEF CachedToken
    <2>1. PICK t \in Nat : /\ job' = [job EXCEPT ![j].pc = "call", ![j].tok = t]
                           /\ Issued(t, q.eff.id, leases)
        BY <1>0, <1>10 DEF CachedToken, Issued, ServerStands
    <2>2. job' = [job EXCEPT ![j] = [q EXCEPT !.pc = "call", !.tok = t]]
        BY <1>0, <2>1 DEF ResolveIInv, JobType
    <2>3. JobStands([q EXCEPT !.pc = "call", !.tok = t], leases)
        BY <1>0, <1>7, <1>8, <2>0, <2>1
    <2> QED
        BY <1>1, <2>0, <2>2, <2>3
<1>11. CASE Login(j)
    <2>0. q.pc = "token" /\ UNCHANGED <<bound, conf, cred, edits, secret>>
        BY <1>11 DEF Login
    <2>1. CASE ReadEnds(j, FALSE, 0) /\ UNCHANGED <<leases, tokens>>
        BY <1>9, <2>0, <2>1
    <2>2. CASE ~ (ReadEnds(j, FALSE, 0) /\ UNCHANGED <<leases, tokens>>)
        <3>1. /\ leases' = Append(leases, q.eff.id)
              /\ tokens' = [tokens EXCEPT ![q.eff.id] = Len(leases')]
              /\ job' = [job EXCEPT ![j].pc = "call", ![j].tok = Len(leases')]
            BY <1>11, <2>2 DEF Login
        <3>2. /\ ServerStands' /\ Extends(leases, leases') /\ leases' \in Seq(Ident)
              /\ Len(leases') \in Nat /\ Issued(Len(leases'), q.eff.id, leases')
            BY <1>0, <2>0, <3>1, TokenIssued DEF Issued
        <3>3. JobStands([q EXCEPT !.pc = "call", !.tok = Len(leases')], leases')
            BY <1>7, <2>0, <3>2
        <3>4. job' = [job EXCEPT ![j] = [q EXCEPT !.pc = "call", !.tok = Len(leases')]]
            BY <1>0, <3>1 DEF ResolveIInv, JobType
        <3> QED
            BY <3>2, <3>3, <3>4, JobMoves
    <2> QED
        BY <2>1, <2>2
<1>12. CASE Read(j)
    <2>0. q.pc = "call" /\ UNCHANGED <<bound, conf, cred, edits, secret, leases, tokens>>
        BY <1>12 DEF Read
    <2>1. NextRef(q) \in SecretPath /\ secret[NextRef(q)] \in Nat
        BY <1>0, <2>0 DEF JobStands, WorkStands, ServerStands
    <2>2. CASE ReadEnds(j, TRUE, secret[Ref(j)])
        BY <1>0, <1>9, <2>0, <2>1, <2>2
    <2>3. CASE ReadEnds(j, FALSE, 0)
        BY <1>9, <2>0, <2>3
    <2>4. CASE job' = [job EXCEPT ![j].attempt = 1, ![j].pc = "token"]
        <3> DEFINE r == [q EXCEPT !.attempt = 1, !.pc = "token"]
        <3>1. job' = [job EXCEPT ![j] = r]
            BY <1>0, <2>4 DEF ResolveIInv, JobType
        <3>2. /\ r \in JobType /\ r.pc = "token" /\ r.env = q.env /\ r.failed = q.failed /\ r.eff = q.eff
              /\ r.memo = q.memo /\ r.refs = q.refs
            BY <1>0 DEF JobType
        <3> HIDE DEF r
        <3>3. WorkStands(r, leases)
            BY <1>0, <2>0, <3>2 DEF JobStands, WorkStands, NextRef
        <3>4. JobStands(r, leases)
            BY <1>0, <2>0, <3>2, <3>3, EntryGoesOn
        <3> QED
            BY <1>1, <2>0, <3>1, <3>4
    <2> QED
        BY <1>12, <2>2, <2>3, <2>4 DEF Read
<1>13. CASE Answer(j)
    <2>0. q.pc = "entry" /\ UNCHANGED <<bound, conf, cred, edits, secret, leases, tokens>>
        BY <1>13 DEF Answer
    <2>1. CASE q.failed
        <3> DEFINE r == [NoJob EXCEPT !.pc = "failed"]
        <3>1. job' = [job EXCEPT ![j] = r]
            BY <1>13, <2>1 DEF Answer
        <3>2. r \in JobType /\ r.pc = "failed" /\ r.env = <<>> /\ \A p \in SecretPath : ~ r.memo[p].got
            BY BlankJob DEF JobType
        <3> HIDE DEF r
        <3>3. JobStands(r, leases)
            BY <3>2 DEF JobStands, MemoStands, WorkStands, EnvStands, AnswerStands
        <3> QED
            BY <1>1, <2>0, <3>1, <3>3
    <2>2. CASE ~ q.failed
        <3> DEFINE r == [NoJob EXCEPT !.pc = "answered", !.env = q.env]
        <3>1. job' = [job EXCEPT ![j] = r]
            BY <1>13, <2>2 DEF Answer
        <3>2. r \in JobType /\ r.pc = "answered" /\ r.env = q.env /\ \A p \in SecretPath : ~ r.memo[p].got
            BY <1>0, BlankJob DEF JobType
        <3> HIDE DEF r
        <3>3. \A k \in 1 .. Len(q.env) : q.env[k].path \in SecretPath => GoodValue(q.env[k], q, leases)
            BY <1>0, <2>0, <2>2 DEF JobStands, EnvStands
        <3>4. AnswerStands(r, leases)
            BY <3>2, <3>3 DEF AnswerStands, GoodValue
        <3>5. JobStands(r, leases)
            BY <3>2, <3>4 DEF JobStands, MemoStands, WorkStands, EnvStands
        <3> QED
            BY <1>1, <2>0, <3>1, <3>5
    <2> QED
        BY <2>1, <2>2
<1> QED
    BY <1>2, <1>3, <1>4, <1>5, <1>6, <1>10, <1>11, <1>12, <1>13 DEF ResolveStep

LEMMA ResolveInitIInv == ResolveInit => ResolveIInv
<1> SUFFICES ASSUME ResolveInit PROVE ResolveIInv
    OBVIOUS
<1>1. ServerStands
    <2>1. bound \in [is : BOOLEAN, allow : SUBSET SecretPath]
        BY DEF ResolveInit
    <2>2. leases \in Seq(Ident) /\ tokens \in [Ident -> Nat] /\ \A id \in Ident : tokens[id] = 0
        BY DEF ResolveInit
    <2>3. conf \in 0 .. MaxEdits /\ cred \in 0 .. MaxEdits /\ edits \in 0 .. MaxEdits
        BY SecretResolveAssumption DEF ResolveInit
    <2> QED
        BY <2>1, <2>2, <2>3 DEF ResolveInit, ServerStands
<1>2. ASSUME NEW j \in ResolveJob PROVE JobStands(job[j], leases)
    <2>1. job[j] = NoJob
        BY DEF ResolveInit
    <2> QED
        BY <2>1, BlankJob DEF JobStands, MemoStands, WorkStands, EnvStands, AnswerStands
<1> QED
    BY <1>1, <1>2, BlankJob DEF ResolveInit, ResolveIInv

LEMMA ResolveNextIInv == ResolveIInv /\ [ResolveNext]_resolveVars => ResolveIInv'
<1> SUFFICES ASSUME ResolveIInv, [ResolveNext]_resolveVars PROVE ResolveIInv'
    OBVIOUS
<1>0. ServerStands /\ leases \in Seq(Ident)
    BY DEF ResolveIInv, ServerStands
<1>1. ASSUME ServerStands', Extends(leases, leases'), UNCHANGED job PROVE ResolveIInv'
    <2>1. leases' \in Seq(Ident)
        BY <1>1 DEF ServerStands
    <2>2. \A j \in ResolveJob : JobStands(job[j], leases')
        BY <1>0, <1>1, <2>1, JobStays DEF ResolveIInv
    <2> QED
        BY <1>1, <2>2 DEF ResolveIInv
<1>2. CASE UNCHANGED resolveVars
    BY <1>0, <1>1, <1>2, ServerSame DEF resolveVars
<1>3. CASE Edit
    <2>1. UNCHANGED <<secret, leases, tokens, job>>
        BY <1>3 DEF Edit
    <2>2. bound' \in [is : BOOLEAN, allow : SUBSET SecretPath]
        BY <1>0, <1>3 DEF Edit, ServerStands
    <2>3. edits' \in 0 .. MaxEdits /\ conf' \in 0 .. MaxEdits /\ cred' \in 0 .. MaxEdits
        BY <1>0, <1>3, SecretResolveAssumption DEF Edit, ServerStands
    <2>4. ServerStands' /\ Extends(leases, leases')
        BY <1>0, <2>1, <2>2, <2>3 DEF ServerStands, Extends
    <2> QED
        BY <1>1, <2>1, <2>4
<1>4. CASE OtherLogin
    <2>1. <<conf, cred>> \in Ident
        BY <1>0 DEF ServerStands, Ident
    <2> QED
        BY <1>0, <1>1, <1>4, <2>1, TokenIssued DEF OtherLogin
<1>5. ASSUME NEW p \in SecretPath, WriteSecret(p) PROVE ResolveIInv'
    <2>1. secret' \in [SecretPath -> Nat] /\ UNCHANGED <<bound, conf, cred, edits, leases, tokens, job>>
        BY <1>0, <1>5 DEF WriteSecret, ServerStands
    <2>2. ServerStands' /\ Extends(leases, leases')
        BY <1>0, <2>1 DEF ServerStands, Extends
    <2> QED
        BY <1>1, <2>1, <2>2
<1>6. ASSUME NEW t, RevokeToken(t) PROVE ResolveIInv'
    BY <1>0, <1>1, <1>6, ServerSame DEF RevokeToken
<1>7. ASSUME NEW id \in Ident, TokenExpires(id) PROVE ResolveIInv'
    <2>1. /\ tokens' \in [Ident -> Nat] /\ \A i \in Ident : tokens'[i] = 0 \/ tokens'[i] = tokens[i]
          /\ UNCHANGED <<bound, conf, cred, edits, secret, leases, job>>
        BY <1>0, <1>7 DEF TokenExpires, ServerStands
    <2>2. ServerStands' /\ Extends(leases, leases')
        BY <1>0, <2>1 DEF ServerStands, Extends
    <2> QED
        BY <1>1, <2>1, <2>2
<1> QED
    BY <1>2, <1>3, <1>4, <1>5, <1>6, <1>7, ResolveStepIInv DEF ResolveNext

LEMMA ResolveStands == ResolveSpec => []ResolveIInv
<1> QED
    BY ResolveInitIInv, ResolveNextIInv, PTL DEF ResolveSpec

(* Whatever is edited, written or revoked meanwhile, the values a deployment *)
(* gets came through one connection, one set of credentials and its tokens,  *)
(* from allowed paths, and fields of one secret are of one version.          *)
THEOREM AnswersHangTogether == ResolveSpec => []OneAnswerPerJob
<1>1. ResolveIInv => OneAnswerPerJob
    <2> SUFFICES ASSUME ResolveIInv, NEW j \in ResolveJob, job[j].pc = "answered"
                 PROVE  LET values == {v \in {job[j].env[k] : k \in DOMAIN job[j].env} : v.path \in SecretPath} IN
                        /\ \A v \in values : v.path \in v.allow /\ (Static(v.id) \/ leases[v.tok] = v.id)
                        /\ \A v, w \in values : v.id = w.id /\ (v.path = w.path => v.ver = w.ver)
        BY DEF OneAnswerPerJob
    <2>1. AnswerStands(job[j], leases) /\ job[j].env \in Seq(ValueType)
        BY DEF ResolveIInv, JobStands, JobType
    <2>2. DOMAIN job[j].env = 1 .. Len(job[j].env)
        BY <2>1
    <2>3. \A k, l \in DOMAIN job[j].env :
             job[j].env[k].path \in SecretPath /\ job[j].env[l].path \in SecretPath =>
                /\ job[j].env[k].path \in job[j].env[k].allow
                /\ Static(job[j].env[k].id) \/ leases[job[j].env[k].tok] = job[j].env[k].id
                /\ job[j].env[k].id = job[j].env[l].id
                /\ job[j].env[k].path = job[j].env[l].path => job[j].env[k].ver = job[j].env[l].ver
        BY <2>1, <2>2 DEF AnswerStands, Issued
    <2> QED
        BY <2>3
<1> QED
    BY <1>1, ResolveStands, PTL

-----------------------------------------------------------------------------
(* Git polling: types and schedules, however many edits overlap.            *)

Adding == {r \in Editor : \/ edit[r].pc \in {"schedule", "read", "remove", "add"}
                          \/ edit[r].pc = "trigger" /\ edit[r].trigger = "polling"}

(* What is on its way to cron is a schedule it accepts.                     *)
SchedulesValid ==
    /\ stack.exists /\ stack.trigger = "polling" => stack.sched \in Sched
    /\ \A r \in Editor : (r \in Adding \/ edit[r].pc = "store") => edit[r].sched \in Sched
    /\ \A p \in Poll : poll[p].pc \in {"record", "queue"} => poll[p].sha # 0

(* Every edit adds one entry at most; main may have added one before.       *)
EntriesSuffice == lastId + Cardinality(Adding) <= stackEdits + 1

PollTyped == PollTypeOK /\ SchedulesValid /\ EntriesSuffice

LEMMA AddingIsFinite == IsFiniteSet(Adding) /\ Cardinality(Adding) \in Nat
<1>1. Adding \subseteq Editor
    BY DEF Adding
<1> QED
    BY <1>1, PollScheduleAssumption, FS_Subset, FS_CardinalityType

LEMMA BlankPolling ==
    /\ NoStackRow \in StackRow /\ NoStackRow.exists = FALSE
    /\ NoEdit \in EditState /\ NoEdit.pc = "idle"
    /\ NoPoll \in PollState /\ NoPoll.pc = "idle"
BY PollScheduleAssumption DEF NoStackRow, StackRow, NoEdit, EditState, EntryId, NoPoll, PollState

LEMMA PollInitTyped == PollInit => PollTyped
<1> SUFFICES ASSUME PollInit PROVE PollTyped
    OBVIOUS
<1> USE PollScheduleAssumption, BlankPolling
<1>1. PollTypeOK
    <2>1. MaxCommits \in Nat /\ 1 \in 1 .. MaxCommits /\ MaxStackEdits \in Nat /\ MaxRestarts \in Nat
        OBVIOUS
    <2>2. stack \in StackRow /\ edit \in [Editor -> EditState] /\ poll \in [Poll -> PollState]
        BY DEF PollInit
    <2>3. live \subseteq Entry /\ queued \subseteq 1 .. MaxCommits /\ based \in BOOLEAN
        BY DEF PollInit
    <2>4. lastId \in EntryId /\ registry \in EntryId /\ branch \in 1 .. MaxCommits
        BY <2>1 DEF PollInit, EntryId
    <2>5. stackEdits \in 0 .. MaxStackEdits /\ restarts \in 0 .. MaxRestarts
        BY <2>1 DEF PollInit
    <2> QED
        BY <2>2, <2>3, <2>4, <2>5 DEF PollTypeOK
<1>2. Adding = {}
    BY DEF PollInit, Adding
<1>3. SchedulesValid
    BY <1>2 DEF PollInit, SchedulesValid
<1>4. EntriesSuffice
    BY <1>2, FS_EmptySet DEF PollInit, EntriesSuffice
<1> QED
    BY <1>1, <1>3, <1>4 DEF PollTyped

(* One edit moves on, and asks for no entry more.                           *)
LEMMA EditMoves ==
    ASSUME PollTypeOK, EntriesSuffice, NEW r \in Editor, NEW x \in EditState,
           edit' = [edit EXCEPT ![r] = x],
           \/ UNCHANGED <<lastId, stackEdits>> /\ (r \in Adding' => r \in Adding)
           \/ UNCHANGED lastId /\ stackEdits' = stackEdits + 1 /\ r \notin Adding
           \/ UNCHANGED stackEdits /\ lastId' = lastId + 1 /\ r \in Adding /\ r \notin Adding'
    PROVE  /\ edit' \in [Editor -> EditState] /\ edit'[r] = x /\ \A q \in Editor \ {r} : edit'[q] = edit[q]
           /\ \A q \in Editor \ {r} : q \in Adding' <=> q \in Adding
           /\ EntriesSuffice'
<1>1. edit' \in [Editor -> EditState] /\ edit'[r] = x /\ \A q \in Editor \ {r} : edit'[q] = edit[q]
    BY DEF PollTypeOK
<1>2. \A q \in Editor \ {r} : q \in Adding' <=> q \in Adding
    BY <1>1 DEF Adding
<1>3. Adding' \subseteq Editor /\ Adding \subseteq Editor
    BY DEF Adding
<1>4. lastId \in Nat /\ stackEdits \in Nat
    BY PollScheduleAssumption DEF PollTypeOK, EntryId
<1>5. CASE UNCHANGED <<lastId, stackEdits>> /\ (r \in Adding' => r \in Adding)
    <2>1. Adding' \subseteq Adding
        BY <1>2, <1>3, <1>5
    <2>2. Cardinality(Adding') <= Cardinality(Adding) /\ Cardinality(Adding') \in Nat
        BY <2>1, AddingIsFinite, FS_Subset, FS_CardinalityType
    <2>3. EntriesSuffice'
        BY <1>4, <1>5, <2>2, AddingIsFinite DEF EntriesSuffice
    <2> QED
        BY <1>1, <1>2, <2>3
<1>6. CASE UNCHANGED lastId /\ stackEdits' = stackEdits + 1 /\ r \notin Adding
    <2>1. Adding' \subseteq Adding \union {r}
        BY <1>2, <1>3
    <2>2. IsFiniteSet(Adding \union {r}) /\ Cardinality(Adding \union {r}) = Cardinality(Adding) + 1
        BY <1>6, AddingIsFinite, FS_AddElement
    <2>3. Cardinality(Adding') <= Cardinality(Adding) + 1 /\ Cardinality(Adding') \in Nat
        BY <2>1, <2>2, FS_Subset, FS_CardinalityType
    <2>4. EntriesSuffice'
        BY <1>4, <1>6, <2>3, AddingIsFinite DEF EntriesSuffice
    <2> QED
        BY <1>1, <1>2, <2>4
<1>7. CASE UNCHANGED stackEdits /\ lastId' = lastId + 1 /\ r \in Adding /\ r \notin Adding'
    <2>1. Adding' = Adding \ {r}
        BY <1>2, <1>3, <1>7
    <2>2. Cardinality(Adding') = Cardinality(Adding) - 1
        BY <1>7, <2>1, AddingIsFinite, FS_RemoveElement
    <2>3. EntriesSuffice'
        BY <1>4, <1>7, <2>2, AddingIsFinite DEF EntriesSuffice
    <2> QED
        BY <1>1, <1>2, <2>3
<1> QED
    BY <1>5, <1>6, <1>7

(* Entry ids do not run out.                                                *)
LEMMA NextIdTyped == ASSUME PollTypeOK, EntriesSuffice, NEW r \in Adding PROVE lastId + 1 \in EntryId
<1>1. Cardinality(Adding) # 0
    BY AddingIsFinite, FS_EmptySet
<1>2. lastId \in Nat /\ stackEdits \in Nat /\ MaxStackEdits \in Nat /\ stackEdits <= MaxStackEdits
    BY PollScheduleAssumption DEF PollTypeOK, EntryId
<1> QED
    BY <1>1, <1>2, AddingIsFinite DEF EntriesSuffice, EntryId

LEMMA EditTyped ==
    ASSUME PollTyped, NEW r \in Editor, EditArrives(r) \/ EditStep(r)
    PROVE  PollTyped'
<1>0. PollTypeOK /\ SchedulesValid /\ EntriesSuffice
    BY DEF PollTyped
<1> USE PollScheduleAssumption, BlankPolling
<1>a. /\ edit[r] \in EditState /\ edit[r].sched \in Sched \union {NoSched} /\ edit[r].id \in EntryId
      /\ edit[r].trigger \in {"polling", "manual"} /\ stack \in StackRow /\ stack.sched \in Sched \union {NoSched}
    BY <1>0 DEF PollTypeOK, EditState, StackRow
<1>b. EntryId \subseteq Nat /\ 0 \in EntryId
    BY DEF EntryId
(* It is enough to look at the edit's own record, the row and the entries.  *)
<1>1. ASSUME NEW x \in EditState, edit' = [edit EXCEPT ![r] = x],
             \/ UNCHANGED <<lastId, stackEdits>> /\ (r \in Adding' => r \in Adding)
             \/ UNCHANGED lastId /\ stackEdits' = stackEdits + 1 /\ r \notin Adding
             \/ UNCHANGED stackEdits /\ lastId' = lastId + 1 /\ r \in Adding /\ r \notin Adding',
             (r \in Adding' \/ x.pc = "store") => x.sched \in Sched,
             stack' \in StackRow, stack'.exists /\ stack'.trigger = "polling" => stack'.sched \in Sched,
             live' \subseteq Entry, lastId' \in EntryId, registry' \in EntryId,
             stackEdits' \in 0 .. MaxStackEdits, based' \in BOOLEAN,
             UNCHANGED <<poll, branch, queued, restarts>>
      PROVE  PollTyped'
    <2>1. /\ edit' \in [Editor -> EditState] /\ edit'[r] = x /\ \A q \in Editor \ {r} : edit'[q] = edit[q]
          /\ \A q \in Editor \ {r} : q \in Adding' <=> q \in Adding
          /\ EntriesSuffice'
        BY <1>0, <1>1, EditMoves
    <2>2. SchedulesValid'
        BY <1>0, <1>1, <2>1 DEF SchedulesValid
    <2>3. PollTypeOK'
        BY <1>0, <1>1, <2>1 DEF PollTypeOK
    <2> QED
        BY <2>1, <2>2, <2>3 DEF PollTyped
<1>2. ASSUME NEW x \in EditState, EditBegins(r, x)
      PROVE  /\ edit' = [edit EXCEPT ![r] = x] /\ stackEdits' = stackEdits + 1 /\ r \notin Adding
             /\ stackEdits' \in 0 .. MaxStackEdits
    BY <1>0, <1>2 DEF EditBegins, EditAt, Adding, PollTypeOK
<1>3. ASSUME NEW t \in {"polling", "manual"}, NEW s \in Sched, CreateStack(r, t, s) PROVE PollTyped'
    <2> DEFINE x == IF t = "polling" THEN [pc |-> "read", trigger |-> t, sched |-> s, id |-> 0] ELSE NoEdit
    <2>1. x \in EditState /\ (x.pc = "read" => x.sched \in Sched) /\ x.pc \in {"read", "idle"}
        BY <1>b DEF EditState
    <2>2. EditBegins(r, x)
        BY <1>3 DEF CreateStack
    <2> HIDE DEF x
    <2>3. edit'[r] = x
        BY <1>0, <1>2, <2>1, <2>2 DEF PollTypeOK
    <2>4. r \in Adding' => x.sched \in Sched
        BY <2>1, <2>3 DEF Adding
    <2>5. stack' \in StackRow /\ (stack'.exists /\ stack'.trigger = "polling" => stack'.sched \in Sched)
        BY <1>3 DEF CreateStack, StackRow
    <2> QED
        BY <1>0, <1>1, <1>2, <1>3, <2>1, <2>2, <2>4, <2>5 DEF CreateStack, cronVars, PollTypeOK
<1>4. ASSUME NEW s \in Sched, LoadForSchedule(r, s) PROVE PollTyped'
    <2> DEFINE x == [pc |-> "schedule", trigger |-> "polling", sched |-> s, id |-> 0]
    <2>1. x \in EditState /\ x.sched \in Sched /\ x.pc = "schedule"
        BY <1>b DEF EditState
    <2>2. EditBegins(r, x)
        BY <1>4 DEF LoadForSchedule
    <2> HIDE DEF x
    <2> QED
        BY <1>0, <1>1, <1>2, <1>4, <2>1, <2>2 DEF LoadForSchedule, cronVars, pollVars, PollTypeOK, SchedulesValid
<1>5. ASSUME NEW t \in {"polling", "manual"}, LoadForTrigger(r, t) PROVE PollTyped'
    <2> DEFINE x == [pc |-> "trigger", trigger |-> t, id |-> 0,
                     sched |-> IF t = "polling" /\ stack.sched = NoSched THEN Default ELSE stack.sched]
    <2>1. x \in EditState /\ x.pc = "trigger" /\ (x.trigger = "polling" => x.sched \in Sched)
        BY <1>a, <1>b DEF EditState
    <2>2. EditBegins(r, x)
        BY <1>5 DEF LoadForTrigger
    <2> HIDE DEF x
    <2>3. edit'[r] = x
        BY <1>0, <1>2, <2>1, <2>2 DEF PollTypeOK
    <2>4. r \in Adding' => x.sched \in Sched
        BY <2>1, <2>3 DEF Adding
    <2> QED
        BY <1>0, <1>1, <1>2, <1>5, <2>1, <2>2, <2>4 DEF LoadForTrigger, cronVars, pollVars, PollTypeOK, SchedulesValid
(* The steps after the first: the record changes in a field or two.         *)
<1>c. edit \in [Editor -> EditState]
    BY <1>0 DEF PollTypeOK
<1>7. CASE SetPollSchedule(r)
    <2>1. r \in Adding /\ edit[r].sched \in Sched
        BY <1>0, <1>7 DEF SetPollSchedule, EditAt, Adding, SchedulesValid
    <2> DEFINE x == [edit[r] EXCEPT !.pc = "read"]
    <2>2. edit' = [edit EXCEPT ![r] = x]
        BY <1>7, <1>a, <1>c DEF SetPollSchedule, EditState
    <2>3. x \in EditState /\ edit'[r] = x /\ x.pc = "read" /\ x.sched = edit[r].sched
        BY <1>a, <1>c, <2>2 DEF EditState
    <2> HIDE DEF x
    <2>4. stack' \in StackRow /\ (stack'.exists /\ stack'.trigger = "polling" => stack'.sched \in Sched)
        BY <1>0, <1>7, <1>a, <2>1 DEF SetPollSchedule, StackRow, SchedulesValid
    <2> QED
        BY <1>0, <1>1, <1>7, <2>1, <2>2, <2>3, <2>4 DEF SetPollSchedule, cronVars, pollVars, PollTypeOK
<1>8. CASE UpdateStackTrigger(r)
    <2> DEFINE pc == IF edit[r].trigger = "polling" THEN "read" ELSE "take"
    <2>1. edit[r].trigger = "polling" => r \in Adding /\ edit[r].sched \in Sched
        BY <1>0, <1>8 DEF UpdateStackTrigger, EditAt, Adding, SchedulesValid
    <2>a. pc \in {"read", "take"} /\ (pc = "read" => edit[r].trigger = "polling")
        OBVIOUS
    <2> DEFINE x == [edit[r] EXCEPT !.pc = pc]
    <2>2. edit' = [edit EXCEPT ![r] = x]
        BY <1>8, <1>a, <1>c DEF UpdateStackTrigger, EditState
    <2> HIDE DEF pc
    <2>3. x \in EditState /\ edit'[r] = x /\ x.pc = pc /\ x.sched = edit[r].sched
        BY <1>a, <1>c, <2>2, <2>a DEF EditState
    <2> HIDE DEF x
    <2>4. stack' \in StackRow /\ (stack'.exists /\ stack'.trigger = "polling" => stack'.sched \in Sched)
        BY <1>0, <1>8, <1>a, <2>1 DEF UpdateStackTrigger, StackRow, SchedulesValid
    <2>5. r \in Adding' => edit[r].trigger = "polling"
        BY <2>3, <2>a DEF Adding
    <2>6. x.pc # "store"
        BY <2>3, <2>a
    <2> QED
        BY <1>0, <1>1, <1>8, <2>1, <2>2, <2>3, <2>4, <2>5, <2>6 DEF UpdateStackTrigger, cronVars, pollVars, PollTypeOK
<1>9. CASE RegisterRead(r)
    <2> DEFINE pc == IF registry # 0 THEN "remove" ELSE "add"
    <2>1. r \in Adding /\ edit[r].sched \in Sched
        BY <1>0, <1>9 DEF RegisterRead, EditAt, Adding, SchedulesValid
    <2>a. pc \in {"remove", "add"} /\ registry \in EntryId
        BY <1>0 DEF PollTypeOK
    <2> DEFINE x == [edit[r] EXCEPT !.pc = pc, !.id = registry]
    <2>2. edit' = [edit EXCEPT ![r] = x]
        BY <1>9, <1>a, <1>c DEF RegisterRead, EditState
    <2> HIDE DEF pc
    <2>3. x \in EditState /\ edit'[r] = x /\ x.pc = pc /\ x.sched = edit[r].sched
        BY <1>a, <1>c, <2>2, <2>a DEF EditState
    <2> HIDE DEF x
    <2> QED
        BY <1>0, <1>1, <1>9, <2>1, <2>2, <2>3 DEF RegisterRead, cronVars, pollVars, PollTypeOK, SchedulesValid
<1>10. CASE RegisterRemove(r)
    <2>1. r \in Adding /\ edit[r].sched \in Sched
        BY <1>0, <1>10 DEF RegisterRemove, EditAt, Adding, SchedulesValid
    <2> DEFINE x == [edit[r] EXCEPT !.pc = "add"]
    <2>2. edit' = [edit EXCEPT ![r] = x]
        BY <1>10, <1>a, <1>c DEF RegisterRemove, EditState
    <2>3. x \in EditState /\ edit'[r] = x /\ x.pc = "add" /\ x.sched = edit[r].sched
        BY <1>a, <1>c, <2>2 DEF EditState
    <2> HIDE DEF x
    <2> QED
        BY <1>0, <1>1, <1>10, <2>1, <2>2, <2>3 DEF RegisterRemove, Remove, pollVars, PollTypeOK, SchedulesValid
<1>11. CASE RegisterAdd(r)
    <2>1. r \in Adding /\ edit[r].sched \in Sched
        BY <1>0, <1>11 DEF RegisterAdd, EditAt, Adding, SchedulesValid
    <2>2. lastId' = lastId + 1 /\ lastId + 1 \in EntryId
        BY <1>0, <1>11, <2>1, NextIdTyped DEF RegisterAdd
    <2> DEFINE x == [edit[r] EXCEPT !.pc = "store", !.id = lastId + 1]
    <2>a. edit' = [edit EXCEPT ![r] = x]
        BY <1>11, <1>a, <1>c, <2>2 DEF RegisterAdd, EditState
    <2>3. x \in EditState /\ edit'[r] = x /\ x.pc = "store" /\ x.sched = edit[r].sched
        BY <1>a, <1>c, <2>2, <2>a DEF EditState
    <2> HIDE DEF x
    <2>4. r \notin Adding'
        BY <2>3 DEF Adding
    <2>5. live' \subseteq Entry
        BY <1>0, <1>11, <2>1, <2>2 DEF RegisterAdd, PollTypeOK, Entry
    <2> QED
        BY <1>0, <1>1, <1>11, <2>1, <2>2, <2>a, <2>3, <2>4, <2>5 DEF RegisterAdd, pollVars, PollTypeOK, SchedulesValid
<1>12. ASSUME EditDone(r) PROVE r \notin Adding' /\ edit' = [edit EXCEPT ![r] = NoEdit]
    <2>1. edit'[r] = NoEdit
        BY <1>0, <1>12 DEF EditDone, PollTypeOK
    <2> QED
        BY <1>12, <2>1 DEF EditDone, Adding
<1>13. CASE RegisterStore(r)
    BY <1>0, <1>1, <1>12, <1>13, <1>a DEF RegisterStore, pollVars, PollTypeOK, SchedulesValid
<1>14. CASE UnregisterTake(r)
    <2>1. CASE registry = 0
        BY <1>0, <1>1, <1>12, <1>14, <2>1 DEF UnregisterTake, pollVars, PollTypeOK, SchedulesValid
    <2>2. CASE registry # 0
        <3> DEFINE x == [edit[r] EXCEPT !.pc = "drop", !.id = registry]
        <3>a. edit' = [edit EXCEPT ![r] = x] /\ registry \in EntryId
            BY <1>0, <1>14, <1>a, <1>c, <2>2 DEF UnregisterTake, EditState, PollTypeOK
        <3>1. x \in EditState /\ edit'[r] = x /\ x.pc = "drop"
            BY <1>a, <1>c, <3>a DEF EditState
        <3> HIDE DEF x
        <3>2. r \notin Adding'
            BY <3>1 DEF Adding
        <3> QED
            BY <1>0, <1>1, <1>14, <1>b, <2>2, <3>a, <3>1, <3>2 DEF UnregisterTake, pollVars, PollTypeOK, SchedulesValid
    <2> QED
        BY <2>1, <2>2
<1>15. CASE UnregisterRemove(r)
    BY <1>0, <1>1, <1>12, <1>15 DEF UnregisterRemove, Remove, pollVars, PollTypeOK, SchedulesValid
<1> QED
    BY <1>3, <1>4, <1>5, <1>7, <1>8, <1>9, <1>10, <1>11, <1>13, <1>14, <1>15 DEF EditArrives, EditStep

LEMMA PollNextTyped == PollTyped /\ [PollNext]_scheduleVars => PollTyped'
<1> SUFFICES ASSUME PollTyped, [PollNext]_scheduleVars PROVE PollTyped'
    OBVIOUS
<1>0. PollTypeOK /\ SchedulesValid /\ EntriesSuffice
    BY DEF PollTyped
<1> USE PollScheduleAssumption, BlankPolling
(* Nothing but edits touches schedules and entries.                         *)
<1>1. ASSUME UNCHANGED <<cronVars, edit, stackEdits, restarts>>,
             stack' \in StackRow, stack'.exists /\ stack'.trigger = "polling" => stack'.sched \in Sched,
             poll' \in [Poll -> PollState], branch' \in 1 .. MaxCommits, queued' \subseteq 1 .. MaxCommits,
             based' \in BOOLEAN, \A p \in Poll : poll'[p].pc \in {"record", "queue"} => poll'[p].sha # 0
      PROVE  PollTyped'
    <2>1. Adding' = Adding
        BY <1>1 DEF Adding
    <2> QED
        BY <1>0, <1>1, <2>1 DEF PollTyped, PollTypeOK, SchedulesValid, EntriesSuffice, cronVars
<1>2. ASSUME NEW p \in Poll, NEW x \in PollState, poll' = [poll EXCEPT ![p] = x],
             x.pc \in {"record", "queue"} => x.sha # 0
      PROVE  /\ poll' \in [Poll -> PollState]
             /\ \A q \in Poll : poll'[q].pc \in {"record", "queue"} => poll'[q].sha # 0
    BY <1>0, <1>2 DEF PollTypeOK, SchedulesValid
<1>3. ASSUME NEW p \in Poll, Tick(p) \/ ForcePoll(p) \/ PollStep(p) PROVE PollTyped'
    <2>a. /\ poll[p] \in PollState /\ stack \in StackRow /\ stack.sha \in 0 .. MaxCommits
          /\ poll[p].seen \in 0 .. MaxCommits /\ poll[p].sha \in 0 .. MaxCommits /\ branch \in 1 .. MaxCommits
        BY <1>0 DEF PollTypeOK, PollState, StackRow
    <2>b. ASSUME NEW pc \in {"load", "list", "record", "queue"}, NEW seen \in 0 .. MaxCommits,
                 NEW sha \in 0 .. MaxCommits, pc \in {"record", "queue"} => sha # 0,
                 poll' = [poll EXCEPT ![p] = [pc |-> pc, seen |-> seen, sha |-> sha]],
                 UNCHANGED <<cronVars, edit, stackEdits, restarts, branch, queued>>,
                 stack' \in StackRow, stack'.exists /\ stack'.trigger = "polling" => stack'.sched \in Sched,
                 based' \in BOOLEAN
          PROVE  PollTyped'
        <3>1. [pc |-> pc, seen |-> seen, sha |-> sha] \in PollState
            BY DEF PollState
        <3> QED
            BY <1>0, <1>1, <1>2, <2>b, <3>1 DEF PollTypeOK
    <2>c. ASSUME PollOver(p), UNCHANGED <<cronVars, edit, stackEdits, restarts, branch>>,
                 stack' \in StackRow, stack'.exists /\ stack'.trigger = "polling" => stack'.sched \in Sched,
                 based' \in BOOLEAN, queued' \subseteq 1 .. MaxCommits
          PROVE  PollTyped'
        BY <1>0, <1>1, <1>2, <2>c DEF PollOver, PollTypeOK
    <2>d. /\ stack.exists /\ stack.trigger = "polling" => stack.sched \in Sched
          /\ based \in BOOLEAN /\ queued \subseteq 1 .. MaxCommits /\ poll \in [Poll -> PollState]
        BY <1>0 DEF SchedulesValid, PollTypeOK
    <2>1. CASE Tick(p) \/ ForcePoll(p)
        <3>1. poll' = [poll EXCEPT ![p] = [pc |-> "load", seen |-> poll[p].seen, sha |-> poll[p].sha]]
            BY <2>1, <2>a, <2>d DEF Tick, ForcePoll, PollState
        <3>2. UNCHANGED <<stack, cronVars, edit, branch, queued, based, stackEdits, restarts>>
            BY <2>1 DEF Tick, ForcePoll
        <3> QED
            BY <2>a, <2>b, <2>d, <3>1, <3>2
    <2>2. CASE PollLoad(p)
        <3>1. CASE stack.exists
            <4>1. poll' = [poll EXCEPT ![p] = [pc |-> "list", seen |-> stack.sha, sha |-> poll[p].sha]]
                BY <1>0, <2>2, <2>a, <3>1 DEF PollLoad, PollTypeOK, PollState
            <4> QED
                BY <1>0, <2>2, <2>a, <2>b, <2>d, <4>1 DEF PollLoad, PollTypeOK
        <3>2. CASE ~ stack.exists
            BY <1>0, <2>2, <2>a, <2>c, <2>d, <3>2 DEF PollLoad, PollTypeOK
        <3> QED
            BY <3>1, <3>2
    <2>3. CASE LsRemoteSha(p)
        <3> DEFINE x == [poll[p] EXCEPT !.pc = "record", !.sha = branch]
        <3>1. poll' = [poll EXCEPT ![p] = x]
            BY <2>3, <2>a, <2>d DEF LsRemoteSha, PollState
        <3>2. branch \in 0 .. MaxCommits /\ branch # 0
            BY <2>a
        <3>3. x \in PollState /\ x.sha = branch
            BY <2>a, <3>2 DEF PollState
        <3> HIDE DEF x
        <3> QED
            BY <1>1, <1>2, <2>3, <2>a, <2>d, <3>1, <3>2, <3>3 DEF LsRemoteSha
    <2>4. CASE PollFails(p)
        BY <1>0, <2>4, <2>a, <2>c, <2>d DEF PollFails, PollTypeOK
    <2>5. CASE RecordPoll(p)
        <3>1. stack' \in StackRow /\ (stack'.exists /\ stack'.trigger = "polling" => stack'.sched \in Sched)
            BY <2>5, <2>a, <2>d DEF RecordPoll, StackRow
        <3>2. based' \in BOOLEAN
            BY <2>5 DEF RecordPoll
        <3>3. CASE poll[p].sha = poll[p].seen \/ poll[p].seen = 0
            BY <1>0, <2>5, <2>c, <3>1, <3>2, <3>3 DEF RecordPoll, PollTypeOK
        <3>4. CASE ~ (poll[p].sha = poll[p].seen \/ poll[p].seen = 0)
            <4>1. poll' = [poll EXCEPT ![p] = [pc |-> "queue", seen |-> poll[p].seen, sha |-> poll[p].sha]]
                BY <1>0, <2>5, <2>a, <3>4 DEF RecordPoll, PollTypeOK, PollState
            <4>2. poll[p].sha # 0
                BY <1>0, <2>5 DEF RecordPoll, SchedulesValid
            <4> QED
                BY <2>5, <2>a, <2>b, <3>1, <3>2, <4>1, <4>2 DEF RecordPoll
        <3> QED
            BY <3>3, <3>4
    <2>6. CASE QueuePolledDeploy(p)
        <3>a. poll[p].sha # 0
            BY <1>0, <2>6 DEF QueuePolledDeploy, SchedulesValid
        <3>1. queued' \subseteq 1 .. MaxCommits
            <4>1. poll[p].sha \in 1 .. MaxCommits
                BY <2>a, <3>a
            <4> QED
                BY <2>6, <2>d, <4>1 DEF QueuePolledDeploy
        <3> QED
            BY <1>0, <2>6, <2>a, <2>c, <2>d, <3>1 DEF QueuePolledDeploy, PollTypeOK
    <2> QED
        BY <1>3, <2>1, <2>2, <2>3, <2>4, <2>5, <2>6 DEF PollStep
<1>4. CASE DeleteStack
    BY <1>0, <1>1, <1>4 DEF DeleteStack, pollVars, PollTypeOK, SchedulesValid
<1>5. CASE PushCommit
    BY <1>0, <1>1, <1>5 DEF PushCommit, PollTypeOK, SchedulesValid
<1>6. CASE PollRestart
    <2>1. Adding' = {}
        BY <1>6 DEF PollRestart, Adding
    <2>2. EntriesSuffice' /\ lastId' \in EntryId /\ registry' \in EntryId
        BY <1>6, <2>1, FS_EmptySet DEF PollRestart, EntriesSuffice, EntryId
    <2>3. SchedulesValid'
        BY <1>0, <1>6, <2>1 DEF PollRestart, SchedulesValid
    <2>4. live' \subseteq Entry
        BY <1>0, <1>6 DEF PollRestart, SchedulesValid, Entry, EntryId
    <2>5. stackEdits' \in 0 .. MaxStackEdits /\ restarts' \in 0 .. MaxRestarts
        BY <1>0, <1>6 DEF PollRestart, PollTypeOK
    <2>6. edit' \in [Editor -> EditState] /\ poll' \in [Poll -> PollState]
        BY <1>6 DEF PollRestart
    <2>7. PollTypeOK'
        BY <1>0, <1>6, <2>2, <2>4, <2>5, <2>6 DEF PollRestart, PollTypeOK
    <2> QED
        BY <2>2, <2>3, <2>7 DEF PollTyped
<1>7. CASE UNCHANGED scheduleVars
    <2>1. Adding' = Adding
        BY <1>7 DEF scheduleVars, Adding
    <2> QED
        BY <1>0, <1>7, <2>1 DEF scheduleVars, PollTyped, PollTypeOK, SchedulesValid, EntriesSuffice
<1> QED
    BY <1>3, <1>4, <1>5, <1>6, <1>7, EditTyped DEF PollNext

LEMMA PollTypedStands == PollSpec => []PollTyped
<1> QED
    BY PollInitTyped, PollNextTyped, PTL DEF PollSpec

-----------------------------------------------------------------------------
(* Git polling: edits one at a time.                                        *)

EditsApart == \E r : Editor = {r}

OneEntry(id) == \E s \in Sched : live = {[id |-> id, sched |-> s]}

(* The entry the registry knows is the only one, except while an edit       *)
(* replaces or drops it.                                                    *)
EntryStands(e) ==
    /\ e.pc \notin {"add", "store", "drop"} => (registry = 0 /\ live = {}) \/ (registry # 0 /\ OneEntry(registry))
    /\ e.pc = "remove" => registry = e.id
    /\ e.pc = "add" => live = {}
    /\ e.pc = "store" => live = {[id |-> e.id, sched |-> e.sched]} /\ e.id # 0
    /\ e.pc = "drop" => registry = 0 /\ OneEntry(e.id)

(* A polling stack has its schedule, or an edit is about to register it.    *)
ScheduleStands(e) ==
    stack.exists /\ stack.trigger = "polling" =>
        /\ e.pc \notin {"take", "drop"}
        /\ e.pc \in {"idle", "trigger", "schedule"} => live = {[id |-> registry, sched |-> stack.sched]}
        /\ e.pc \in {"read", "remove", "add", "store"} => stack.sched = e.sched

RegisteredApart == \A r \in Editor : EntryStands(edit[r]) /\ ScheduleStands(edit[r])

(* Where stacks are not deleted, a stack that does not poll has no entry,   *)
(* or an edit is about to drop it.                                          *)
UnscheduledStands(e) ==
    /\ ~ stack.exists => e.pc = "idle" /\ live = {}
    /\ e.pc \in {"schedule", "read", "remove", "add", "store"} => stack.trigger = "polling"
    /\ stack.trigger # "polling" /\ e.pc \in {"idle", "trigger"} => live = {}

UnscheduledApart == \A r \in Editor : UnscheduledStands(edit[r])

(* Where a stack is deleted only while no poll is under way, a poll works   *)
(* with the row it loaded, and a head it compares with was recorded there.  *)
BaselineStands ==
    /\ stack.sha # 0 => based
    /\ \A p \in Poll : poll[p].pc \in {"list", "record", "queue"} =>
          /\ stack.exists
          /\ poll[p].seen # 0 => based
          /\ poll[p].pc = "queue" => poll[p].seen # 0

NeverDeleted == [][~ DeleteStack]_scheduleVars
DeletedBetweenPolls == [][DeleteStack => \A p \in Poll : poll[p].pc = "idle"]_scheduleVars

LEMMA InitRegistered == PollInit => RegisteredApart /\ UnscheduledApart /\ BaselineStands
<1> USE BlankPolling
<1>1. PollInit => RegisteredApart
    BY DEF PollInit, RegisteredApart, EntryStands, ScheduleStands, NoStackRow, NoEdit
<1>2. PollInit => UnscheduledApart
    BY DEF PollInit, UnscheduledApart, UnscheduledStands, NoStackRow, NoEdit
<1>3. PollInit => BaselineStands
    BY DEF PollInit, BaselineStands, NoStackRow, NoPoll
<1> QED
    BY <1>1, <1>2, <1>3

(* What the steps of an edit do to its record.                              *)
LEMMA EditFields ==
    ASSUME PollTypeOK, NEW r \in Editor
    PROVE  /\ SetPollSchedule(r) => /\ edit'[r].pc = "read" /\ edit'[r].sched = edit[r].sched
                                    /\ edit'[r].trigger = edit[r].trigger
           /\ UpdateStackTrigger(r) => /\ edit'[r].pc = IF edit[r].trigger = "polling" THEN "read" ELSE "take"
                                       /\ edit'[r].sched = edit[r].sched
           /\ RegisterRead(r) => /\ edit'[r].pc = IF registry # 0 THEN "remove" ELSE "add"
                                 /\ edit'[r].id = registry /\ edit'[r].sched = edit[r].sched
           /\ RegisterRemove(r) => edit'[r].pc = "add" /\ edit'[r].sched = edit[r].sched
           /\ RegisterAdd(r) => /\ edit'[r].pc = "store" /\ edit'[r].id = lastId + 1
                                /\ edit'[r].sched = edit[r].sched
           /\ UnregisterTake(r) /\ registry # 0 => edit'[r].pc = "drop" /\ edit'[r].id = registry
           /\ EditDone(r) => edit'[r] = NoEdit
<1>1. edit \in [Editor -> EditState] /\ edit[r] \in EditState
    BY DEF PollTypeOK
<1>2. SetPollSchedule(r) => /\ edit'[r].pc = "read" /\ edit'[r].sched = edit[r].sched
                            /\ edit'[r].trigger = edit[r].trigger
    BY <1>1 DEF SetPollSchedule, EditState
<1>3. UpdateStackTrigger(r) => /\ edit'[r].pc = IF edit[r].trigger = "polling" THEN "read" ELSE "take"
                               /\ edit'[r].sched = edit[r].sched
    BY <1>1 DEF UpdateStackTrigger, EditState
<1>4. RegisterRead(r) => /\ edit'[r].pc = IF registry # 0 THEN "remove" ELSE "add"
                         /\ edit'[r].id = registry /\ edit'[r].sched = edit[r].sched
    BY <1>1 DEF RegisterRead, EditState
<1>5. RegisterRemove(r) => edit'[r].pc = "add" /\ edit'[r].sched = edit[r].sched
    BY <1>1 DEF RegisterRemove, EditState
<1>6. RegisterAdd(r) => /\ edit'[r].pc = "store" /\ edit'[r].id = lastId + 1
                        /\ edit'[r].sched = edit[r].sched
    BY <1>1 DEF RegisterAdd, EditState
<1>7. UnregisterTake(r) /\ registry # 0 => edit'[r].pc = "drop" /\ edit'[r].id = registry
    BY <1>1 DEF UnregisterTake, EditState
<1>8. EditDone(r) => edit'[r] = NoEdit
    BY <1>1 DEF EditDone
<1> QED
    BY <1>2, <1>3, <1>4, <1>5, <1>6, <1>7, <1>8

LEMMA RegisteredStep ==
    ASSUME PollTyped, NEW r, Editor = {r}, EntryStands(edit[r]), ScheduleStands(edit[r]),
           [PollNext]_scheduleVars
    PROVE  EntryStands(edit[r])' /\ ScheduleStands(edit[r])'
<1>0. PollTypeOK /\ SchedulesValid /\ EntriesSuffice /\ r \in Editor
    BY DEF PollTyped
<1> USE BlankPolling
<1>a. lastId \in Nat /\ registry \in Nat /\ edit \in [Editor -> EditState] /\ stack \in StackRow
    BY <1>0, PollScheduleAssumption DEF PollTypeOK, EntryId
(* The polls, pushes and the deletion leave cron and the edit alone.        *)
<1>1. ASSUME UNCHANGED <<live, registry, edit>>,
             stack'.exists => stack.exists /\ stack'.trigger = stack.trigger /\ stack'.sched = stack.sched
      PROVE  EntryStands(edit[r])' /\ ScheduleStands(edit[r])'
    BY <1>1 DEF EntryStands, ScheduleStands, OneEntry
<1>2. CASE EditArrives(r)
    <2>1. edit[r].pc = "idle" /\ UNCHANGED <<live, registry>>
        BY <1>2 DEF EditArrives, CreateStack, LoadForSchedule, LoadForTrigger, EditBegins, EditAt, cronVars
    <2>2. ASSUME NEW t \in {"polling", "manual"}, NEW s \in Sched, CreateStack(r, t, s)
          PROVE  EntryStands(edit[r])' /\ ScheduleStands(edit[r])'
        <3> DEFINE x == IF t = "polling" THEN [pc |-> "read", trigger |-> t, sched |-> s, id |-> 0] ELSE NoEdit
        <3>1. edit'[r] = x
            BY <1>0, <1>a, <2>2 DEF CreateStack, EditBegins
        <3>2. /\ x.pc \in {"read", "idle"} /\ (t = "polling" => x.pc = "read" /\ x.sched = s)
            OBVIOUS
        <3> HIDE DEF x
        <3>3. stack'.trigger = t /\ (t = "polling" => stack'.sched = s)
            BY <2>2 DEF CreateStack
        <3> QED
            BY <2>1, <3>1, <3>2, <3>3 DEF EntryStands, ScheduleStands, OneEntry
    <2>3. ASSUME NEW x, EditBegins(r, x), x.pc \in {"schedule", "trigger"}, UNCHANGED stack
          PROVE  EntryStands(edit[r])' /\ ScheduleStands(edit[r])'
        <3>1. edit'[r] = x
            BY <1>0, <1>a, <2>3 DEF EditBegins
        <3> QED
            BY <2>1, <2>3, <3>1 DEF EntryStands, ScheduleStands, OneEntry
    <2>4. ASSUME NEW s \in Sched, LoadForSchedule(r, s) PROVE EntryStands(edit[r])' /\ ScheduleStands(edit[r])'
        BY <2>3, <2>4 DEF LoadForSchedule
    <2>5. ASSUME NEW t \in {"polling", "manual"}, LoadForTrigger(r, t)
          PROVE  EntryStands(edit[r])' /\ ScheduleStands(edit[r])'
        BY <2>3, <2>5 DEF LoadForTrigger
    <2> QED
        BY <1>2, <2>2, <2>4, <2>5 DEF EditArrives
<1>3. CASE SetPollSchedule(r)
    <2>1. stack'.exists => stack'.sched = edit[r].sched
        BY <1>3, <1>a DEF SetPollSchedule, StackRow
    <2> QED
        BY <1>0, <1>3, <2>1, EditFields DEF SetPollSchedule, EditAt, EntryStands, ScheduleStands, OneEntry, cronVars
<1>4. CASE UpdateStackTrigger(r)
    <2>1. stack'.exists => stack'.sched = edit[r].sched /\ stack'.trigger = edit[r].trigger
        BY <1>4, <1>a DEF UpdateStackTrigger, StackRow
    <2> QED
        BY <1>0, <1>4, <2>1, EditFields DEF UpdateStackTrigger, EditAt, EntryStands, ScheduleStands, OneEntry, cronVars
<1>5. CASE RegisterRead(r)
    BY <1>0, <1>5, EditFields DEF RegisterRead, EditAt, EntryStands, ScheduleStands, OneEntry, cronVars
<1>6. CASE RegisterRemove(r)
    <2>1. live' = {}
        BY <1>6 DEF RegisterRemove, EditAt, EntryStands, OneEntry, Remove
    <2> QED
        BY <1>0, <1>6, <2>1, EditFields DEF RegisterRemove, EditAt, EntryStands, ScheduleStands
<1>7. CASE RegisterAdd(r)
    <2>1. live' = {[id |-> lastId + 1, sched |-> edit[r].sched]} /\ lastId + 1 # 0
        BY <1>7, <1>a DEF RegisterAdd, EditAt, EntryStands
    <2> QED
        BY <1>0, <1>7, <2>1, EditFields DEF RegisterAdd, EditAt, EntryStands, ScheduleStands
<1>8. CASE RegisterStore(r)
    <2>1. edit[r].sched \in Sched
        BY <1>0, <1>8 DEF RegisterStore, EditAt, SchedulesValid
    <2> QED
        BY <1>0, <1>8, <2>1, EditFields DEF RegisterStore, EditAt, EntryStands, ScheduleStands, OneEntry
<1>9. CASE UnregisterTake(r)
    <2>1. UNCHANGED <<live, stack>> /\ edit[r].pc = "take"
        BY <1>9 DEF UnregisterTake, EditAt
    <2>2. CASE registry = 0
        <3>1. edit'[r] = NoEdit /\ registry' = registry
            BY <1>0, <1>9, <2>2, EditFields DEF UnregisterTake
        <3> QED
            BY <2>1, <2>2, <3>1 DEF EntryStands, ScheduleStands, OneEntry
    <2>3. CASE registry # 0
        <3>1. edit'[r].pc = "drop" /\ edit'[r].id = registry /\ registry' = 0
            BY <1>0, <1>9, <2>3, EditFields DEF UnregisterTake
        <3> QED
            BY <2>1, <2>3, <3>1 DEF EntryStands, ScheduleStands, OneEntry
    <2> QED
        BY <2>2, <2>3
<1>10. CASE UnregisterRemove(r)
    <2>1. live' = {} /\ UNCHANGED <<registry, stack>> /\ edit[r].pc = "drop" /\ edit'[r] = NoEdit
        BY <1>0, <1>10, EditFields DEF UnregisterRemove, EditAt, EntryStands, OneEntry, Remove
    <2> QED
        BY <2>1 DEF EntryStands, ScheduleStands
<1>11. ASSUME NEW p \in Poll, Tick(p) \/ ForcePoll(p) \/ PollStep(p)
       PROVE  EntryStands(edit[r])' /\ ScheduleStands(edit[r])'
    <2>1. UNCHANGED <<live, registry, edit>>
        BY <1>11 DEF Tick, ForcePoll, PollStep, PollLoad, LsRemoteSha, PollFails, RecordPoll, QueuePolledDeploy, cronVars
    <2>2. UNCHANGED stack \/ RecordPoll(p)
        BY <1>11 DEF Tick, ForcePoll, PollStep, PollLoad, LsRemoteSha, PollFails, QueuePolledDeploy
    <2>3. stack'.exists => stack.exists /\ stack'.trigger = stack.trigger /\ stack'.sched = stack.sched
        BY <1>a, <2>2 DEF RecordPoll, StackRow
    <2> QED
        BY <1>1, <2>1, <2>3
<1>12. CASE DeleteStack
    BY <1>1, <1>12 DEF DeleteStack, cronVars
<1>13. CASE PushCommit
    BY <1>1, <1>13 DEF PushCommit, cronVars
<1>14. CASE PollRestart
    <2>1. edit'[r] = NoEdit /\ stack' = stack
        BY <1>0, <1>14 DEF PollRestart
    <2>2. stack.exists /\ stack.trigger = "polling" => stack.sched \in Sched /\ stack.sched # NoSched
        BY <1>0, PollScheduleAssumption DEF SchedulesValid
    <2>3. CASE stack.exists /\ stack.trigger = "polling"
        BY <1>14, <2>1, <2>2, <2>3 DEF PollRestart, EntryStands, ScheduleStands, OneEntry
    <2>4. CASE ~ (stack.exists /\ stack.trigger = "polling")
        BY <1>14, <2>1, <2>4 DEF PollRestart, EntryStands, ScheduleStands
    <2> QED
        BY <2>3, <2>4
<1>15. CASE UNCHANGED scheduleVars
    BY <1>1, <1>15 DEF scheduleVars
<1> QED
    BY <1>2, <1>3, <1>4, <1>5, <1>6, <1>7, <1>8, <1>9, <1>10, <1>11, <1>12, <1>13, <1>14, <1>15
    DEF PollNext, EditStep

LEMMA RegisteredStands == EditsApart => (PollSpec => []RegisteredApart)
<1> SUFFICES ASSUME EditsApart PROVE PollSpec => []RegisteredApart
    OBVIOUS
<1>1. PollTyped /\ RegisteredApart /\ [PollNext]_scheduleVars => RegisteredApart'
    BY RegisteredStep DEF EditsApart, RegisteredApart
<1> QED
    BY <1>1, InitRegistered, PollTypedStands, PTL DEF PollSpec

(* "Live immediately, no controller restart needed": where the edits of a   *)
(* stack come one at a time, a polling stack has exactly one cron entry,    *)
(* the registered one, on the schedule its row shows, whatever polls,       *)
(* deletions, re-creations and restarts fall between the statements of      *)
(* registerPolling and unregisterPolling, for any schedules and polls.      *)
THEOREM PollingStaysScheduled == EditsApart => (PollSpec => []PollingIsScheduled)
<1> SUFFICES ASSUME EditsApart PROVE PollSpec => []PollingIsScheduled
    OBVIOUS
<1>1. RegisteredApart => PollingIsScheduled
    BY DEF EditsApart, RegisteredApart, ScheduleStands, PollingIsScheduled, Quiet, EditAt
<1> QED
    BY <1>1, RegisteredStands, PTL

(* pollRegistry's "instead of accumulating a duplicate entry on every edit" *)
(* is true where edits come one at a time, deleted stacks included; two at  *)
(* once are the counterexample PollScheduleUnscheduled.cfg finds.           *)
THEOREM OneEntryApart == EditsApart => (PollSpec => []NoDuplicateEntry)
<1> SUFFICES ASSUME EditsApart PROVE PollSpec => []NoDuplicateEntry
    OBVIOUS
<1>1. RegisteredApart => NoDuplicateEntry
    <2> SUFFICES ASSUME RegisteredApart, Quiet PROVE Cardinality(live) <= 1
        BY DEF NoDuplicateEntry
    <2>1. live = {} \/ \E e : live = {e}
        BY DEF EditsApart, RegisteredApart, EntryStands, OneEntry, Quiet, EditAt
    <2>2. Cardinality(live) = 0 \/ Cardinality(live) = 1
        BY <2>1, FS_EmptySet, FS_Singleton
    <2> QED
        BY <2>2
<1> QED
    BY <1>1, RegisteredStands, PTL

(* Where nothing is deleted.                                                *)
LEMMA UnscheduledStep ==
    ASSUME PollTyped, NEW r, Editor = {r}, EntryStands(edit[r]), ScheduleStands(edit[r]),
           UnscheduledStands(edit[r]), [PollNext]_scheduleVars, [~ DeleteStack]_scheduleVars
    PROVE  UnscheduledStands(edit[r])'
<1>0. PollTypeOK /\ SchedulesValid /\ EntriesSuffice /\ r \in Editor
    BY DEF PollTyped
<1> USE BlankPolling
<1>a. edit \in [Editor -> EditState] /\ stack \in StackRow /\ edit[r].trigger \in {"polling", "manual"}
    BY <1>0 DEF PollTypeOK, EditState
<1>1. ASSUME UNCHANGED <<live, edit>>, stack'.exists = stack.exists, stack'.trigger = stack.trigger
      PROVE  UnscheduledStands(edit[r])'
    BY <1>1 DEF UnscheduledStands
<1>2. CASE EditArrives(r)
    <2>1. edit[r].pc = "idle" /\ UNCHANGED live
        BY <1>2 DEF EditArrives, CreateStack, LoadForSchedule, LoadForTrigger, EditBegins, EditAt, cronVars
    <2>2. ASSUME NEW t \in {"polling", "manual"}, NEW s \in Sched, CreateStack(r, t, s)
          PROVE  UnscheduledStands(edit[r])'
        <3> DEFINE x == IF t = "polling" THEN [pc |-> "read", trigger |-> t, sched |-> s, id |-> 0] ELSE NoEdit
        <3>1. edit'[r] = x
            BY <1>0, <1>a, <2>2 DEF CreateStack, EditBegins
        <3>2. x.pc \in {"read", "idle"} /\ (x.pc = "read" => t = "polling")
            OBVIOUS
        <3> HIDE DEF x
        <3>3. stack'.trigger = t /\ stack'.exists /\ ~ stack.exists
            BY <2>2 DEF CreateStack
        <3> QED
            BY <2>1, <3>1, <3>2, <3>3 DEF UnscheduledStands
    <2>3. ASSUME NEW x, EditBegins(r, x), UNCHANGED stack, stack.exists,
                 x.pc = "trigger" \/ (x.pc = "schedule" /\ stack.trigger = "polling")
          PROVE  UnscheduledStands(edit[r])'
        <3>1. edit'[r] = x
            BY <1>0, <1>a, <2>3 DEF EditBegins
        <3> QED
            BY <2>1, <2>3, <3>1 DEF UnscheduledStands
    <2>4. ASSUME NEW s \in Sched, LoadForSchedule(r, s) PROVE UnscheduledStands(edit[r])'
        BY <2>3, <2>4 DEF LoadForSchedule
    <2>5. ASSUME NEW t \in {"polling", "manual"}, LoadForTrigger(r, t) PROVE UnscheduledStands(edit[r])'
        BY <2>3, <2>5 DEF LoadForTrigger
    <2> QED
        BY <1>2, <2>2, <2>4, <2>5 DEF EditArrives
<1>3. CASE SetPollSchedule(r)
    <2>1. stack'.exists = stack.exists /\ stack'.trigger = stack.trigger
        BY <1>3, <1>a DEF SetPollSchedule, StackRow
    <2> QED
        BY <1>0, <1>3, <2>1, EditFields DEF SetPollSchedule, EditAt, UnscheduledStands, cronVars
<1>4. CASE UpdateStackTrigger(r)
    <2>1. /\ stack'.exists = stack.exists /\ edit[r].pc = "trigger"
          /\ stack.exists => stack'.trigger = edit[r].trigger
        BY <1>4, <1>a DEF UpdateStackTrigger, EditAt, StackRow
    <2> QED
        BY <1>0, <1>4, <1>a, <2>1, EditFields DEF UpdateStackTrigger, UnscheduledStands, cronVars
<1>5. CASE RegisterRead(r)
    BY <1>0, <1>5, EditFields DEF RegisterRead, EditAt, UnscheduledStands, cronVars
<1>6. CASE RegisterRemove(r)
    BY <1>0, <1>6, EditFields DEF RegisterRemove, EditAt, UnscheduledStands
<1>7. CASE RegisterAdd(r)
    BY <1>0, <1>7, EditFields DEF RegisterAdd, EditAt, UnscheduledStands
<1>8. CASE RegisterStore(r)
    BY <1>0, <1>8, EditFields DEF RegisterStore, EditAt, UnscheduledStands
<1>9. CASE UnregisterTake(r)
    <2>1. UNCHANGED <<live, stack>> /\ edit[r].pc = "take"
        BY <1>9 DEF UnregisterTake, EditAt
    <2>2. CASE registry = 0
        <3>1. edit'[r] = NoEdit /\ live = {}
            BY <1>0, <1>9, <2>1, <2>2, EditFields DEF UnregisterTake, EntryStands
        <3> QED
            BY <2>1, <3>1 DEF UnscheduledStands
    <2>3. CASE registry # 0
        <3>1. edit'[r].pc = "drop"
            BY <1>0, <1>9, <2>3, EditFields
        <3> QED
            BY <2>1, <3>1 DEF UnscheduledStands
    <2> QED
        BY <2>2, <2>3
<1>10. CASE UnregisterRemove(r)
    <2>1. live' = {} /\ UNCHANGED stack /\ edit'[r] = NoEdit
        BY <1>0, <1>10, EditFields DEF UnregisterRemove, EditAt, EntryStands, OneEntry, Remove
    <2> QED
        BY <2>1 DEF UnscheduledStands
<1>11. ASSUME NEW p \in Poll, Tick(p) \/ ForcePoll(p) \/ PollStep(p) PROVE UnscheduledStands(edit[r])'
    <2>1. UNCHANGED <<live, edit>>
        BY <1>11 DEF Tick, ForcePoll, PollStep, PollLoad, LsRemoteSha, PollFails, RecordPoll, QueuePolledDeploy, cronVars
    <2>2. UNCHANGED stack \/ RecordPoll(p)
        BY <1>11 DEF Tick, ForcePoll, PollStep, PollLoad, LsRemoteSha, PollFails, QueuePolledDeploy
    <2>3. stack'.exists = stack.exists /\ stack'.trigger = stack.trigger
        BY <1>a, <2>2 DEF RecordPoll, StackRow
    <2> QED
        BY <1>1, <2>1, <2>3
<1>12. CASE PushCommit
    BY <1>1, <1>12 DEF PushCommit, cronVars
<1>13. CASE PollRestart
    <2>1. edit'[r] = NoEdit /\ stack' = stack
        BY <1>0, <1>13 DEF PollRestart
    <2>2. ~ (stack.exists /\ stack.trigger = "polling") => live' = {}
        BY <1>13 DEF PollRestart
    <2> QED
        BY <2>1, <2>2 DEF UnscheduledStands
<1>14. CASE UNCHANGED scheduleVars
    BY <1>1, <1>14 DEF scheduleVars
<1>15. CASE DeleteStack
    <2>1. UNCHANGED scheduleVars
        BY <1>15
    <2> QED
        BY <1>14, <2>1
<1> QED
    BY <1>2, <1>3, <1>4, <1>5, <1>6, <1>7, <1>8, <1>9, <1>10, <1>11, <1>12, <1>13, <1>14, <1>15
    DEF PollNext, EditStep

(* "so a stale schedule can't keep firing ... after the UI says the stack   *)
(* is no longer polling": where edits come one at a time and stacks are not *)
(* deleted, a stack whose trigger is not polling has no cron entry.  With a *)
(* deletion PollScheduleStale.cfg finds the counterexample: it alone leaves *)
(* schedules behind.                                                        *)
THEOREM StaleOnlyByDeletion == EditsApart => (PollSpec /\ NeverDeleted => []NoStaleSchedule)
<1> SUFFICES ASSUME EditsApart PROVE PollSpec /\ NeverDeleted => []NoStaleSchedule
    OBVIOUS
<1>1. /\ PollTyped /\ RegisteredApart /\ UnscheduledApart
      /\ [PollNext]_scheduleVars /\ [~ DeleteStack]_scheduleVars
      => UnscheduledApart'
    BY UnscheduledStep DEF EditsApart, RegisteredApart, UnscheduledApart
<1>2. UnscheduledApart => NoStaleSchedule
    BY DEF EditsApart, UnscheduledApart, UnscheduledStands, NoStaleSchedule, Quiet, EditAt
<1> QED
    BY <1>1, <1>2, InitRegistered, PollTypedStands, RegisteredStands, PTL DEF PollSpec, NeverDeleted

LEMMA BaselineStep ==
    ASSUME PollTyped, BaselineStands, [PollNext]_scheduleVars,
           [DeleteStack => \A p \in Poll : poll[p].pc = "idle"]_scheduleVars
    PROVE  /\ BaselineStands'
           /\ [\A c \in queued' \ queued : stack.exists => based]_scheduleVars
<1>0. PollTypeOK
    BY DEF PollTyped
<1>a. poll \in [Poll -> PollState] /\ stack \in StackRow /\ based \in BOOLEAN
    BY <1>0 DEF PollTypeOK
<1> USE BlankPolling
<1>1. ASSUME UNCHANGED <<poll, based, queued>>, stack'.sha = stack.sha, stack'.exists = stack.exists
      PROVE  /\ BaselineStands' /\ [\A c \in queued' \ queued : stack.exists => based]_scheduleVars
    BY <1>1 DEF BaselineStands
<1>2. ASSUME NEW r \in Editor, EditArrives(r) \/ EditStep(r)
      PROVE  /\ BaselineStands' /\ [\A c \in queued' \ queued : stack.exists => based]_scheduleVars
    <2>1. UNCHANGED <<poll, queued>>
        BY <1>2 DEF EditArrives, CreateStack, LoadForSchedule, LoadForTrigger, EditStep, SetPollSchedule,
                    UpdateStackTrigger, RegisterRead, RegisterRemove, RegisterAdd, RegisterStore,
                    UnregisterTake, UnregisterRemove, pollVars
    <2>2. ASSUME NEW t \in {"polling", "manual"}, NEW s \in Sched, CreateStack(r, t, s)
          PROVE  BaselineStands'
        <3>1. ~ stack.exists /\ stack'.sha = 0
            BY <2>2 DEF CreateStack
        <3> QED
            BY <2>1, <3>1 DEF BaselineStands
    <2>3. UNCHANGED <<stack, based>> \/ SetPollSchedule(r) \/ UpdateStackTrigger(r)
             \/ \E t \in {"polling", "manual"}, s \in Sched : CreateStack(r, t, s)
        BY <1>2 DEF EditArrives, LoadForSchedule, LoadForTrigger, EditStep, RegisterRead, RegisterRemove,
                    RegisterAdd, RegisterStore, UnregisterTake, UnregisterRemove, pollVars
    <2>4. CASE SetPollSchedule(r) \/ UpdateStackTrigger(r)
        <3>1. stack'.sha = stack.sha /\ stack'.exists = stack.exists /\ UNCHANGED based
            BY <1>a, <2>4 DEF SetPollSchedule, UpdateStackTrigger, StackRow, pollVars
        <3> QED
            BY <1>1, <2>1, <3>1
    <2> QED
        BY <1>1, <2>1, <2>2, <2>3, <2>4
<1>3. ASSUME NEW p \in Poll, Tick(p) \/ ForcePoll(p) \/ PollStep(p)
      PROVE  /\ BaselineStands' /\ [\A c \in queued' \ queued : stack.exists => based]_scheduleVars
    <2>1. ASSUME PollOver(p) PROVE poll'[p].pc = "idle" /\ \A q \in Poll \ {p} : poll'[q] = poll[q]
        BY <1>a, <2>1 DEF PollOver
    <2>2. CASE Tick(p) \/ ForcePoll(p)
        <3>1. poll'[p].pc = "load" /\ \A q \in Poll \ {p} : poll'[q] = poll[q]
            BY <1>a, <2>2 DEF Tick, ForcePoll, PollState
        <3> QED
            BY <2>2, <3>1 DEF Tick, ForcePoll, BaselineStands
    <2>3. CASE PollLoad(p)
        <3>1. UNCHANGED <<stack, based, queued>>
            BY <2>3 DEF PollLoad
        <3>2. CASE stack.exists
            <4>1. /\ poll'[p].pc = "list" /\ poll'[p].seen = stack.sha
                  /\ \A q \in Poll \ {p} : poll'[q] = poll[q]
                BY <1>a, <2>3, <3>2 DEF PollLoad, PollState
            <4> QED
                BY <3>1, <3>2, <4>1 DEF BaselineStands
        <3>3. CASE ~ stack.exists
            BY <2>1, <2>3, <3>1, <3>3 DEF PollLoad, BaselineStands
        <3> QED
            BY <3>2, <3>3
    <2>4. CASE LsRemoteSha(p)
        <3>1. /\ poll'[p].pc = "record" /\ poll'[p].seen = poll[p].seen /\ poll[p].pc = "list"
              /\ \A q \in Poll \ {p} : poll'[q] = poll[q]
            BY <1>a, <2>4 DEF LsRemoteSha, PollState
        <3> QED
            BY <2>4, <3>1 DEF LsRemoteSha, BaselineStands
    <2>5. CASE PollFails(p)
        BY <2>1, <2>5 DEF PollFails, BaselineStands
    <2>6. CASE RecordPoll(p)
        <3>1. poll[p].pc = "record" /\ stack.exists /\ (poll[p].seen # 0 => based)
            BY <2>6 DEF RecordPoll, BaselineStands
        <3>2. based' /\ stack'.exists /\ UNCHANGED queued
            BY <1>a, <2>6, <3>1 DEF RecordPoll, StackRow
        <3>3. /\ poll'[p].pc = "queue" => poll'[p].seen # 0
              /\ \A q \in Poll \ {p} : poll'[q] = poll[q]
            <4>1. CASE poll[p].sha = poll[p].seen \/ poll[p].seen = 0
                BY <2>1, <2>6, <4>1 DEF RecordPoll
            <4>2. CASE ~ (poll[p].sha = poll[p].seen \/ poll[p].seen = 0)
                BY <1>a, <2>6, <4>2 DEF RecordPoll, PollState
            <4> QED
                BY <4>1, <4>2
        <3> QED
            BY <3>2, <3>3 DEF BaselineStands
    <2>7. CASE QueuePolledDeploy(p)
        <3>1. based
            BY <2>7 DEF QueuePolledDeploy, BaselineStands
        <3> QED
            BY <2>1, <2>7, <3>1 DEF QueuePolledDeploy, BaselineStands
    <2> QED
        BY <1>3, <2>2, <2>3, <2>4, <2>5, <2>6, <2>7 DEF PollStep
<1>4. CASE DeleteStack
    <2>1. UNCHANGED scheduleVars \/ \A p \in Poll : poll[p].pc = "idle"
        BY <1>4
    <2>2. stack'.sha = 0 /\ UNCHANGED <<poll, based, queued>>
        BY <1>4 DEF DeleteStack, NoStackRow, pollVars
    <2> QED
        BY <1>1, <2>1, <2>2 DEF BaselineStands, scheduleVars
<1>5. CASE PushCommit
    BY <1>1, <1>5 DEF PushCommit
<1>6. CASE PollRestart
    <2>1. \A p \in Poll : poll'[p].pc = "idle"
        BY <1>6 DEF PollRestart
    <2> QED
        BY <1>6, <2>1 DEF PollRestart, BaselineStands
<1>7. CASE UNCHANGED scheduleVars
    BY <1>1, <1>7 DEF scheduleVars
<1> QED
    BY <1>2, <1>3, <1>4, <1>5, <1>6, <1>7 DEF PollNext

(* "The very first poll only establishes the baseline; only a commit seen   *)
(* after that baseline triggers a deploy": true for any number of polls and *)
(* edits at once, failing polls and restarts, where a stack is deleted only *)
(* while no poll of it is under way.  PollScheduleStale.cfg, given          *)
(* BaselineFirst, shows what a poll that outlives its stack does.           *)
THEOREM BaselineComesFirst == PollSpec /\ DeletedBetweenPolls => BaselineFirst
<1>1. /\ PollTyped /\ BaselineStands /\ [PollNext]_scheduleVars
      /\ [DeleteStack => \A p \in Poll : poll[p].pc = "idle"]_scheduleVars
      => /\ BaselineStands' /\ [\A c \in queued' \ queued : stack.exists => based]_scheduleVars
    BY BaselineStep
<1> QED
    BY <1>1, InitRegistered, PollTypedStands, PTL DEF PollSpec, DeletedBetweenPolls, BaselineFirst

-----------------------------------------------------------------------------
(* The brake on failed sign-ins.                                            *)

(* The 64 bits of a Duration hold the lock-out up to failure 36.            *)
LEMMA LockoutFits ==
    ASSUME NEW f \in LoginFreeAttempts + 1 .. LastThatFits
    PROVE  LockoutAfter(f) \in Nat /\ LockoutAfter(f) > 0
<1>0. f \in 6 .. 36
    BY DEF LoginFreeAttempts, LastThatFits
<1>1. CASE f <= 11
    <2> DEFINE n == f - LoginFreeAttempts - 1
    <2>1. n \in 0 .. 5 /\ n < 6
        BY <1>0, <1>1 DEF LoginFreeAttempts
    <2>2. LockoutAfter(f) = LoginLockoutBase * 2 ^ n
        BY <2>1 DEF LockoutAfter
    <2> HIDE DEF n
    <2>3. 2 ^ 0 = 1 /\ 2 ^ 1 = 2 /\ 2 ^ 2 = 4 /\ 2 ^ 3 = 8 /\ 2 ^ 4 = 16 /\ 2 ^ 5 = 32
        OBVIOUS
    <2>4. 2 ^ n \in {1, 2, 4, 8, 16, 32}
        <3>1. n = 0 \/ n = 1 \/ n = 2 \/ n = 3 \/ n = 4 \/ n = 5
            BY <2>1
        <3> QED
            BY <2>3, <3>1
    <2>5. \A k \in {1, 2, 4, 8, 16, 32} : 5 * k \in Nat /\ 5 * k > 0
        OBVIOUS
    <2> QED
        BY <2>2, <2>4, <2>5 DEF LoginLockoutBase
<1>2. CASE f > 11
    <2>1. ~(f - LoginFreeAttempts - 1 < 6) /\ f - LoginFreeAttempts - 1 + 9 + 24 < 64
        BY <1>0, <1>2 DEF LoginFreeAttempts
    <2>2. LockoutAfter(f) = LoginLockoutCap
        BY <2>1 DEF LockoutAfter
    <2> QED
        BY <2>2 DEF LoginLockoutCap
<1> QED
    BY <1>0, <1>1, <1>2

(* As long as the lock-out fits, whoever guessed wrong past the free        *)
(* attempts is not being verified again, and is locked out.                 *)
GuesserWaits ==
    /\ failures \in Nat /\ lockedFor \in Nat
    /\ guesses \in [LoginReq -> Nat] /\ logins \in [LoginReq -> {"idle", "verifying"}]
    /\ failures <= LastThatFits =>
          \A r \in LoginReq :
             guesses[r] = 0 \/ (guesses[r] = 1 /\ logins[r] = "idle" /\ lockedFor > 0)

LEMMA FailureWaits ==
    ASSUME GuesserWaits, NEW r \in LoginReq, NEW stale \in BOOLEAN, RecordFailure(r, stale)
    PROVE  GuesserWaits'
<1>0. CountFailure(r, stale) /\ failures \in Nat
      /\ lockedFor' = IF failures' > LoginFreeAttempts THEN LockoutAfter(failures') ELSE lockedFor
    BY DEF RecordFailure, GuesserWaits
<1>1. /\ logins[r] = "verifying" /\ failures' = (IF stale THEN 1 ELSE failures + 1)
      /\ failures' \in Nat /\ logins' = [logins EXCEPT ![r] = "idle"]
    BY <1>0 DEF CountFailure
<1>2. lockedFor' \in Nat
    <2>1. CASE failures' <= LoginFreeAttempts
        BY <1>0, <1>1, <2>1 DEF GuesserWaits, LoginFreeAttempts
    <2>2. CASE failures' \in LoginFreeAttempts + 1 .. LastThatFits
        BY <1>0, <2>2, LockoutFits DEF LoginFreeAttempts, LastThatFits
    <2>3. CASE failures' > LastThatFits
        <3>1. ~(failures' - LoginFreeAttempts - 1 < 6) /\ failures' > LoginFreeAttempts
            BY <1>1, <2>3 DEF LoginFreeAttempts, LastThatFits
        <3>2. lockedFor' \in {LoginLockoutCap, 0}
            BY <1>0, <3>1 DEF LockoutAfter
        <3> QED
            BY <3>2 DEF LoginLockoutCap
    <2> QED
        BY <1>1, <2>1, <2>2, <2>3 DEF LoginFreeAttempts, LastThatFits
<1>3. CASE stale
    BY <1>0, <1>1, <1>2, <1>3 DEF GuesserWaits, CountFailure, NoGuess
<1>4. CASE ~stale /\ failures' <= LoginFreeAttempts
    <2>1. guesses' = guesses /\ lockedFor' = lockedFor /\ failures <= LastThatFits
        BY <1>0, <1>1, <1>4 DEF CountFailure, LoginFreeAttempts, LastThatFits
    <2> QED
        BY <1>1, <2>1 DEF GuesserWaits
<1>5. CASE ~stale /\ failures' > LoginFreeAttempts
    <2>1. guesses' = [guesses EXCEPT ![r] = @ + 1]
        BY <1>0, <1>5 DEF CountFailure
    <2>2. ASSUME failures' <= LastThatFits
          PROVE  /\ lockedFor' > 0 /\ guesses[r] = 0
                 /\ \A q \in LoginReq : guesses[q] = 0 \/ (guesses[q] = 1 /\ logins[q] = "idle")
        <3>1. failures' \in LoginFreeAttempts + 1 .. LastThatFits /\ failures <= LastThatFits
            BY <1>0, <1>1, <1>5, <2>2 DEF LoginFreeAttempts, LastThatFits
        <3>2. lockedFor' > 0
            BY <1>0, <1>5, <3>1, LockoutFits
        <3> QED
            BY <1>1, <3>1, <3>2 DEF GuesserWaits
    <2> QED
        BY <1>1, <1>2, <2>1, <2>2 DEF GuesserWaits
<1> QED
    BY <1>1, <1>3, <1>4, <1>5 DEF LoginFreeAttempts

LEMMA LimiterStep == GuesserWaits /\ [LimiterNext]_limiterVars => GuesserWaits'
<1> SUFFICES ASSUME GuesserWaits, [LimiterNext]_limiterVars PROVE GuesserWaits'
    OBVIOUS
<1>1. ASSUME NEW r \in LoginReq, Admit(r) PROVE GuesserWaits'
    BY <1>1 DEF Admit, GuesserWaits
<1>2. ASSUME NEW r \in LoginReq, Clear(r) PROVE GuesserWaits'
    BY <1>2 DEF Clear, GuesserWaits, NoGuess
<1>3. ASSUME NEW r \in LoginReq, VerifyFails(r) PROVE GuesserWaits'
    BY <1>3 DEF VerifyFails, GuesserWaits
<1>4. CASE LockoutPasses
    BY <1>4 DEF LockoutPasses, GuesserWaits, NoGuess
<1>5. CASE LimiterRestart
    BY <1>5 DEF LimiterRestart, GuesserWaits, NoGuess
<1>6. CASE UNCHANGED limiterVars
    BY <1>6 DEF limiterVars, GuesserWaits
<1> QED
    BY <1>1, <1>2, <1>3, <1>4, <1>5, <1>6, FailureWaits DEF LimiterNext

(* Past the free attempts nobody has a second wrong password verified       *)
(* without waiting out a lock-out, for any number of sign-ins at once, those*)
(* that loginHandler let through before the lock-out began included, and    *)
(* wherever lock-outs pass, somebody else signs in or the controller        *)
(* restarts; up to failure 36, where the duration still fits.               *)
THEOREM GuessersWait == LimiterSpec => []OneGuessPerLockout
<1>1. LimiterInit => GuesserWaits
    BY DEF LimiterInit, GuesserWaits, NoGuess
<1>2. GuesserWaits => OneGuessPerLockout
    BY DEF GuesserWaits, OneGuessPerLockout, GuessingIsSlow
<1> QED
    BY <1>1, <1>2, LimiterStep, PTL DEF LimiterSpec
=============================================================================
