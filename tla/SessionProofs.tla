--------------------------- MODULE SessionProofs ---------------------------
(***************************************************************************)
(* Theorems about who may act and what is said of it: Accounts, SignIn and *)
(* Conversations, each in a part of its own, and the platform they are in. *)
(***************************************************************************)
EXTENDS MCPlatform, SequenceTheorems, FiniteSetTheorems, TLAPS

(***************************************************************************)
(* Accounts.  A link is made for a member with a membership; one that sets *)
(* a password, for a member with an identity.  An account never loses its  *)
(* password, so every session and every request has one behind it.         *)
(***************************************************************************)
LinksFit ==
  \A t \in Links :
    LET m == link[t].for IN
    Has(m) /\ member[m].status # "none" /\ (link[t].kind # "link" => member[m].identity # "none")

IdentityFits == \A m \in Members : Has(m) /\ member[m].status = "none" => member[m].identity = "none"

PasswordsFit ==
  /\ \A s \in SessionRows : session[s] # None => password[Account(session[s].for)] # 0
  /\ \A b \in Browsers : request[b] # None => password[Account(request[b].for)] # 0

AccountsInductive == AccountsSound /\ LinksFit /\ IdentityFits /\ PasswordsFit

LEMMA AccountsInductiveInit == ASSUME AccountsInit PROVE AccountsInductive
<1>1. AccountsTypeOK
  BY AccountBounds DEF AccountsInit, AccountsTypeOK
<1> QED
  BY <1>1 DEF AccountsInit, AccountsInductive, AccountsSound, SessionsBacked, OneOpenLink, OneIdentity,
              LinksFit, IdentityFits, PasswordsFit, Links, Has

\* What the type invariant says of single entries.
LEMMA AccountTypes ==
  ASSUME AccountsTypeOK
  PROVE  /\ \A m \in Members : Has(m) => member[m] \in Member
         /\ \A m \in Members : Account(m) \in AllAccounts
         /\ \A t \in Links : link[t] \in Link /\ link[t].for \in Members
         /\ \A s \in SessionRows : session[s] # None => session[s] \in Session
         /\ \A b \in Browsers : request[b] # None => request[b] \in RequestRecord
         /\ Len(link) \in Nat
<1>1. ASSUME NEW t \in Links PROVE link[t] \in Link
  BY ElementOfSeq DEF AccountsTypeOK, Links
<1> QED BY <1>1, LenProperties DEF AccountsTypeOK, Has, Account, AllAccounts, Link

LEMMA FunctionSeq ==
  ASSUME NEW S, NEW n \in Nat, NEW f \in [1..n -> S]
  PROVE  f \in Seq(S) /\ Len(f) = n
<1>1. f \in Seq(S)
  BY SeqDef
<1> QED BY <1>1, LenProperties

\* A row of members replaced.
LEMMA MemberRow ==
  ASSUME AccountsTypeOK, NEW m \in Members, NEW row \in Member, member' = [member EXCEPT ![m] = row]
  PROVE  /\ member' \in [Members -> Member \union {None}]
         /\ member'[m] = row /\ Has(m)'
         /\ \A n \in Members \ {m} : member'[n] = member[n] /\ (Has(n)' <=> Has(n))
  BY AccountNames DEF AccountsTypeOK, Has

LEMMA RevokedRows ==
  ASSUME AccountsTypeOK, NEW m \in Members
  PROVE  /\ revokeSessions(m) \in [SessionRows -> Session \union {None}]
         /\ \A s \in SessionRows : revokeSessions(m)[s] # None => revokeSessions(m)[s] = session[s] /\ session[s].for # m
  BY DEF AccountsTypeOK, revokeSessions

LEMMA SpentLinks ==
  ASSUME AccountsTypeOK, NEW m \in Members, NEW kinds
  PROVE  /\ Spent(m, kinds) \in Seq(Link) /\ Len(Spent(m, kinds)) = Len(link)
         /\ \A t \in Links : /\ Spent(m, kinds)[t].for = link[t].for /\ Spent(m, kinds)[t].kind = link[t].kind
                             /\ Spent(m, kinds)[t].open <=> link[t].open /\ ~(link[t].for = m /\ link[t].kind \in kinds)
                             /\ ~link[t].open => Spent(m, kinds)[t] = link[t]
<1> DEFINE after(t) == IF link[t].for = m /\ link[t].kind \in kinds THEN [link[t] EXCEPT !.open = FALSE] ELSE link[t]
<1>1. ASSUME NEW t \in Links
      PROVE  /\ after(t) \in Link /\ after(t).for = link[t].for /\ after(t).kind = link[t].kind
             /\ after(t).open <=> link[t].open /\ ~(link[t].for = m /\ link[t].kind \in kinds)
             /\ ~link[t].open => after(t) = link[t]
  <2>1. link[t] \in Link
    BY <1>1, AccountTypes
  <2>2. CASE link[t].for = m /\ link[t].kind \in kinds
    <3>1. after(t) = [link[t] EXCEPT !.open = FALSE]
      BY <2>2
    <3>2. ~link[t].open => after(t) = link[t]
      BY ONLY <2>1, <3>1 DEF Link
    <3> QED BY <2>1, <2>2, <3>1, <3>2 DEF Link
  <2>3. CASE ~(link[t].for = m /\ link[t].kind \in kinds)
    <3>1. after(t) = link[t]
      BY <2>3
    <3> QED BY <2>1, <2>3, <3>1
  <2> QED BY <2>2, <2>3
<1>2. Spent(m, kinds) = [t \in Links |-> after(t)]
  BY DEF Spent
<1> HIDE DEF after
<1>3. Spent(m, kinds) \in [1..Len(link) -> Link]
  BY <1>1, <1>2 DEF Links
<1>4. Spent(m, kinds) \in Seq(Link) /\ Len(Spent(m, kinds)) = Len(link)
  BY <1>3, AccountTypes, FunctionSeq
<1> QED BY <1>1, <1>2, <1>4

LEMMA LinkRow ==
  ASSUME AccountsTypeOK, NEW t \in Links, NEW row \in Link, link' = [link EXCEPT ![t] = row]
  PROVE  /\ link' \in Seq(Link) /\ Len(link') = Len(link)
         /\ \A u \in Links : link'[u] = IF u = t THEN row ELSE link[u]
  BY ExceptSeq DEF Links, AccountsTypeOK

LEMMA IssuedLinks ==
  ASSUME NEW links \in Seq(Link), NEW kind \in {"activate", "reset", "link"}, NEW m \in Members
  PROVE  /\ Issued(links, kind, m) \in Seq(Link) /\ Len(links) \in Nat /\ Len(Issued(links, kind, m)) = Len(links) + 1
         /\ \A t \in 1..Len(links) : Issued(links, kind, m)[t] = links[t]
         /\ Issued(links, kind, m)[Len(links) + 1] = [kind |-> kind, for |-> m, open |-> TRUE, late |-> FALSE]
<1>1. [kind |-> kind, for |-> m, open |-> TRUE, late |-> FALSE] \in Link
  BY DEF Link
<1> QED BY <1>1, AppendProperties, LenProperties DEF Issued

-----------------------------------------------------------------------------
\* What administrators do to a membership.
LEMMA MemberSteps ==
  ASSUME AccountsInductive, NEW m \in Members,
         CreateEmployee(m) \/ disableMember(m) \/ suspendMembership(m) \/ reactivateMembership(m)
         \/ deactivateEmployee(m) \/ reactivateEmployee(m)
  PROVE  AccountsInductive'
<1> DEFINE row == member'[m]
<1>1. /\ row \in Member /\ member' = [member EXCEPT ![m] = row]
      /\ Has(m) => (row.status = "none" => member[m].status = "none")
      /\ Has(m) => (row.identity = "none" <=> member[m].identity = "none")
      /\ ~Has(m) => row.status = "none" /\ row.identity = "none"
  <2>1. member \in [Members -> Member \union {None}] /\ (Has(m) => member[m] \in Member)
    BY AccountTypes DEF AccountsInductive, AccountsSound, AccountsTypeOK
  <2>2. CASE CreateEmployee(m)
    BY <2>1, <2>2 DEF CreateEmployee, Member
  <2>3. CASE Has(m) /\ member' = [member EXCEPT ![m] = row] /\ row \in Member
             /\ row.status \in {member[m].status, "suspended", "active"}
             /\ (row.identity = "none" <=> member[m].identity = "none")
    BY <2>3
  <2>4. CASE disableMember(m)
    BY <2>1, <2>3, <2>4 DEF disableMember, Member
  <2>5. CASE suspendMembership(m)
    BY <2>1, <2>3, <2>5 DEF suspendMembership, Member
  <2>6. CASE reactivateMembership(m)
    BY <2>1, <2>3, <2>6 DEF reactivateMembership, Member
  <2>7. CASE deactivateEmployee(m)
    BY <2>1, <2>3, <2>7 DEF deactivateEmployee, Member
  <2>8. CASE reactivateEmployee(m)
    BY <2>1, <2>3, <2>8 DEF reactivateEmployee, Member
  <2> QED BY <2>2, <2>4, <2>5, <2>6, <2>7, <2>8
<1>2. /\ Has(m)' /\ member' \in [Members -> Member \union {None}]
      /\ \A n \in Members \ {m} : member'[n] = member[n] /\ (Has(n)' <=> Has(n))
  BY <1>1, MemberRow DEF AccountsInductive, AccountsSound
<1>3. /\ session' \in [SessionRows -> Session \union {None}]
      /\ \A s \in SessionRows : session'[s] # None => session'[s] = session[s]
      /\ ~accountMembership(m)' => \A s \in SessionRows : session'[s] # None => session'[s].for # m
  <2>1. AccountsTypeOK /\ SessionsBacked
    BY DEF AccountsInductive, AccountsSound
  <2>2. CASE session' = revokeSessions(m)
    BY <2>1, <2>2, RevokedRows
  <2>3. CASE UNCHANGED session /\ (accountMembership(m) => accountMembership(m)')
    BY <2>1, <2>3 DEF AccountsTypeOK, SessionsBacked
  <2>4. CASE CreateEmployee(m)
    BY <2>3, <2>4 DEF CreateEmployee, accountMembership
  <2>5. CASE reactivateMembership(m)
    BY <2>1, <2>3, <2>5, <1>2, AccountTypes DEF reactivateMembership, accountMembership, AccountsTypeOK, Member
  <2>6. CASE reactivateEmployee(m)
    BY <2>1, <2>3, <2>6, <1>2, AccountTypes DEF reactivateEmployee, accountMembership, AccountsTypeOK, Member
  <2> QED BY <2>2, <2>4, <2>5, <2>6 DEF disableMember, suspendMembership, deactivateEmployee
<1>4. /\ link' \in Seq(Link) /\ Len(link') = Len(link)
      /\ \A t \in Links : /\ link'[t].for = link[t].for /\ link'[t].kind = link[t].kind
                          /\ link'[t].open => link[t].open
  <2>1. AccountsTypeOK
    BY DEF AccountsInductive, AccountsSound
  <2>2. CASE UNCHANGED link
    BY <2>1, <2>2 DEF AccountsTypeOK
  <2>3. CASE link' = Spent(m, {"activate", "reset"})
    BY <2>1, <2>3, SpentLinks
  <2> QED BY <2>2, <2>3 DEF CreateEmployee, disableMember, suspendMembership, reactivateMembership,
                            deactivateEmployee, reactivateEmployee
<1>5. UNCHANGED <<password, cookie, request>>
  BY DEF CreateEmployee, disableMember, suspendMembership, reactivateMembership, deactivateEmployee, reactivateEmployee
<1> HIDE DEF row
<1>6. AccountsTypeOK'
  BY <1>2, <1>3, <1>4, <1>5 DEF AccountsInductive, AccountsSound, AccountsTypeOK
<1>7. SessionsBacked'
  BY <1>2, <1>3, AccountTypes DEF AccountsInductive, AccountsSound, SessionsBacked, accountMembership, Session
<1>8. OneOpenLink' /\ LinksFit'
  BY <1>1, <1>2, <1>4, AccountTypes DEF AccountsInductive, AccountsSound, OneOpenLink, LinksFit, Links
<1>9. OneIdentity' /\ IdentityFits'
  BY <1>1, <1>2 DEF AccountsInductive, AccountsSound, OneIdentity, IdentityFits
<1>10. PasswordsFit'
  BY <1>3, <1>5 DEF AccountsInductive, PasswordsFit, Account
<1> QED BY <1>6, <1>7, <1>8, <1>9, <1>10 DEF AccountsInductive, AccountsSound

\* An invitation: the membership is pending, and its link is open.
LEMMA InvitationStep ==
  ASSUME AccountsInductive, NEW m \in Members, insertInvitation(m) \/ inviteExistingEmployee(m)
  PROVE  AccountsInductive'
<1> DEFINE kind == IF activeAccount(m) THEN "link" ELSE "activate"
           row == [status |-> "pending", works |-> TRUE, identity |-> IF activeAccount(m) THEN "none" ELSE "off"]
           fresh == Len(link) + 1
<1>1. /\ ensureAccount(m) /\ row \in Member /\ member' = [member EXCEPT ![m] = row]
      /\ Has(m) => member[m].status = "none" /\ member[m].identity = "none"
      /\ AccountsTypeOK /\ link \in Seq(Link) /\ kind \in {"activate", "link"}
  BY DEF insertInvitation, inviteExistingEmployee, ensureAccount, Member,
         AccountsInductive, AccountsSound, AccountsTypeOK, IdentityFits
<1>2. /\ Has(m)' /\ member'[m] = row /\ member' \in [Members -> Member \union {None}]
      /\ \A n \in Members \ {m} : member'[n] = member[n] /\ (Has(n)' <=> Has(n))
  <2> HIDE DEF row
  <2> QED BY <1>1, MemberRow
<1>3. /\ link' \in Seq(Link) /\ Len(link) \in Nat /\ Len(link') = fresh /\ Len(link') <= MaxLinks
      /\ \A t \in Links : link'[t] = link[t]
      /\ link'[fresh].kind = kind /\ link'[fresh].for = m
  <2>1. link' = Issued(link, kind, m) /\ Len(link) < MaxLinks
    BY <1>1 DEF ensureAccount
  <2> HIDE DEF kind, row
  <2>2. /\ link' \in Seq(Link) /\ Len(link) \in Nat /\ Len(link') = Len(link) + 1
        /\ \A t \in 1..Len(link) : link'[t] = link[t]
        /\ link'[Len(link) + 1] = [kind |-> kind, for |-> m, open |-> TRUE, late |-> FALSE]
    BY ONLY <1>1, <2>1, IssuedLinks, m \in Members
  <2> QED BY <2>1, <2>2, AccountBounds DEF Links
<1>4. Links' = Links \union {fresh} /\ \A t \in Links : link[t].for # m
  BY <1>1, <1>3 DEF Links, AccountsInductive, LinksFit
<1>5. UNCHANGED <<password, session, cookie, request>>
  BY <1>1 DEF ensureAccount
<1>6. \A s \in SessionRows : session[s] # None => session[s].for # m
  BY <1>1 DEF AccountsInductive, AccountsSound, SessionsBacked, accountMembership
<1>7. kind # "link" => row.identity = "off" /\ \A n \in Members : Account(n) = Account(m) /\ Has(n) => member[n].status = "none"
  BY <1>1 DEF ensureAccount, accountByEmail
<1>8. kind = "link" => row.identity = "none"
  OBVIOUS
<1> HIDE DEF kind
<1>9. AccountsTypeOK'
  BY <1>1, <1>2, <1>3, <1>5 DEF AccountsTypeOK
<1>10. SessionsBacked'
  BY <1>1, <1>2, <1>5, <1>6, AccountTypes DEF AccountsInductive, AccountsSound, SessionsBacked, accountMembership, Session
<1>11. OneOpenLink' /\ LinksFit'
  BY <1>1, <1>2, <1>3, <1>4, <1>7, AccountTypes DEF AccountsInductive, AccountsSound, OneOpenLink, LinksFit
<1>12. OneIdentity' /\ IdentityFits'
  BY <1>1, <1>2, <1>7, <1>8 DEF AccountsInductive, AccountsSound, OneIdentity, IdentityFits
<1>13. PasswordsFit'
  BY <1>5 DEF AccountsInductive, PasswordsFit, Account
<1> QED BY <1>9, <1>10, <1>11, <1>12, <1>13 DEF AccountsInductive, AccountsSound

\* A link opened by who was invited: the password, the identity and the membership it was made for.
LEMMA AcceptStep ==
  ASSUME AccountsInductive, NEW t \in Links, NEW m \in Members, m = link[t].for, acceptInvitation(t)
  PROVE  AccountsInductive'
<1>1. /\ AccountsTypeOK /\ m \in Members /\ Has(m) /\ member[m] \in Member /\ link[t].kind = "activate" /\ link[t].open
      /\ member[m].status # "none" /\ member[m].identity # "none"
  BY AccountTypes DEF AccountsInductive, AccountsSound, LinksFit, acceptInvitation, LinkOpens
<1>a. PICK row : row = Activated(m)
  OBVIOUS
<1>2. /\ row \in Member /\ row.identity = "on" /\ row.status # "none" /\ row.works = member[m].works
      /\ row.status = "active" \/ row.status = member[m].status
      /\ member[m].status = "active" => row.status = "active"
  BY <1>1, <1>a DEF Activated, Member
<1>3. /\ Has(m)' /\ member'[m] = row /\ member' \in [Members -> Member \union {None}]
      /\ \A n \in Members \ {m} : member'[n] = member[n] /\ (Has(n)' <=> Has(n))
  <2>1. member' = [member EXCEPT ![m] = row]
    BY <1>a DEF acceptInvitation
  <2> QED BY <1>1, <1>2, <2>1, MemberRow
<1>4. /\ link' \in Seq(Link) /\ Len(link') = Len(link)
      /\ \A u \in Links : /\ link'[u].for = link[u].for /\ link'[u].kind = link[u].kind
                          /\ link'[u].open => link[u].open
  BY <1>1, SpentLinks DEF acceptInvitation
<1>5. UNCHANGED <<session, cookie, request>> /\ password' = [password EXCEPT ![Account(m)] = 1]
  BY DEF acceptInvitation
<1>6. AccountsTypeOK'
  <2>1. 1 \in 0..MaxPassword
    BY ONLY AccountBounds
  <2>2. password' \in [AllAccounts -> 0..MaxPassword]
    BY <1>1, <1>5, <2>1 DEF AccountsTypeOK
  <2> QED BY <1>1, <1>3, <1>4, <1>5, <2>2 DEF AccountsTypeOK
<1>7. SessionsBacked'
  BY <1>1, <1>2, <1>3, <1>5, AccountTypes DEF AccountsInductive, AccountsSound, SessionsBacked, accountMembership, Session
<1>8. OneOpenLink' /\ LinksFit'
  BY <1>1, <1>2, <1>3, <1>4, AccountTypes DEF AccountsInductive, AccountsSound, OneOpenLink, LinksFit, Links
<1>9. OneIdentity' /\ IdentityFits'
  BY <1>1, <1>2, <1>3 DEF AccountsInductive, AccountsSound, OneIdentity, IdentityFits
<1>10. PasswordsFit'
  BY <1>1, <1>5 DEF AccountsInductive, PasswordsFit, Account, AccountsTypeOK
<1> QED BY <1>6, <1>7, <1>8, <1>9, <1>10 DEF AccountsInductive, AccountsSound

\* What moves only links, passwords and sessions.
LEMMA LinkSteps ==
  ASSUME AccountsInductive, UNCHANGED <<member, cookie, request>>,
         link' \in Seq(Link), Len(link') = Len(link),
         \A t \in Links : /\ link'[t].for = link[t].for /\ link'[t].kind = link[t].kind
                          /\ link'[t].open => link[t].open,
         session' \in [SessionRows -> Session \union {None}],
         \A s \in SessionRows : session'[s] # None => session'[s] = session[s],
         password' \in [AllAccounts -> 0..MaxPassword],
         \A a \in AllAccounts : password[a] # 0 => password'[a] # 0
  PROVE  AccountsInductive'
<1>1. AccountsTypeOK' /\ SessionsBacked'
  BY DEF AccountsInductive, AccountsSound, AccountsTypeOK, SessionsBacked, accountMembership, Has
<1>2. OneOpenLink' /\ LinksFit'
  BY AccountTypes DEF AccountsInductive, AccountsSound, OneOpenLink, LinksFit, Links, Has
<1>3. OneIdentity' /\ IdentityFits'
  BY DEF AccountsInductive, AccountsSound, OneIdentity, IdentityFits, Has
<1>4. PasswordsFit'
  BY AccountTypes DEF AccountsInductive, AccountsSound, PasswordsFit, Account, AllAccounts, Session, RequestRecord
<1> QED BY <1>1, <1>2, <1>3, <1>4 DEF AccountsInductive, AccountsSound

LEMMA IssueStep ==
  ASSUME AccountsInductive, NEW m \in Members, NEW kind \in {"activate", "reset"}, issueMemberLink(m, kind)
  PROVE  AccountsInductive'
<1> DEFINE spent == Spent(m, {kind})
           fresh == Len(link) + 1
<1>1. AccountsTypeOK /\ Len(link) < MaxLinks /\ Has(m) /\ member[m].identity # "none" /\ member[m].status # "none"
  BY DEF AccountsInductive, AccountsSound, IdentityFits, issueMemberLink
<1>2. /\ spent \in Seq(Link) /\ Len(spent) = Len(link)
      /\ \A t \in Links : /\ spent[t].for = link[t].for /\ spent[t].kind = link[t].kind
                          /\ spent[t].open => link[t].open /\ ~(link[t].for = m /\ link[t].kind = kind)
  BY <1>1, SpentLinks
<1>3. link' = Issued(spent, kind, m)
  BY DEF issueMemberLink
<1> HIDE DEF spent
<1>4. /\ link' \in Seq(Link) /\ Len(link) \in Nat /\ Len(link') = fresh /\ Len(link') <= MaxLinks
      /\ \A t \in Links : link'[t] = spent[t]
      /\ link'[fresh].kind = kind /\ link'[fresh].for = m /\ Links' = Links \union {fresh}
  <2>1. /\ link' \in Seq(Link) /\ Len(spent) \in Nat /\ Len(link') = Len(spent) + 1
        /\ \A t \in 1..Len(spent) : link'[t] = spent[t]
        /\ link'[Len(spent) + 1] = [kind |-> kind, for |-> m, open |-> TRUE, late |-> FALSE]
    BY ONLY <1>2, <1>3, IssuedLinks, m \in Members, kind \in {"activate", "reset"}
  <2> QED BY <1>1, <1>2, <2>1, AccountBounds DEF Links
<1>5. UNCHANGED <<member, password, session, cookie, request>>
  BY DEF issueMemberLink
<1>6. AccountsTypeOK' /\ SessionsBacked'
  BY <1>1, <1>4, <1>5 DEF AccountsInductive, AccountsSound, AccountsTypeOK, SessionsBacked, accountMembership, Has
<1>7. OneOpenLink'
  BY <1>1, <1>2, <1>4 DEF AccountsInductive, AccountsSound, OneOpenLink
<1>8. LinksFit'
  BY <1>1, <1>2, <1>4, <1>5 DEF AccountsInductive, LinksFit, Has
<1>9. OneIdentity' /\ IdentityFits' /\ PasswordsFit'
  BY <1>5 DEF AccountsInductive, AccountsSound, OneIdentity, IdentityFits, PasswordsFit, Has, Account
<1> QED BY <1>6, <1>7, <1>8, <1>9 DEF AccountsInductive, AccountsSound

LEMMA ResetStep ==
  ASSUME AccountsInductive, NEW t \in Links, resetPassword(t)
  PROVE  AccountsInductive'
<1>1. PICK m \in Members : m = link[t].for
  BY AccountTypes DEF AccountsInductive, AccountsSound
<1>2. /\ AccountsTypeOK /\ password[Account(m)] < MaxPassword /\ Account(m) \in AllAccounts
      /\ password' = [password EXCEPT ![Account(m)] = password[Account(m)] + 1]
      /\ link' = Spent(m, {"reset"}) /\ session' = SessionsAfterReset(m) /\ UNCHANGED <<member, cookie, request>>
  BY <1>1, AccountTypes DEF AccountsInductive, AccountsSound, resetPassword
<1>3. password' \in [AllAccounts -> 0..MaxPassword] /\ \A a \in AllAccounts : password[a] # 0 => password'[a] # 0
  BY <1>2, AccountBounds DEF AccountsTypeOK
<1>4. /\ session' \in [SessionRows -> Session \union {None}]
      /\ \A s \in SessionRows : session'[s] # None => session'[s] = session[s]
  BY <1>2 DEF AccountsTypeOK, SessionsAfterReset
<1> QED BY <1>1, <1>2, <1>3, <1>4, SpentLinks, LinkSteps

LEMMA ExpiryStep ==
  ASSUME AccountsInductive,
         (\E t \in Links : LinkExpires(t)) \/ (\E s \in SessionRows : SessionExpires(s))
  PROVE  AccountsInductive'
<1>1. AccountsTypeOK
  BY DEF AccountsInductive, AccountsSound
<1>2. ASSUME NEW t \in Links, LinkExpires(t) PROVE AccountsInductive'
  <2> DEFINE late == [link[t] EXCEPT !.late = TRUE]
  <2>1. late \in Link /\ late.for = link[t].for /\ late.kind = link[t].kind /\ late.open = link[t].open
    BY <1>1, AccountTypes DEF Link
  <2>2. link' = [link EXCEPT ![t] = late] /\ UNCHANGED <<member, password, session, cookie, request>>
    BY <1>2 DEF LinkExpires
  <2> HIDE DEF late
  <2>3. /\ link' \in Seq(Link) /\ Len(link') = Len(link)
        /\ \A u \in Links : link'[u] = IF u = t THEN late ELSE link[u]
    BY <1>1, <2>1, <2>2, LinkRow
  <2> QED BY <1>1, <2>1, <2>2, <2>3, LinkSteps DEF AccountsTypeOK
<1>3. ASSUME NEW s \in SessionRows, SessionExpires(s) PROVE AccountsInductive'
  <2>1. /\ session' \in [SessionRows -> Session \union {None}]
        /\ \A r \in SessionRows : session'[r] # None => session'[r] = session[r]
    BY <1>1, <1>3 DEF SessionExpires, AccountsTypeOK
  <2> QED BY <1>1, <1>3, <2>1, LinkSteps DEF SessionExpires, AccountsTypeOK
<1> QED BY <1>2, <1>3

-----------------------------------------------------------------------------
\* What a request of a browser does, but for an account link it accepts: sessions are only removed,
\* or inserted for a member with access, as the request found it.
LEMMA RequestSteps ==
  ASSUME AccountsInductive, NEW b \in Browsers,
         UNCHANGED <<member, password, link>>,
         cookie' \in [Browsers -> SessionRows \union {None}],
         request' \in [Browsers -> RequestRecord \union {None}],
         session' \in [SessionRows -> Session \union {None}],
         \A s \in SessionRows : session'[s] # None =>
           \/ session'[s] = session[s]
           \/ request[b] # None /\ session'[s].for = request[b].for /\ accountMembership(request[b].for),
         \A c \in Browsers : request'[c] # None =>
           \/ request[c] # None /\ request'[c].for = request[c].for
           \/ c = b /\ password[Account(request'[c].for)] # 0
  PROVE  AccountsInductive'
<1>1. AccountsTypeOK'
  BY DEF AccountsInductive, AccountsSound, AccountsTypeOK
<1>2. SessionsBacked'
  BY DEF AccountsInductive, AccountsSound, SessionsBacked, accountMembership, Has
<1>3. OneOpenLink' /\ LinksFit' /\ OneIdentity' /\ IdentityFits'
  BY DEF AccountsInductive, AccountsSound, OneOpenLink, LinksFit, OneIdentity, IdentityFits, Links, Has
<1>4. PasswordsFit'
  BY DEF AccountsInductive, PasswordsFit, Account
<1> QED BY <1>1, <1>2, <1>3, <1>4 DEF AccountsInductive, AccountsSound

\* A session that a browser's cookie names, with its password.
LEMMA SignedSession ==
  ASSUME AccountsInductive, NEW b \in Browsers, Signed(b)
  PROVE  /\ session[cookie[b]] \in Session /\ password[Account(session[cookie[b]].for)] # 0
         /\ session[cookie[b]].password \in 1..MaxPassword /\ session[cookie[b]].for \in Members
<1>1. cookie[b] \in SessionRows
  BY DEF AccountsInductive, AccountsSound, AccountsTypeOK, Signed
<1>2. session[cookie[b]] \in Session
  BY <1>1, AccountTypes DEF AccountsInductive, AccountsSound, Signed
<1> QED BY <1>1, <1>2 DEF AccountsInductive, PasswordsFit, Signed, Session

\* A request opened for a member.
LEMMA LinkOpened ==
  ASSUME AccountsInductive, NEW b \in Browsers, NEW m \in Members, NEW step \in {"hashing", "open"},
         NEW p \in 1..MaxPassword, password[Account(m)] # 0,
         request' = [request EXCEPT ![b] = [step |-> step, for |-> m, password |-> p, to |-> None]]
  PROVE  /\ request' \in [Browsers -> RequestRecord \union {None}]
         /\ \A c \in Browsers : request'[c] # None =>
              \/ request[c] # None /\ request'[c].for = request[c].for
              \/ c = b /\ request'[c].for = m
<1> DEFINE x == [step |-> step, for |-> m, password |-> p, to |-> None]
<1>1. x \in RequestRecord /\ x.for = m
  BY DEF RequestRecord
<1> HIDE DEF x
<1> QED BY <1>1 DEF AccountsInductive, AccountsSound, AccountsTypeOK, x

LEMMA BrowserSteps ==
  ASSUME AccountsInductive, NEW b \in Browsers,
         \/ \E m \in Members : findPasswordAccount(b, m) \/ Switch(b, m)
         \/ Recheck(b) \/ createAccountSession(b) \/ Answered(b) \/ Lost(b) \/ LogOut(b)
  PROVE  AccountsInductive'
<1>1. /\ AccountsTypeOK /\ request \in [Browsers -> RequestRecord \union {None}]
      /\ session \in [SessionRows -> Session \union {None}] /\ cookie \in [Browsers -> SessionRows \union {None}]
  BY DEF AccountsInductive, AccountsSound, AccountsTypeOK
<1>2. request[b] # None => request[b] \in RequestRecord
  BY <1>1
<1>3. ASSUME NEW m \in Members, findPasswordAccount(b, m) PROVE AccountsInductive'
  <2>1. password[Account(m)] \in 1..MaxPassword /\ password[Account(m)] # 0
    BY <1>1, <1>3, AccountTypes, AccountBounds DEF findPasswordAccount, activeAccount, AccountsTypeOK
  <2>2. request' \in [Browsers -> RequestRecord \union {None}]
        /\ \A c \in Browsers : request'[c] # None =>
              \/ request[c] # None /\ request'[c].for = request[c].for
              \/ c = b /\ request'[c].for = m
    BY <1>3, <2>1, LinkOpened DEF findPasswordAccount
  <2> QED BY <1>1, <1>3, <2>1, <2>2, RequestSteps DEF findPasswordAccount, activeAccount
<1>4. ASSUME NEW m \in Members, Switch(b, m) PROVE AccountsInductive'
  <2>1. session[cookie[b]].password \in 1..MaxPassword /\ password[Account(m)] # 0
    BY <1>4, SignedSession DEF Switch
  <2>2. request' \in [Browsers -> RequestRecord \union {None}]
        /\ \A c \in Browsers : request'[c] # None =>
              \/ request[c] # None /\ request'[c].for = request[c].for
              \/ c = b /\ request'[c].for = m
    BY <1>4, <2>1, LinkOpened DEF Switch
  <2> QED BY <1>1, <1>4, <2>1, <2>2, RequestSteps DEF Switch
<1>5. CASE Recheck(b)
  <2>1. request' \in [Browsers -> RequestRecord \union {None}]
        /\ \A c \in Browsers : request'[c] # None => request[c] # None /\ request'[c].for = request[c].for
    BY <1>1, <1>2, <1>5 DEF Recheck, RequestAt, RequestRecord
  <2>2. /\ session' \in [SessionRows -> Session \union {None}]
        /\ \A s \in SessionRows : session'[s] # None => session'[s] = session[s]
    BY <1>1, <1>5 DEF Recheck
  <2> QED BY <1>1, <1>5, <2>1, <2>2, RequestSteps DEF Recheck
<1>6. CASE createAccountSession(b)
  <2> DEFINE row == [for |-> request[b].for, password |-> request[b].password]
  <2>1. request[b] \in RequestRecord /\ row \in Session /\ accountMembership(request[b].for) /\ row.for = request[b].for
    BY <1>2, <1>6 DEF createAccountSession, Session, RequestRecord
  <2>2. NewSession \in SessionRows
    BY <1>6 DEF createAccountSession, NewSession, Free
  <2>3. session' = [session EXCEPT ![NewSession] = row]
    BY <1>6 DEF createAccountSession
  <2>4. request' \in [Browsers -> RequestRecord \union {None}]
        /\ \A c \in Browsers : request'[c] # None => request[c] # None /\ request'[c].for = request[c].for
    BY <1>1, <1>2, <1>6, <2>2 DEF createAccountSession, RequestRecord
  <2> HIDE DEF row
  <2> QED BY <1>1, <1>6, <2>1, <2>2, <2>3, <2>4, RequestSteps DEF createAccountSession
<1>7. CASE Answered(b)
  <2>1. cookie' \in [Browsers -> SessionRows \union {None}]
    BY <1>1, <1>2, <1>7 DEF Answered, RequestAt, RequestRecord
  <2>2. /\ session' \in [SessionRows -> Session \union {None}]
        /\ \A s \in SessionRows : session'[s] # None => session'[s] = session[s]
    BY <1>1, <1>7 DEF Answered
  <2> QED BY <1>1, <1>7, <2>1, <2>2, RequestSteps DEF Answered
<1>8. CASE Lost(b)
  BY <1>1, <1>8, RequestSteps DEF Lost
<1>9. CASE LogOut(b)
  BY <1>1, <1>9, RequestSteps DEF LogOut
<1> QED BY <1>3, <1>4, <1>5, <1>6, <1>7, <1>8, <1>9

\* A link to an account accepted: the membership becomes active, and a request opens for it.
LEMMA AcceptLinkStep ==
  ASSUME AccountsInductive, NEW b \in Browsers, NEW t \in Links, acceptAccountLink(b, t)
  PROVE  AccountsInductive'
<1>1. PICK m \in Members : m = link[t].for
  BY AccountTypes DEF AccountsInductive, AccountsSound
<1>2. PICK row : row = [member[m] EXCEPT !.status = "active"]
  OBVIOUS
<1>3. /\ AccountsTypeOK /\ Signed(b) /\ Account(m) = Account(session[cookie[b]].for)
      /\ member[m].status = "pending" /\ member[m].works /\ member' = [member EXCEPT ![m] = row]
      /\ request' = [request EXCEPT ![b] = [step |-> "open", for |-> m,
                       password |-> session[cookie[b]].password, to |-> None]]
      /\ link' = [link EXCEPT ![t].open = FALSE] /\ UNCHANGED <<password, session, cookie>>
  BY <1>1, <1>2 DEF AccountsInductive, AccountsSound, acceptAccountLink
<1>4. Has(m) /\ member[m] \in Member
  BY <1>1, <1>3, AccountTypes DEF AccountsInductive, LinksFit
<1>5. row \in Member /\ row.status = "active" /\ row.works /\ row.identity = member[m].identity
  BY <1>2, <1>3, <1>4 DEF Member
<1>6. /\ Has(m)' /\ member'[m] = row /\ member' \in [Members -> Member \union {None}]
      /\ \A n \in Members \ {m} : member'[n] = member[n] /\ (Has(n)' <=> Has(n))
  BY <1>3, <1>5, MemberRow
<1>7. session[cookie[b]].password \in 1..MaxPassword /\ password[Account(m)] # 0
  BY <1>3, SignedSession
<1>8. /\ request' \in [Browsers -> RequestRecord \union {None}]
      /\ \A c \in Browsers : request'[c] # None =>
           \/ request[c] # None /\ request'[c].for = request[c].for
           \/ c = b /\ request'[c].for = m
  BY <1>3, <1>7, LinkOpened
<1>9. /\ link' \in Seq(Link) /\ Len(link') = Len(link)
      /\ \A u \in Links : /\ link'[u].for = link[u].for /\ link'[u].kind = link[u].kind
                          /\ link'[u].open => link[u].open
  <2> DEFINE shut == [link[t] EXCEPT !.open = FALSE]
  <2>1. shut \in Link /\ shut.for = link[t].for /\ shut.kind = link[t].kind /\ ~shut.open
    BY <1>3, AccountTypes DEF Link
  <2>2. link' = [link EXCEPT ![t] = shut]
    BY <1>3
  <2> HIDE DEF shut
  <2>3. /\ link' \in Seq(Link) /\ Len(link') = Len(link)
        /\ \A u \in Links : link'[u] = IF u = t THEN shut ELSE link[u]
    BY <1>3, <2>1, <2>2, LinkRow
  <2> QED BY <2>1, <2>3
<1>10. AccountsTypeOK'
  BY <1>3, <1>6, <1>8, <1>9 DEF AccountsTypeOK
<1>11. SessionsBacked'
  BY <1>3, <1>5, <1>6, AccountTypes DEF AccountsInductive, AccountsSound, SessionsBacked, accountMembership, Session
<1>12. OneOpenLink' /\ LinksFit'
  BY <1>3, <1>5, <1>6, <1>9, AccountTypes DEF AccountsInductive, AccountsSound, OneOpenLink, LinksFit, Links
<1>13. OneIdentity' /\ IdentityFits'
  BY <1>4, <1>5, <1>6 DEF AccountsInductive, AccountsSound, OneIdentity, IdentityFits
<1>14. PasswordsFit'
  BY <1>3, <1>7, <1>8 DEF AccountsInductive, PasswordsFit, Account
<1> QED BY <1>10, <1>11, <1>12, <1>13, <1>14 DEF AccountsInductive, AccountsSound

LEMMA AccountsInductiveStep == ASSUME AccountsInductive, [AccountsNext]_accountVars PROVE AccountsInductive'
<1>1. CASE UNCHANGED accountVars
  BY <1>1 DEF accountVars, AccountsInductive, AccountsSound, AccountsTypeOK, SessionsBacked, OneOpenLink, OneIdentity,
              LinksFit, IdentityFits, PasswordsFit, accountMembership, Links, Has, Account
<1>2. CASE \E m \in Members :
         \/ CreateEmployee(m) \/ disableMember(m) \/ suspendMembership(m) \/ reactivateMembership(m)
         \/ deactivateEmployee(m) \/ reactivateEmployee(m)
         \/ insertInvitation(m) \/ inviteExistingEmployee(m)
         \/ \E kind \in {"activate", "reset"} : issueMemberLink(m, kind)
         \/ \E b \in Browsers : findPasswordAccount(b, m) \/ Switch(b, m)
  BY <1>2, MemberSteps, InvitationStep, IssueStep, BrowserSteps
<1>3. CASE \E t \in Links :
         \/ acceptInvitation(t) \/ resetPassword(t) \/ LinkExpires(t)
         \/ \E b \in Browsers : acceptAccountLink(b, t)
  <2>1. ASSUME NEW t \in Links, acceptInvitation(t) PROVE AccountsInductive'
    <3>1. link[t].for \in Members
      BY AccountTypes DEF AccountsInductive, AccountsSound
    <3> QED BY <2>1, <3>1, AcceptStep
  <2> QED BY <1>3, <2>1, ResetStep, ExpiryStep, AcceptLinkStep
<1>4. CASE \E b \in Browsers :
         Recheck(b) \/ createAccountSession(b) \/ Answered(b) \/ Lost(b) \/ LogOut(b)
  BY <1>4, BrowserSteps
<1>5. CASE \E s \in SessionRows : SessionExpires(s)
  BY <1>5, ExpiryStep
<1> QED BY <1>1, <1>2, <1>3, <1>4, <1>5 DEF AccountsNext

LEMMA AccountsInvariant == AccountsSpec => []AccountsInductive
<1> QED BY AccountsInductiveInit, AccountsInductiveStep, PTL DEF AccountsSpec

\* No session without access, one open link of a kind and one identity in an account, for any
\* number of members, accounts, links and browsers.
THEOREM AccountsSoundHolds == AccountsSpec => []AccountsSound
<1>1. AccountsInductive => AccountsSound
  BY DEF AccountsInductive
<1> QED BY <1>1, AccountsInvariant, PTL

-----------------------------------------------------------------------------
\* A password is set only by a link of its purpose, and leaves no session of the account.
LEMMA PasswordByLink ==
  ASSUME AccountsInductive, [AccountsNext]_accountVars, NEW a \in AllAccounts, password'[a] # password[a]
  PROVE  /\ \E t \in Links : /\ LinkOpens(t, IF password[a] = 0 THEN "activate" ELSE "reset")
                             /\ Account(link[t].for) = a /\ ~link'[t].open
         /\ \A s \in SessionRows : session'[s] # None => Account(session'[s].for) # a
<1>1. AccountsTypeOK
  BY DEF AccountsInductive, AccountsSound
<1>2. PICK t \in Links : acceptInvitation(t) \/ resetPassword(t)
  BY DEF AccountsNext, accountVars, CreateEmployee, disableMember, suspendMembership, reactivateMembership,
         deactivateEmployee, reactivateEmployee, insertInvitation, inviteExistingEmployee, ensureAccount,
         issueMemberLink, findPasswordAccount, Switch, LinkExpires, acceptAccountLink, Recheck,
         createAccountSession, Answered, Lost, LogOut, SessionExpires
<1>3. PICK m \in Members : m = link[t].for
  BY <1>1, AccountTypes
<1>4. CASE acceptInvitation(t)
  <2>1. /\ a = Account(m) /\ password[a] = 0 /\ LinkOpens(t, "activate") /\ link' = Spent(m, {"activate"})
        /\ UNCHANGED session
    BY <1>1, <1>3, <1>4 DEF acceptInvitation, AccountsTypeOK
  <2>2. ~link'[t].open
    BY <1>1, <1>3, <2>1, SpentLinks DEF LinkOpens
  <2>3. \A s \in SessionRows : session'[s] # None => Account(session'[s].for) # a
    BY <2>1 DEF AccountsInductive, PasswordsFit
  <2> QED BY <1>3, <2>1, <2>2, <2>3
<1>5. CASE resetPassword(t)
  <2>1. /\ a = Account(m) /\ password[a] # 0 /\ LinkOpens(t, "reset") /\ link' = Spent(m, {"reset"})
        /\ session' = SessionsAfterReset(m)
    BY <1>1, <1>3, <1>5 DEF resetPassword, AccountsTypeOK, activeAccount
  <2>2. ~link'[t].open
    BY <1>1, <1>3, <2>1, SpentLinks DEF LinkOpens
  <2>3. \A s \in SessionRows : session'[s] # None => Account(session'[s].for) # a
    BY <2>1 DEF SessionsAfterReset
  <2> QED BY <1>3, <2>1, <2>2, <2>3
<1> QED BY <1>2, <1>4, <1>5

\* Only an administrator lets a suspended member in again.
LEMMA SuspendedStay ==
  ASSUME AccountsInductive, [AccountsNext]_accountVars, NEW m \in Members,
         Has(m), member[m].status = "suspended", member'[m].status = "active"
  PROVE  reactivateMembership(m)
<1>1. AccountsTypeOK /\ member[m] \in Member /\ member \in [Members -> Member \union {None}]
  BY AccountTypes DEF AccountsInductive, AccountsSound, AccountsTypeOK
<1>2. ASSUME NEW n \in Members,
             CreateEmployee(n) \/ disableMember(n) \/ suspendMembership(n) \/ deactivateEmployee(n)
             \/ reactivateEmployee(n) \/ insertInvitation(n) \/ inviteExistingEmployee(n)
      PROVE  FALSE
  <2>1. Has(n) => member[n] \in Member
    BY <1>1, AccountTypes
  <2>2. CASE n # m
    BY <1>1, <1>2, <2>2 DEF CreateEmployee, disableMember, suspendMembership, deactivateEmployee, reactivateEmployee,
                            insertInvitation, inviteExistingEmployee, ensureAccount
  <2>3. CASE n = m
    BY <1>1, <1>2, <2>1, <2>3 DEF CreateEmployee, disableMember, suspendMembership, deactivateEmployee,
                            reactivateEmployee, insertInvitation, inviteExistingEmployee, ensureAccount, Member
  <2> QED BY <2>2, <2>3
<1>3. ASSUME NEW t \in Links, acceptInvitation(t) \/ \E b \in Browsers : acceptAccountLink(b, t) PROVE FALSE
  <2>1. link[t].for \in Members
    BY <1>1, AccountTypes
  <2>2. link[t].for = m
    BY <1>1, <1>3, <2>1 DEF acceptInvitation, acceptAccountLink
  <2>3. member'[m].status = IF member[m].status = "pending" THEN "active" ELSE member[m].status
    BY <1>1, <1>3, <2>2 DEF acceptInvitation, acceptAccountLink, Activated, Member
  <2> QED BY <2>3, <1>3, <2>2
<1>4. ASSUME NEW n \in Members, reactivateMembership(n) PROVE n = m
  BY <1>1, <1>4 DEF reactivateMembership
<1> QED BY <1>2, <1>3, <1>4 DEF AccountsNext, accountVars, resetPassword, LinkExpires, issueMemberLink,
           findPasswordAccount, Switch, Recheck, createAccountSession, Answered, Lost, LogOut, SessionExpires

\* A link that was used, replaced or withdrawn stays as it is.
LEMMA UsedLinksStay ==
  ASSUME AccountsInductive, [AccountsNext]_accountVars, NEW t \in Links, ~link[t].open
  PROVE  link'[t] = link[t]
<1>1. AccountsTypeOK /\ link \in Seq(Link)
  BY DEF AccountsInductive, AccountsSound, AccountsTypeOK
<1>2. ASSUME NEW m \in Members, NEW kinds, link' = Spent(m, kinds) PROVE link'[t] = link[t]
  BY <1>1, <1>2, SpentLinks
<1>3. ASSUME NEW m \in Members, NEW kind \in {"activate", "reset", "link"}, NEW links \in Seq(Link),
             Len(links) = Len(link), links[t] = link[t], link' = Issued(links, kind, m)
      PROVE  link'[t] = link[t]
  <2>1. t \in 1..Len(links)
    BY <1>3 DEF Links
  <2>2. Issued(links, kind, m)[t] = links[t]
    BY <2>1, IssuedLinks
  <2> QED BY <1>3, <2>2
<1>4. ASSUME NEW m \in Members, ensureAccount(m) PROVE link'[t] = link[t]
  <2>1. \E kind \in {"activate", "reset", "link"} : link' = Issued(link, kind, m)
    BY <1>4 DEF ensureAccount
  <2> QED BY <1>1, <1>3, <2>1
<1>5. ASSUME NEW m \in Members, NEW kind \in {"activate", "reset"}, issueMemberLink(m, kind) PROVE link'[t] = link[t]
  <2>1. /\ Spent(m, {kind}) \in Seq(Link) /\ Len(Spent(m, {kind})) = Len(link) /\ Spent(m, {kind})[t] = link[t]
    BY <1>1, SpentLinks
  <2> QED BY <1>3, <1>5, <2>1 DEF issueMemberLink
<1>6. ASSUME NEW u \in Links, acceptInvitation(u) \/ resetPassword(u) PROVE link'[t] = link[t]
  <2>1. link[u].for \in Members
    BY <1>1, AccountTypes
  <2> QED BY <1>2, <1>6, <2>1 DEF acceptInvitation, resetPassword
<1>7. ASSUME NEW u \in Links, LinkExpires(u) \/ \E b \in Browsers : acceptAccountLink(b, u) PROVE link'[t] = link[t]
  <2>1. u # t
    BY <1>7 DEF LinkExpires, acceptAccountLink, LinkOpens
  <2> QED BY <1>1, <1>7, <2>1, LenProperties DEF LinkExpires, acceptAccountLink, Links
<1>8. ASSUME NEW m \in Members, disableMember(m) PROVE link'[t] = link[t]
  BY <1>2, <1>8 DEF disableMember
<1> QED BY <1>4, <1>5, <1>6, <1>7, <1>8
     DEF AccountsNext, accountVars, CreateEmployee, suspendMembership, reactivateMembership, deactivateEmployee,
         reactivateEmployee, insertInvitation, inviteExistingEmployee, findPasswordAccount, Switch, Recheck,
         createAccountSession, Answered, Lost, LogOut, SessionExpires

\* Passwords change by their own links and end the account's sessions, the suspended stay out and
\* no link opens twice.
THEOREM AccessByLinkHolds == AccountsSpec => AccessByLink
<1>1. ASSUME AccountsInductive, [AccountsNext]_accountVars
      PROVE  [/\ \A a \in AllAccounts : password'[a] # password[a] =>
                   /\ \E t \in Links : /\ LinkOpens(t, IF password[a] = 0 THEN "activate" ELSE "reset")
                                       /\ Account(link[t].for) = a /\ ~link'[t].open
                   /\ \A s \in SessionRows : session'[s] # None => Account(session'[s].for) # a
              /\ \A m \in Members : Has(m) /\ member[m].status = "suspended" /\ member'[m].status = "active" =>
                   reactivateMembership(m)
              /\ \A t \in Links : ~link[t].open => link'[t] = link[t]]_accountVars
  BY <1>1, PasswordByLink, SuspendedStay, UsedLinksStay
<1> QED BY <1>1, AccountsInvariant, PTL DEF AccountsSpec, AccessByLink

(***************************************************************************)
(* SignIn.  A login is used by one request at a time: from the callback     *)
(* that consumes it to the session it stores it is closed, belongs to the  *)
(* browser that began it, and no session has it yet.  Who is signed in was *)
(* listed when the code was exchanged, and lists change only when the API  *)
(* starts, which ends all requests.                                        *)
(***************************************************************************)
Using(v) == v.step \in {"exchange", "drop", "store"} /\ v.login # 0

VisitFits(t, v) ==
  /\ v.login <= Len(login)
  /\ v.login # 0 => login[v.login].by = browserOf[t]
  /\ v.step = "exchange" => v.login # 0 /\ v.code \in (1..MaxLogins) \X Subjects /\ v.code[1] = v.login
  /\ Using(v) => ~login[v.login].open /\ \A r \in GoogleRows : googleSession[r] # None => googleSession[r].login # v.login
  /\ v.step \in {"drop", "store"} =>
       /\ v.subject \in Subjects /\ directory[v.subject].listed
       /\ v.login # 0 => <<v.login, v.subject>> \in spentCodes

Alone ==
  \A t, u \in Tabs :
    visit[t] # None /\ visit[u] # None /\ Using(visit[t]) /\ Using(visit[u]) /\ visit[t].login = visit[u].login => t = u

JarsFit ==
  \A b \in AllBrowsers : jar[b].login <= Len(login) /\ (jar[b].login # 0 => login[jar[b].login].by = b)

RowsFit == \A r \in GoogleRows : googleSession[r] # None => googleSession[r].login <= Len(login)

VisitsFit == \A t \in Tabs : visit[t] # None => VisitFits(t, visit[t])

SignInInductive == SignInSound /\ VisitsFit /\ Alone /\ JarsFit /\ RowsFit

LEMMA SignInInductiveInit == ASSUME SignInInit PROVE SignInInductive
<1>1. SignInTypeOK
  BY SignInBounds DEF SignInInit, SignInTypeOK, Entry
<1>2. Len(login) = 0
  BY EmptySeq DEF SignInInit
<1> QED
  BY <1>1, <1>2 DEF SignInInit, SignInInductive, SignInSound, SessionOfItsLogin, SessionsListed, VisitsFit, Alone, JarsFit, RowsFit

LEMMA SignInTypes ==
  ASSUME SignInTypeOK
  PROVE  /\ Len(login) \in Nat /\ Len(login) <= MaxLogins
         /\ \A l \in Logins : l \in Nat \ {0} /\ l \in 1..MaxLogins /\ login[l] \in Login
         /\ \A t \in Tabs : visit[t] # None => visit[t] \in Visit /\ visit[t].login \in Nat
         /\ \A r \in GoogleRows : googleSession[r] # None => googleSession[r] \in GoogleSession /\ googleSession[r].login \in Nat
         /\ \A t \in Tabs : browserOf[t] \in AllBrowsers
         /\ \A b \in AllBrowsers : jar[b].login \in Nat /\ jar[b].session \in GoogleRows \union {None}
<1>1. \A t \in Tabs : browserOf[t] \in AllBrowsers
  BY DEF SignInTypeOK, AllBrowsers
<1>2. Len(login) \in Nat /\ \A l \in Logins : login[l] \in Login
  BY ElementOfSeq, LenProperties DEF SignInTypeOK, Logins
<1> QED BY <1>1, <1>2, SignInBounds DEF SignInTypeOK, Visit, GoogleSession, Logins

LEMMA LoginRows ==
  ASSUME NEW n \in Nat, NEW f \in [1..n -> Login]
  PROVE  f \in Seq(Login) /\ Len(f) = n
<1>1. f \in Seq(Login)
  BY SeqDef
<1> QED BY <1>1, LenProperties

\* A login discarded, consumed or outdated.
LEMMA GoneLogin ==
  ASSUME SignInTypeOK, NEW l \in Logins
  PROVE  /\ Gone(l) \in Seq(Login) /\ Len(Gone(l)) = Len(login) /\ ~Gone(l)[l].open
         /\ \A k \in Logins : Gone(l)[k].by = login[k].by /\ (Gone(l)[k].open => login[k].open)
<1> DEFINE shut == [login[l] EXCEPT !.open = FALSE]
<1>1. shut \in Login /\ shut.by = login[l].by /\ ~shut.open
  BY SignInTypes DEF Login
<1>2. Gone(l) = [login EXCEPT ![l] = shut]
  BY DEF Gone
<1> HIDE DEF shut
<1>3. /\ Gone(l) \in Seq(Login) /\ Len(Gone(l)) = Len(login)
      /\ \A k \in Logins : Gone(l)[k] = IF k = l THEN shut ELSE login[k]
  BY <1>1, <1>2, ExceptSeq DEF SignInTypeOK, Logins
<1> QED BY <1>1, <1>3

\* Logins close and are added, codes are used up, sessions end: what was known of visits and
\* sessions stays known.
LEMMA SignInFrame ==
  ASSUME SignInInductive, UNCHANGED <<browserOf, directory>>,
         login' \in Seq(Login), Len(login') \in Nat, Len(login) <= Len(login'), Len(login') <= MaxLogins,
         \A l \in Logins : login'[l].by = login[l].by /\ (login'[l].open => login[l].open),
         spentCodes \subseteq spentCodes', spentCodes' \subseteq Logins' \X Subjects,
         \A r \in GoogleRows : googleSession'[r] # None => googleSession'[r] = googleSession[r]
  PROVE  /\ \A t \in Tabs, v \in Visit : VisitFits(t, v) => VisitFits(t, v)'
         /\ SessionOfItsLogin' /\ SessionsListed' /\ RowsFit'
         /\ \A b \in AllBrowsers : jar[b].login <= Len(login') /\ (jar[b].login # 0 => login'[jar[b].login].by = b)
<1>1. SignInTypeOK /\ SessionOfItsLogin /\ SessionsListed /\ VisitsFit /\ JarsFit /\ RowsFit
  BY DEF SignInInductive, SignInSound
<1>2. \A n \in Nat : n # 0 /\ n <= Len(login) => n \in Logins
  BY <1>1, SignInTypes DEF Logins
<1>3. SessionOfItsLogin' /\ RowsFit'
  <2>1. ASSUME NEW r \in GoogleRows, googleSession'[r] # None
        PROVE  /\ googleSession'[r] = googleSession[r] /\ googleSession[r].login \in Nat
               /\ googleSession[r].login <= Len(login) /\ googleSession[r].login <= Len(login')
               /\ googleSession[r].login # 0 => googleSession[r].login \in Logins
    BY <1>1, <1>2, <2>1, SignInTypes DEF RowsFit
  <2>2. RowsFit'
    BY <2>1 DEF RowsFit
  <2> QED BY <1>1, <2>1, <2>2 DEF SessionOfItsLogin
<1>4. SessionsListed'
  BY <1>1 DEF SessionsListed
<1>5. \A b \in AllBrowsers : jar[b].login <= Len(login') /\ (jar[b].login # 0 => login'[jar[b].login].by = b)
  BY <1>1, <1>2, SignInTypes DEF JarsFit
<1>6. ASSUME NEW t \in Tabs, NEW v \in Visit, VisitFits(t, v) PROVE VisitFits(t, v)'
  <2>1. v.login \in Nat /\ (v.login # 0 => v.login \in Logins) /\ v.login <= Len(login')
    BY <1>1, <1>2, <1>6, SignInTypes DEF VisitFits, Visit
  <2> QED BY <1>6, <2>1 DEF VisitFits, Using
<1> QED BY <1>3, <1>4, <1>5, <1>6

\* One visit changed.
LEMMA VisitRow ==
  ASSUME SignInInductive, NEW t \in Tabs, NEW v \in Visit \union {None}, visit' = [visit EXCEPT ![t] = v],
         \A u \in Tabs, w \in Visit : VisitFits(u, w) => VisitFits(u, w)',
         v # None => VisitFits(t, v)',
         v # None /\ Using(v) =>
           \/ visit[t] # None /\ Using(visit[t]) /\ visit[t].login = v.login
           \/ \A u \in Tabs : visit[u] # None /\ Using(visit[u]) => visit[u].login # v.login
  PROVE  visit' \in [Tabs -> Visit \union {None}] /\ VisitsFit' /\ Alone'
<1>1. SignInTypeOK /\ visit \in [Tabs -> Visit \union {None}] /\ VisitsFit /\ Alone
  BY DEF SignInInductive, SignInSound, SignInTypeOK
<1>2. visit' \in [Tabs -> Visit \union {None}] /\ visit'[t] = v /\ \A u \in Tabs \ {t} : visit'[u] = visit[u]
  BY <1>1
<1>3. \A u \in Tabs : visit[u] # None => visit[u] \in Visit /\ VisitFits(u, visit[u])
  BY <1>1 DEF VisitsFit
<1>4. ASSUME NEW u \in Tabs, visit'[u] # None
      PROVE  \E w \in Visit : w = visit'[u] /\ VisitFits(u, w)'
  <2>1. CASE u = t
    BY <1>2, <1>4, <2>1
  <2>2. CASE u # t
    BY <1>2, <1>3, <1>4, <2>2
  <2> QED BY <2>1, <2>2
<1>5. VisitsFit'
  <2>1. ASSUME NEW u \in Tabs, visit'[u] # None, NEW w \in Visit, w = visit'[u], VisitFits(u, w)'
        PROVE  VisitFits(u, visit[u])'
    BY <2>1 DEF VisitFits, Using
  <2> QED BY <1>4, <2>1 DEF VisitsFit
<1>6. Alone'
  BY <1>1, <1>2 DEF Alone
<1> QED BY <1>2, <1>5, <1>6

\* What the type invariant says of requests and jars that change.
LEMMA VisitedRow ==
  ASSUME NEW step \in {"begun", "failed", "drop", "exchange"}
  PROVE  /\ Visited(step) \in Visit /\ Visited(step).step = step /\ Visited(step).login = 0
         /\ Visited(step).code = None /\ Visited(step).old = None /\ Visited(step).to = None
  BY SignInBounds DEF Visited, Visit

LEMMA FailedFits == ASSUME SignInInductive, NEW t \in Tabs PROVE VisitFits(t, Visited("failed")) /\ ~Using(Visited("failed"))
<1>1. Visited("failed").login = 0 /\ Visited("failed").step = "failed"
  BY VisitedRow
<1> QED BY <1>1, SignInTypes DEF VisitFits, Using, SignInInductive, SignInSound

\* Steps that add no session and change at most one visit.
LEMMA VisitStep ==
  ASSUME SignInInductive, UNCHANGED <<browserOf, directory, syncs>>,
         login' \in Seq(Login), Len(login') \in Nat, Len(login) <= Len(login'), Len(login') <= MaxLogins,
         \A l \in Logins : login'[l].by = login[l].by /\ (login'[l].open => login[l].open),
         spentCodes \subseteq spentCodes', spentCodes' \subseteq Logins' \X Subjects,
         googleSession' \in [GoogleRows -> GoogleSession \union {None}],
         \A r \in GoogleRows : googleSession'[r] # None => googleSession'[r] = googleSession[r],
         jar' \in [AllBrowsers -> [login : 0..MaxLogins, session : GoogleRows \union {None}]],
         \A b \in AllBrowsers :
           \/ jar'[b].login \in {0, jar[b].login}
           \/ jar'[b].login \in Logins' /\ login'[jar'[b].login].by = b,
         \/ visit' = visit
         \/ \E t \in Tabs, v \in Visit \union {None} :
              /\ visit' = [visit EXCEPT ![t] = v]
              /\ v # None => VisitFits(t, v)'
              /\ v # None /\ Using(v) =>
                   \/ visit[t] # None /\ Using(visit[t]) /\ visit[t].login = v.login
                   \/ \A u \in Tabs : visit[u] # None /\ Using(visit[u]) => visit[u].login # v.login
  PROVE  SignInInductive'
<1>1. /\ \A t \in Tabs, v \in Visit : VisitFits(t, v) => VisitFits(t, v)'
      /\ SessionOfItsLogin' /\ SessionsListed' /\ RowsFit'
      /\ \A b \in AllBrowsers : jar[b].login <= Len(login') /\ (jar[b].login # 0 => login'[jar[b].login].by = b)
  BY SignInFrame
<1>2. visit' \in [Tabs -> Visit \union {None}] /\ VisitsFit' /\ Alone'
  <2>1. CASE visit' = visit
    <3>1. visit \in [Tabs -> Visit \union {None}] /\ VisitsFit /\ Alone
      BY DEF SignInInductive, SignInSound, SignInTypeOK
    <3>2. ASSUME NEW t \in Tabs, visit'[t] # None PROVE VisitFits(t, visit[t])'
      <4>1. PICK v \in Visit : v = visit[t] /\ VisitFits(t, v)
        BY <2>1, <3>1, <3>2 DEF VisitsFit
      <4>2. VisitFits(t, v)' /\ v = visit'[t]
        BY <1>1, <2>1, <4>1
      <4> QED BY <4>2 DEF VisitFits, Using
    <3>3. VisitsFit'
      BY <3>2 DEF VisitsFit
    <3>4. Alone'
      BY <2>1, <3>1 DEF Alone
    <3> QED BY <2>1, <3>1, <3>3, <3>4
  <2>2. CASE visit' # visit
    BY <1>1, <2>2, VisitRow
  <2> QED BY <2>1, <2>2
<1>3. SignInTypeOK'
  BY <1>2 DEF SignInInductive, SignInSound, SignInTypeOK
<1>4. JarsFit'
  <2>1. ASSUME NEW b \in AllBrowsers
        PROVE jar'[b].login <= Len(login') /\ (jar'[b].login # 0 => login'[jar'[b].login].by = b)
    BY <1>1 DEF Logins
  <2> QED BY <2>1 DEF JarsFit
<1> QED BY <1>1, <1>2, <1>3, <1>4 DEF SignInInductive, SignInSound

\* The same of steps that leave the logins alone.
LEMMA VisitOnlyStep ==
  ASSUME SignInInductive, UNCHANGED <<browserOf, directory, login, syncs>>,
         spentCodes \subseteq spentCodes', spentCodes' \subseteq Logins \X Subjects,
         googleSession' \in [GoogleRows -> GoogleSession \union {None}],
         \A r \in GoogleRows : googleSession'[r] # None => googleSession'[r] = googleSession[r],
         jar' \in [AllBrowsers -> [login : 0..MaxLogins, session : GoogleRows \union {None}]],
         \A b \in AllBrowsers :
           \/ jar'[b].login \in {0, jar[b].login}
           \/ jar'[b].login \in Logins /\ login[jar'[b].login].by = b,
         NEW t \in Tabs, NEW v \in Visit \union {None},
         visit' = [visit EXCEPT ![t] = v],
         v # None => VisitFits(t, v)',
         v # None /\ Using(v) =>
           \/ visit[t] # None /\ Using(visit[t]) /\ visit[t].login = v.login
           \/ \A u \in Tabs : visit[u] # None /\ Using(visit[u]) => visit[u].login # v.login
  PROVE  SignInInductive'
<1>1. login \in Seq(Login) /\ Len(login) \in Nat /\ Len(login) <= MaxLogins /\ SignInTypeOK
  BY SignInTypes DEF SignInInductive, SignInSound, SignInTypeOK
<1>2. /\ login' \in Seq(Login) /\ Len(login') \in Nat /\ Len(login) <= Len(login') /\ Len(login') <= MaxLogins
      /\ \A l \in Logins : login'[l].by = login[l].by /\ (login'[l].open => login[l].open)
      /\ Logins' = Logins
  BY <1>1 DEF Logins
<1>3. \A b \in AllBrowsers :
        \/ jar'[b].login \in {0, jar[b].login}
        \/ jar'[b].login \in Logins' /\ login'[jar'[b].login].by = b
  BY <1>2
<1>4. \E x \in Tabs, w \in Visit \union {None} :
        /\ visit' = [visit EXCEPT ![x] = w]
        /\ w # None => VisitFits(x, w)'
        /\ w # None /\ Using(w) =>
             \/ visit[x] # None /\ Using(visit[x]) /\ visit[x].login = w.login
             \/ \A u \in Tabs : visit[u] # None /\ Using(visit[u]) => visit[u].login # w.login
  OBVIOUS
<1>5. spentCodes' \subseteq Logins' \X Subjects
  BY <1>2
<1> QED BY <1>2, <1>3, <1>4, <1>5, VisitStep

-----------------------------------------------------------------------------
LEMMA LoginSteps ==
  ASSUME SignInInductive, NEW t \in Tabs, createLogin(t) \/ LoginBegun(t)
  PROVE  SignInInductive'
<1>1. /\ SignInTypeOK /\ JarsFit /\ login \in Seq(Login) /\ browserOf[t] \in AllBrowsers
      /\ syncs \in Nat /\ MaxLogins \in Nat /\ Len(login) \in Nat
      /\ googleSession \in [GoogleRows -> GoogleSession \union {None}]
      /\ jar \in [AllBrowsers -> [login : 0..MaxLogins, session : GoogleRows \union {None}]]
      /\ visit \in [Tabs -> Visit \union {None}] /\ spentCodes \subseteq Logins \X Subjects
  BY SignInTypes, SignInBounds DEF SignInInductive, SignInSound, SignInTypeOK
<1>2. CASE createLogin(t)
  <2>a. PICK kept : kept = IF JarOf(t).login = 0 THEN login ELSE Gone(JarOf(t).login)
    OBVIOUS
  <2>b. PICK fresh : fresh = [by |-> browserOf[t], open |-> TRUE]
    OBVIOUS
  <2>c. PICK v : v = [Visited("begun") EXCEPT !.login = Len(login) + 1]
    OBVIOUS
  <2>1. /\ kept \in Seq(Login) /\ Len(kept) = Len(login)
        /\ \A k \in Logins : kept[k].by = login[k].by /\ (kept[k].open => login[k].open)
    <3>1. CASE JarOf(t).login = 0
      BY <1>1, <2>a, <3>1
    <3>2. CASE JarOf(t).login # 0
      <4>1. JarOf(t).login \in Logins
        BY <1>1, <3>2, SignInTypes DEF JarsFit, JarOf, Logins
      <4> QED BY <1>1, <2>a, <3>2, <4>1, GoneLogin
    <3> QED BY <3>1, <3>2
  <2>2. fresh \in Login /\ fresh.by = browserOf[t]
    BY <1>1, <2>b DEF Login
  <2>3. login' = Append(kept, fresh) /\ UNCHANGED <<browserOf, directory, spentCodes, googleSession, jar, syncs>>
    BY <1>2, <2>a, <2>b DEF createLogin
  <2>4. Len(login) < MaxLogins /\ visit' = [visit EXCEPT ![t] = v]
    BY <1>1, <1>2, <2>c DEF createLogin
  <2>d. v \in Visit /\ v.step = "begun" /\ v.login = Len(login) + 1
    <3>1. PICK r \in Visit : r = Visited("begun") /\ r.step = "begun"
      BY VisitedRow
    <3>2. Len(login) + 1 \in 0..MaxLogins /\ v = [r EXCEPT !.login = Len(login) + 1]
      BY <1>1, <2>c, <2>4, <3>1
    <3> QED BY ONLY <3>1, <3>2 DEF Visit
  <2>5. /\ login' \in Seq(Login) /\ Len(login') = Len(login) + 1
        /\ \A k \in Logins : login'[k] = kept[k]
        /\ login'[Len(login) + 1] = fresh
    BY ONLY <2>1, <2>2, <2>3, AppendProperties DEF Logins
  <2>6. VisitFits(t, v)' /\ ~Using(v)
    <3>1. browserOf' = browserOf
      BY <2>3
    <3> QED BY <1>1, <2>2, <2>d, <2>5, <3>1 DEF VisitFits, Using
  <2>7. Logins \subseteq Logins' /\ Len(login) <= Len(login') /\ Len(login') \in Nat /\ Len(login') <= MaxLogins
    BY <1>1, <2>4, <2>5 DEF Logins
  <2> QED BY <1>1, <2>1, <2>3, <2>4, <2>d, <2>5, <2>6, <2>7, VisitStep
<1>3. CASE LoginBegun(t)
  <2>1. PICK v \in Visit : v = visit[t] /\ VisitFits(t, v) /\ v.login \in 0..MaxLogins
    BY <1>1, <1>3, SignInTypes DEF LoginBegun, VisitAt, SignInInductive, VisitsFit, Visit
  <2>2. /\ jar' = [jar EXCEPT ![browserOf[t]].login = v.login] /\ visit' = [visit EXCEPT ![t] = None]
        /\ UNCHANGED <<browserOf, directory, login, spentCodes, googleSession, syncs>>
    BY <1>3, <2>1 DEF LoginBegun
  <2>3. /\ jar' \in [AllBrowsers -> [login : 0..MaxLogins, session : GoogleRows \union {None}]]
        /\ \A b \in AllBrowsers : jar'[b].login = IF b = browserOf[t] THEN v.login ELSE jar[b].login
    BY <1>1, <2>1, <2>2
  <2>4. v.login # 0 => v.login \in Logins /\ login[v.login].by = browserOf[t]
    BY <1>1, <2>1 DEF VisitFits, Logins
  <2>5. \A b \in AllBrowsers :
           \/ jar'[b].login \in {0, jar[b].login}
           \/ jar'[b].login \in Logins /\ login[jar'[b].login].by = b
    BY <2>3, <2>4
  <2>6. PICK w \in Visit \union {None} : w = None
    OBVIOUS
  <2> QED BY <1>1, <2>2, <2>3, <2>5, <2>6, VisitOnlyStep
<1> QED BY <1>2, <1>3

\* What is given in every step of a request.
LEMMA SignInFacts ==
  ASSUME SignInInductive
  PROVE  /\ SignInTypeOK /\ SessionOfItsLogin /\ SessionsListed /\ VisitsFit /\ Alone /\ JarsFit /\ RowsFit
         /\ spentCodes \subseteq Logins \X Subjects
         /\ googleSession \in [GoogleRows -> GoogleSession \union {None}]
         /\ jar \in [AllBrowsers -> [login : 0..MaxLogins, session : GoogleRows \union {None}]]
         /\ visit \in [Tabs -> Visit \union {None}]
         /\ \A t \in Tabs : visit[t] # None => visit[t] \in Visit /\ VisitFits(t, visit[t])
         /\ \A t \in Tabs : browserOf[t] \in AllBrowsers
         /\ \A r \in GoogleRows \union {None} :
              /\ WithoutRow(r) \in [GoogleRows -> GoogleSession \union {None}]
              /\ \A q \in GoogleRows : WithoutRow(r)[q] # None => WithoutRow(r)[q] = googleSession[q]
<1>1. SignInTypeOK /\ googleSession \in [GoogleRows -> GoogleSession \union {None}] /\ VisitsFit
  BY DEF SignInInductive, SignInSound, SignInTypeOK
<1>2. \A t \in Tabs : browserOf[t] \in AllBrowsers /\ (visit[t] # None => visit[t] \in Visit)
  BY <1>1, SignInTypes
<1>3. \A r \in GoogleRows \union {None} :
        /\ WithoutRow(r) \in [GoogleRows -> GoogleSession \union {None}]
        /\ \A q \in GoogleRows : WithoutRow(r)[q] # None => WithoutRow(r)[q] = googleSession[q]
  BY <1>1 DEF WithoutRow
<1> QED BY <1>1, <1>2, <1>3 DEF SignInInductive, SignInSound, SignInTypeOK, VisitsFit

LEMMA CallbackStep ==
  ASSUME SignInInductive, NEW t \in Tabs, NEW c \in Logins \X Subjects, Callback(t, c)
  PROVE  SignInInductive'
<1>1. PICK l : l = JarOf(t).login
  OBVIOUS
<1>2. PICK old \in GoogleRows \union {None} : old = JarOf(t).session
  BY SignInFacts, SignInTypes DEF JarOf
<1>3. /\ login \in Seq(Login) /\ Len(login) \in Nat /\ Len(login) <= MaxLogins
      /\ l \in Nat /\ l <= Len(login) /\ (l # 0 => l \in Logins /\ login[l].by = browserOf[t])
  <2>1. login \in Seq(Login) /\ Len(login) \in Nat /\ Len(login) <= MaxLogins
    BY SignInFacts, SignInTypes DEF SignInTypeOK
  <2>2. l \in Nat /\ l <= Len(login) /\ (l # 0 => login[l].by = browserOf[t])
    BY <1>1, SignInFacts, SignInTypes DEF JarsFit, JarOf
  <2> QED BY <2>1, <2>2 DEF Logins
<1>4. PICK v : v = IF l # 0 /\ login[l].open /\ c[1] = l
                   THEN [Visited("exchange") EXCEPT !.login = l, !.code = c, !.old = old]
                   ELSE Visited("failed")
  OBVIOUS
<1>5. /\ login' = consumeLogin(l) /\ visit' = [visit EXCEPT ![t] = v]
      /\ UNCHANGED <<browserOf, directory, spentCodes, googleSession, jar, syncs>>
  BY <1>1, <1>2, <1>4 DEF Callback
<1>6. /\ login' \in Seq(Login) /\ Len(login') = Len(login) /\ (l # 0 => ~login'[l].open)
      /\ \A k \in Logins : login'[k].by = login[k].by /\ (login'[k].open => login[k].open)
  BY <1>3, <1>5, GoneLogin, SignInFacts DEF consumeLogin
<1>9. /\ visit' = [visit EXCEPT ![t] = v] /\ UNCHANGED <<browserOf, directory, syncs>>
      /\ login' \in Seq(Login) /\ Len(login') \in Nat /\ Len(login) <= Len(login') /\ Len(login') <= MaxLogins
      /\ \A k \in Logins : login'[k].by = login[k].by /\ (login'[k].open => login[k].open)
      /\ spentCodes \subseteq spentCodes' /\ spentCodes' \subseteq Logins' \X Subjects
      /\ googleSession' \in [GoogleRows -> GoogleSession \union {None}]
      /\ \A r \in GoogleRows : googleSession'[r] # None => googleSession'[r] = googleSession[r]
      /\ jar' \in [AllBrowsers -> [login : 0..MaxLogins, session : GoogleRows \union {None}]]
      /\ \A b \in AllBrowsers : jar'[b].login \in {0, jar[b].login}
  <2>1. Logins' = Logins
    BY <1>6 DEF Logins
  <2> QED BY <1>3, <1>5, <1>6, <2>1, SignInFacts
<1>7. CASE l # 0 /\ login[l].open /\ c[1] = l
  <2>1. c \in (1..MaxLogins) \X Subjects
    <3>1. c[1] \in Logins /\ c[2] \in Subjects /\ c = <<c[1], c[2]>>
      OBVIOUS
    <3>2. c[1] \in 1..MaxLogins
      BY <1>3, <3>1, SignInBounds DEF Logins
    <3> QED BY <3>1, <3>2
  <2>2. v \in Visit /\ v.step = "exchange" /\ v.login = l /\ v.code = c
    <3>1. PICK x \in Visit : x = Visited("exchange") /\ x.step = "exchange"
      BY VisitedRow
    <3>2. v = [x EXCEPT !.login = l, !.code = c, !.old = old] /\ l \in 0..MaxLogins
      BY <1>3, <1>4, <1>7, <3>1, SignInBounds
    <3> QED BY ONLY <2>1, <3>1, <3>2, old \in GoogleRows \union {None} DEF Visit
  <2>3. l \in Logins /\ Len(login') = Len(login) /\ login'[l].by = browserOf'[t] /\ ~login'[l].open
    BY <1>3, <1>5, <1>6, <1>7
  <2>4. \A r \in GoogleRows : googleSession'[r] # None => googleSession'[r].login # l
    BY <1>5, <1>7, SignInFacts DEF SessionOfItsLogin
  <2>5. VisitFits(t, v)'
    <3>1. v.login <= Len(login') /\ login'[v.login].by = browserOf'[t] /\ v.login # 0 /\ ~login'[v.login].open
      BY <1>3, <1>7, <2>2, <2>3
    <3>2. v.code[1] = v.login
      BY <1>7, <2>2
    <3> QED BY ONLY <2>1, <2>2, <2>4, <3>1, <3>2 DEF VisitFits, Using
  <2>6. ASSUME NEW u \in Tabs, visit[u] # None, Using(visit[u]), visit[u].login = v.login PROVE FALSE
    <3>1. VisitFits(u, visit[u]) /\ login[visit[u].login].open
      BY <1>7, <2>2, <2>6, SignInFacts
    <3> QED BY <2>6, <3>1 DEF VisitFits
  <2>7. \A u \in Tabs : visit[u] # None /\ Using(visit[u]) => visit[u].login # v.login
    BY <2>6
  <2> QED BY <1>9, <2>2, <2>5, <2>7, VisitStep
<1>8. CASE ~(l # 0 /\ login[l].open /\ c[1] = l)
  <2>1. v = Visited("failed") /\ v \in Visit
    BY <1>4, <1>8, VisitedRow
  <2>2. VisitFits(t, v)' /\ ~Using(v)
    <3>1. v.login = 0 /\ v.step = "failed"
      BY <2>1, VisitedRow
    <3> QED BY <1>3, <1>6, <3>1 DEF VisitFits, Using
  <2> QED BY <1>9, <2>1, <2>2, VisitStep
<1> QED BY <1>7, <1>8

LEMMA ExchangeSteps ==
  ASSUME SignInInductive, NEW t \in Tabs, exchange(t) \/ ExchangeFails(t)
  PROVE  SignInInductive'
<1>1. PICK x \in Visit : /\ x = visit[t] /\ VisitFits(t, x) /\ x.step = "exchange" /\ x.login \in Nat
                         /\ x.code \in (1..MaxLogins) \X Subjects /\ x.code[1] = x.login
  <2>1. visit[t] # None /\ visit[t].step = "exchange"
    BY DEF exchange, ExchangeFails, VisitAt
  <2>2. PICK w \in Visit : w = visit[t] /\ VisitFits(t, w)
    BY <2>1, SignInFacts
  <2>3. w.login \in Nat
    BY <2>2, SignInBounds DEF Visit
  <2> QED BY <2>1, <2>2, <2>3 DEF VisitFits
<1>2. UNCHANGED <<browserOf, directory, login, googleSession, jar, syncs>> /\ Len(login) \in Nat
  BY SignInFacts, SignInTypes DEF exchange, ExchangeFails
<1>3. PICK f \in Visit : f = Visited("failed") /\ f.step = "failed" /\ f.login = 0
  BY VisitedRow
<1>4. VisitFits(t, f)' /\ ~Using(f)
  BY <1>2, <1>3 DEF VisitFits, Using
<1>5. x.code \in Logins \X Subjects /\ x.code = <<x.login, x.code[2]>>
  <2>1. x.code = <<x.code[1], x.code[2]>> /\ x.code[2] \in Subjects
    BY <1>1
  <2>2. x.login \in Logins
    BY <1>1, <1>2 DEF VisitFits, Logins
  <2>3. x.code = <<x.login, x.code[2]>>
    BY <1>1, <2>1
  <2> QED BY <2>1, <2>2, <2>3
<1>6. CASE exchange(t)
  <2>1. PICK s \in Subjects : s = x.code[2] /\ x.code = <<x.login, s>> /\ x.code \in Logins \X Subjects
    BY <1>1, <1>5, <1>6 DEF exchange
  <2>2. spentCodes' = spentCodes \union {<<x.login, s>>} /\ spentCodes \subseteq spentCodes' /\ spentCodes' \subseteq Logins \X Subjects
    BY <1>1, <1>6, <2>1, SignInFacts DEF exchange
  <2>3. PICK v : v = IF findIdentity(s) THEN [x EXCEPT !.step = "drop", !.code = None, !.subject = s] ELSE f
    OBVIOUS
  <2>4. visit' = [visit EXCEPT ![t] = v]
    BY <1>1, <1>3, <1>6, <2>1, <2>3 DEF exchange
  <2>5. CASE findIdentity(s)
    <3>1. v \in Visit /\ v.step = "drop" /\ v.login = x.login /\ v.subject = s
      BY <2>3, <2>5 DEF Visit
    <3>2. VisitFits(t, v)'
      BY <1>1, <1>2, <2>2, <2>5, <3>1 DEF VisitFits, Using, findIdentity
    <3>3. Using(v) => visit[t] # None /\ Using(visit[t]) /\ visit[t].login = v.login
      BY <1>1, <3>1, SignInNames DEF Using
    <3> QED BY <1>2, <2>2, <2>4, <3>1, <3>2, <3>3, SignInFacts, VisitOnlyStep
  <2>6. CASE ~findIdentity(s)
    <3>1. v = f
      BY <2>3, <2>6
    <3> QED BY <1>2, <1>4, <2>2, <2>4, <3>1, SignInFacts, VisitOnlyStep
  <2> QED BY <2>5, <2>6
<1>7. CASE ExchangeFails(t)
  <2>1. /\ spentCodes' \in {spentCodes, spentCodes \union {x.code}} /\ visit' = [visit EXCEPT ![t] = f]
    BY <1>1, <1>3, <1>7 DEF ExchangeFails
  <2>2. spentCodes \subseteq spentCodes' /\ spentCodes' \subseteq Logins \X Subjects
    BY <1>5, <2>1, SignInFacts
  <2> QED BY <1>2, <1>3, <1>4, <2>1, <2>2, SignInFacts, VisitOnlyStep
<1> QED BY <1>6, <1>7

LEMMA PasswordSteps ==
  ASSUME SignInInductive, NEW t \in Tabs, NEW s \in Subjects, findPasswordIdentity(t, s)
  PROVE  SignInInductive'
<1>1. PICK old \in GoogleRows \union {None} : old = JarOf(t).session
  BY SignInFacts, SignInTypes DEF JarOf
<1>2. PICK d \in Visit : d = Visited("drop") /\ d.step = "drop" /\ d.login = 0
  BY VisitedRow
<1>a. PICK v : v = [d EXCEPT !.subject = s, !.old = old]
  OBVIOUS
<1>3. v \in Visit /\ v.step = "drop" /\ v.login = 0 /\ v.subject = s
  BY ONLY <1>2, <1>a, s \in Subjects, old \in GoogleRows \union {None} DEF Visit
<1>4. /\ visit' = [visit EXCEPT ![t] = v] /\ findIdentity(s)
      /\ UNCHANGED <<browserOf, directory, login, spentCodes, googleSession, jar, syncs>>
  BY <1>1, <1>2, <1>a DEF findPasswordIdentity
<1>5. VisitFits(t, v)' /\ ~Using(v)
  BY <1>3, <1>4, SignInFacts, SignInTypes DEF VisitFits, Using, findIdentity
<1> QED BY <1>3, <1>4, <1>5, SignInFacts, VisitOnlyStep

LEMMA DropSteps ==
  ASSUME SignInInductive, NEW t \in Tabs, DropOld(t)
  PROVE  SignInInductive'
<1>1. PICK x \in Visit : x = visit[t] /\ VisitFits(t, x) /\ x.step = "drop"
  BY SignInFacts DEF DropOld, VisitAt
<1>a. PICK v : v = [x EXCEPT !.step = "store", !.old = None]
  OBVIOUS
<1>2. v \in Visit /\ v.step = "store" /\ v.login = x.login /\ v.subject = x.subject
  BY ONLY x \in Visit, <1>a DEF Visit
<1>3. /\ visit' = [visit EXCEPT ![t] = v] /\ googleSession' = WithoutRow(x.old)
      /\ UNCHANGED <<browserOf, directory, login, spentCodes, jar, syncs>>
  BY <1>1, <1>a DEF DropOld
<1>4. /\ googleSession' \in [GoogleRows -> GoogleSession \union {None}]
      /\ \A q \in GoogleRows : googleSession'[q] # None => googleSession'[q] = googleSession[q]
  BY <1>1, <1>3, SignInFacts DEF Visit
<1>5. VisitFits(t, v)'
  BY <1>1, <1>2, <1>3, <1>4 DEF VisitFits, Using
<1>6. Using(v) => visit[t] # None /\ Using(visit[t]) /\ visit[t].login = v.login
  BY <1>1, <1>2, SignInNames DEF Using
<1> QED BY <1>2, <1>3, <1>4, <1>5, <1>6, SignInFacts, VisitOnlyStep

\* The session is the only one of its login, and the account's entry has not changed since it was read.
LEMMA SessionSteps ==
  ASSUME SignInInductive, NEW t \in Tabs, createSession(t)
  PROVE  SignInInductive'
<1>1. PICK x \in Visit : x = visit[t] /\ VisitFits(t, x) /\ x.step = "store" /\ x # None /\ x.login \in Nat
  BY SignInFacts, SignInTypes DEF createSession, VisitAt
<1>2. PICK r \in GoogleRows : /\ r = (CHOOSE y \in UnusedRows : TRUE) /\ googleSession[r] = None
  BY DEF createSession, UnusedRows
<1>3. PICK g : g = [subject |-> x.subject, hash |-> directory[x.subject].hash, by |-> browserOf[t], login |-> x.login]
  OBVIOUS
<1>a. PICK v : v = [x EXCEPT !.step = "signed", !.to = r]
  OBVIOUS
<1>4. v \in Visit /\ v.step = "signed" /\ v.login = x.login
  BY ONLY x \in Visit, <1>a, r \in GoogleRows DEF Visit
<1>5. /\ visit' = [visit EXCEPT ![t] = v] /\ googleSession' = [googleSession EXCEPT ![r] = g]
      /\ UNCHANGED <<browserOf, directory, login, spentCodes, jar, syncs>>
  BY <1>1, <1>2, <1>3, <1>a DEF createSession
<1>6. x.subject \in Subjects /\ directory[x.subject].listed /\ (x.login # 0 => <<x.login, x.subject>> \in spentCodes)
  BY <1>1 DEF VisitFits
<1>7. /\ g \in GoogleSession /\ g # None /\ g.subject = x.subject /\ g.login = x.login /\ g.by = browserOf[t]
      /\ g.hash = directory[x.subject].hash
  <2>1. directory[x.subject] \in Entry
    BY <1>6, SignInFacts DEF SignInTypeOK
  <2> QED BY <1>1, <1>3, <1>6, <2>1, SignInNames, SignInFacts DEF GoogleSession, Entry, Visit
<1>8. x.login <= Len(login) /\ Len(login) \in Nat
      /\ (x.login # 0 => /\ login[x.login].by = browserOf[t] /\ ~login[x.login].open
                         /\ \A q \in GoogleRows : googleSession[q] # None => googleSession[q].login # x.login)
  BY <1>1, SignInFacts, SignInTypes DEF VisitFits, Using
<1>9. /\ googleSession' \in [GoogleRows -> GoogleSession \union {None}] /\ googleSession'[r] = g
      /\ \A q \in GoogleRows \ {r} : googleSession'[q] = googleSession[q]
  BY <1>5, <1>7, SignInFacts
<1>10. SignInTypeOK' /\ visit' \in [Tabs -> Visit \union {None}] /\ visit'[t] = v
       /\ \A u \in Tabs \ {t} : visit'[u] = visit[u]
  <2>1. /\ visit' \in [Tabs -> Visit \union {None}] /\ visit'[t] = v
        /\ \A u \in Tabs \ {t} : visit'[u] = visit[u]
    BY <1>4, <1>5, SignInFacts
  <2> QED BY <1>5, <1>9, <2>1, SignInFacts DEF SignInTypeOK, Logins
<1>11. SessionOfItsLogin'
  <2>1. ASSUME NEW q \in GoogleRows, googleSession'[q] # None, googleSession'[q].login # 0
        PROVE  LET h == googleSession'[q] IN
               login'[h.login].by = h.by /\ ~login'[h.login].open /\ <<h.login, h.subject>> \in spentCodes'
    <3>1. CASE q = r
      BY <1>5, <1>6, <1>7, <1>8, <1>9, <2>1, <3>1
    <3>2. CASE q # r
      BY <1>5, <1>9, <2>1, <3>2, SignInFacts DEF SessionOfItsLogin
    <3> QED BY <3>1, <3>2
  <2>2. ASSUME NEW p \in GoogleRows, NEW q \in GoogleRows, googleSession'[p] # None, googleSession'[q] # None,
               googleSession'[p].login = googleSession'[q].login, googleSession'[p].login # 0
        PROVE  p = q
    <3>1. CASE p # r /\ q # r
      BY <1>9, <2>2, <3>1, SignInFacts DEF SessionOfItsLogin
    <3>2. CASE p = r /\ q # r
      BY <1>7, <1>8, <1>9, <2>2, <3>2
    <3>3. CASE p # r /\ q = r
      BY <1>7, <1>8, <1>9, <2>2, <3>3
    <3> QED BY <3>1, <3>2, <3>3
  <2> QED BY <2>1, <2>2 DEF SessionOfItsLogin
<1>12. SessionsListed' /\ RowsFit'
  <2>1. ASSUME NEW q \in GoogleRows, googleSession'[q] # None
        PROVE  /\ directory'[googleSession'[q].subject].listed
               /\ directory'[googleSession'[q].subject].hash = googleSession'[q].hash
               /\ googleSession'[q].login <= Len(login')
    <3>1. CASE q = r
      BY <1>5, <1>6, <1>7, <1>8, <1>9, <3>1
    <3>2. CASE q # r
      BY <1>5, <1>9, <2>1, <3>2, SignInFacts DEF SessionsListed, RowsFit
    <3> QED BY <3>1, <3>2
  <2> QED BY <2>1 DEF SessionsListed, RowsFit
<1>13. VisitsFit'
  <2>1. ASSUME NEW u \in Tabs, visit'[u] # None, NEW w \in Visit, w = visit'[u]
        PROVE  VisitFits(u, w)'
    <3>1. CASE u = t
      BY <1>1, <1>4, <1>5, <1>8, <1>10, <2>1, <3>1 DEF VisitFits, Using
    <3>2. CASE u # t
      <4>1. w = visit[u] /\ visit[u] # None /\ VisitFits(u, w)
        BY <1>10, <2>1, <3>2, SignInFacts
      <4>2. Using(w) => w.login # x.login
        <5>1. ASSUME Using(w), w.login = x.login PROVE FALSE
          <6>1. Using(x)
            BY <1>1, <5>1 DEF Using
          <6> QED BY <1>1, <3>2, <4>1, <5>1, <6>1, SignInFacts DEF Alone
        <5> QED BY <5>1
      <4>3. Using(w) => \A q \in GoogleRows : googleSession'[q] # None => googleSession'[q].login # w.login
        BY <1>7, <1>9, <4>1, <4>2 DEF VisitFits
      <4> QED BY <1>5, <4>1, <4>3 DEF VisitFits
    <3> QED BY <3>1, <3>2
  <2>2. ASSUME NEW u \in Tabs, visit'[u] # None PROVE VisitFits(u, visit[u])'
    <3>1. PICK w \in Visit : w = visit'[u] /\ VisitFits(u, w)'
      BY <1>10, <2>1, <2>2
    <3> QED BY <3>1 DEF VisitFits, Using
  <2> QED BY <2>2 DEF VisitsFit
<1>14. Alone'
  <2>1. ~Using(v)
    BY <1>4 DEF Using
  <2> QED BY <1>10, <2>1, SignInFacts DEF Alone
<1>15. JarsFit'
  BY <1>5, SignInFacts DEF JarsFit
<1> QED BY <1>10, <1>11, <1>12, <1>13, <1>14, <1>15 DEF SignInInductive, SignInSound

LEMMA AnswerSteps ==
  ASSUME SignInInductive, NEW t \in Tabs, SignInAnswered(t) \/ VisitLost(t)
  PROVE  SignInInductive'
<1>1. PICK x \in Visit : x = visit[t]
  BY SignInFacts DEF SignInAnswered, VisitLost
<1>2. PICK w \in Visit \union {None} : w = None
  OBVIOUS
<1>3. /\ visit' = [visit EXCEPT ![t] = w]
      /\ UNCHANGED <<browserOf, directory, login, spentCodes, googleSession, syncs>>
  BY <1>2 DEF SignInAnswered, VisitLost
<1>4. /\ jar' \in [AllBrowsers -> [login : 0..MaxLogins, session : GoogleRows \union {None}]]
      /\ \A b \in AllBrowsers : jar'[b].login \in {0, jar[b].login}
  <2>1. CASE SignInAnswered(t)
    <3>1. PICK b \in AllBrowsers : b = browserOf[t]
      BY SignInFacts
    <3>2. PICK l : l = IF x.step = "failed" \/ x.login # 0 THEN 0 ELSE jar[b].login
      OBVIOUS
    <3>3. PICK r : r = IF x.step = "signed" THEN x.to ELSE jar[b].session
      OBVIOUS
    <3>4. jar' = [jar EXCEPT ![b].login = l, ![b].session = r]
      BY <1>1, <2>1, <3>1, <3>2, <3>3 DEF SignInAnswered
    <3>5. l \in 0..MaxLogins /\ r \in GoogleRows \union {None} /\ l \in {0, jar[b].login}
      BY <1>1, <3>2, <3>3, SignInBounds, SignInFacts DEF Visit
    <3>6. jar \in [AllBrowsers -> [login : 0..MaxLogins, session : GoogleRows \union {None}]]
      BY SignInFacts
    <3> QED BY ONLY <3>1, <3>4, <3>5, <3>6
  <2>2. CASE VisitLost(t)
    BY <2>2, SignInFacts DEF VisitLost
  <2> QED BY <2>1, <2>2
<1> QED BY <1>2, <1>3, <1>4, SignInFacts, VisitOnlyStep

LEMMA SignOutSteps ==
  ASSUME SignInInductive, NEW t \in Tabs, SignOut(t)
  PROVE  SignInInductive'
<1>1. PICK r \in GoogleRows \union {None} : r = JarOf(t).session
  BY SignInFacts, SignInTypes DEF JarOf
<1>2. /\ googleSession' = WithoutRow(r) /\ jar' = [jar EXCEPT ![browserOf[t]].session = None]
      /\ UNCHANGED <<browserOf, directory, login, spentCodes, visit, syncs>> /\ visit[t] = None
  BY <1>1 DEF SignOut
<1>3. /\ jar' \in [AllBrowsers -> [login : 0..MaxLogins, session : GoogleRows \union {None}]]
      /\ \A b \in AllBrowsers : jar'[b].login = jar[b].login
  BY <1>2, SignInFacts
<1>4. PICK w \in Visit \union {None} : w = None /\ visit' = [visit EXCEPT ![t] = w]
  BY <1>2, SignInFacts
<1> QED BY <1>2, <1>3, <1>4, SignInFacts, VisitOnlyStep

\* A login or a session outdated.
LEMMA AgeSteps ==
  ASSUME SignInInductive, \/ \E l \in Logins : TenMinutesLater(l)
                          \/ \E r \in GoogleRows : RowExpires(r)
  PROVE  SignInInductive'
<1>1. login \in Seq(Login) /\ Len(login) \in Nat /\ Len(login) <= MaxLogins
  BY SignInFacts, SignInTypes DEF SignInTypeOK
<1>2. UNCHANGED <<browserOf, directory, spentCodes, jar, visit, syncs>>
  BY DEF TenMinutesLater, RowExpires
<1>3. /\ login' \in Seq(Login) /\ Len(login') = Len(login)
      /\ \A k \in Logins : login'[k].by = login[k].by /\ (login'[k].open => login[k].open)
  <2>1. CASE \E l \in Logins : TenMinutesLater(l)
    BY <2>1, GoneLogin, SignInFacts DEF TenMinutesLater
  <2>2. CASE \E r \in GoogleRows : RowExpires(r)
    BY <1>1, <2>2 DEF RowExpires
  <2> QED BY <2>1, <2>2
<1>4. /\ googleSession' \in [GoogleRows -> GoogleSession \union {None}]
      /\ \A q \in GoogleRows : googleSession'[q] # None => googleSession'[q] = googleSession[q]
  BY SignInFacts DEF TenMinutesLater, RowExpires
<1>5. Len(login') \in Nat /\ Len(login) <= Len(login') /\ Len(login') <= MaxLogins /\ Logins' = Logins
  BY <1>1, <1>3 DEF Logins
<1>6. /\ spentCodes' \subseteq Logins' \X Subjects /\ spentCodes \subseteq spentCodes'
      /\ jar' \in [AllBrowsers -> [login : 0..MaxLogins, session : GoogleRows \union {None}]]
      /\ \A b \in AllBrowsers : jar'[b].login \in {0, jar[b].login}
  BY <1>2, <1>5, SignInFacts
<1> QED BY <1>1, <1>2, <1>3, <1>4, <1>5, <1>6, VisitStep

\* A restart reads the directory: no request lives on, and no session whose entry changed.
LEMMA DirectorySteps ==
  ASSUME SignInInductive, NEW s \in Subjects, NEW entry \in Entry, syncIdentities(s, entry)
  PROVE  SignInInductive'
<1>1. PICK entries : entries = [directory EXCEPT ![s] = IF entry.listed THEN entry ELSE [@ EXCEPT !.listed = FALSE]]
  OBVIOUS
<1>2. /\ Len(login) + syncs < MaxLogins /\ syncs' = syncs + 1 /\ directory' = entries
      /\ googleSession' = [r \in GoogleRows |-> IF EndedBy(r, entries) THEN None ELSE googleSession[r]]
      /\ visit' = [t \in Tabs |-> None] /\ UNCHANGED <<browserOf, login, spentCodes, jar>>
  BY <1>1 DEF syncIdentities
<1>3. entries \in [Subjects -> Entry]
  <2>1. directory[s] \in Entry /\ directory \in [Subjects -> Entry]
    BY SignInFacts DEF SignInTypeOK
  <2>2. [directory[s] EXCEPT !.listed = FALSE] \in Entry
    BY <2>1 DEF Entry
  <2> QED BY <1>1, <2>1, <2>2
<1>4. /\ googleSession' \in [GoogleRows -> GoogleSession \union {None}]
      /\ \A r \in GoogleRows : googleSession'[r] # None =>
           /\ googleSession'[r] = googleSession[r] /\ entries[googleSession[r].subject].listed
           /\ entries[googleSession[r].subject].hash = directory[googleSession[r].subject].hash
  BY <1>2, SignInFacts DEF EndedBy
<1>5. SignInTypeOK'
  <2>1. syncs \in Nat /\ Len(login) \in Nat /\ syncs + 1 \in 0..MaxLogins
    BY <1>2, SignInFacts, SignInTypes, SignInBounds DEF SignInTypeOK
  <2>2. visit' \in [Tabs -> Visit \union {None}]
    BY <1>2
  <2> QED BY <1>2, <1>3, <1>4, <2>1, <2>2, SignInFacts DEF SignInTypeOK, Logins
<1>6. SessionOfItsLogin' /\ RowsFit'
  BY <1>2, <1>4, SignInFacts DEF SessionOfItsLogin, RowsFit
<1>7. SessionsListed'
  BY <1>2, <1>4, SignInFacts DEF SessionsListed
<1>8. VisitsFit' /\ Alone' /\ JarsFit'
  BY <1>2, SignInFacts DEF VisitsFit, Alone, JarsFit
<1> QED BY <1>5, <1>6, <1>7, <1>8 DEF SignInInductive, SignInSound

LEMMA SignInInductiveStep == SignInInductive /\ [SignInNext]_signInVars => SignInInductive'
<1> SUFFICES ASSUME SignInInductive, [SignInNext]_signInVars PROVE SignInInductive'
  OBVIOUS
<1>1. CASE SignInNext
  BY <1>1, LoginSteps, CallbackStep, ExchangeSteps, PasswordSteps, DropSteps, SessionSteps, AnswerSteps,
     SignOutSteps, AgeSteps, DirectorySteps DEF SignInNext
<1>2. CASE UNCHANGED signInVars
  BY <1>2 DEF signInVars, SignInInductive, SignInSound, SignInTypeOK, SessionOfItsLogin, SessionsListed, VisitsFit,
     Alone, JarsFit, RowsFit, VisitFits, Using, Logins
<1> QED BY <1>1, <1>2

\* Google sign-in: a login gives at most one session, for a subject Google
\* vouched for in it and in the browser that began it, and every session is of
\* a listed subject with the password hash of today.
THEOREM SignInSoundHolds == SignInSpec => []SignInSound
<1>1. SignInSpec => []SignInInductive
  BY SignInInductiveInit, SignInInductiveStep, PTL DEF SignInSpec
<1>2. SignInInductive => SignInSound
  BY DEF SignInInductive
<1> QED BY <1>1, <1>2, PTL

(***************************************************************************)
(* Conversations.  Every run has a thread, every message is about a run    *)
(* that exists, and the approvals of legacy runs have no deadline.         *)
(***************************************************************************)
RunFits(r) ==
  /\ agentRun[r].thread \in AllThreads
  /\ agentRun[r].legacy => ~agentRun[r].late /\ ChatOf(r) # None
RunsFit == \A r \in AllRuns : RunFits(r)
MessagesFit == \A c \in Chats : \A i \in DOMAIN chat[c] : chat[c][i].about \in AllRuns

TalkInductive == ConversationsSound /\ RunsFit /\ MessagesFit

LEMMA TalkInductiveInit == ASSUME TalkInit PROVE TalkInductive
<1>1. /\ Len(thread) = 0 /\ Len(agentRun) = 0 /\ thread \in Seq(Chats \union {None}) /\ agentRun \in Seq(RunRow)
      /\ AllRuns = {} /\ AllThreads = {} /\ DOMAIN qa = {} /\ DOMAIN recent = {}
  BY EmptySeq DEF TalkInit, AllRuns, AllThreads
<1>2. TalkTypeOK
  <2>1. chat \in [Chats -> Seq(Message)]
    BY EmptySeq DEF TalkInit
  <2>2. recent \in [AllThreads -> AllThreads]
    BY <1>1, EmptySeq DEF TalkInit, AllThreads
  <2> QED BY <1>1, <2>1, <2>2 DEF TalkInit, TalkTypeOK
<1>3. \A c \in Chats : DOMAIN chat[c] = {}
  BY DEF TalkInit
<1> QED BY <1>1, <1>2, <1>3
     DEF TalkInductive, ConversationsSound, OneActiveRun, LegacyAgrees, ReleasedByPerson, OutcomesTold, RunsFit, MessagesFit

-----------------------------------------------------------------------------
\* How often a message is in a sequence.
Times(s, x) == Cardinality({i \in DOMAIN s : s[i] = x})

LEMMA TimesAppend ==
  ASSUME NEW s \in Seq(Message), NEW m \in Message, NEW x
  PROVE  /\ Append(s, m) \in Seq(Message) /\ DOMAIN Append(s, m) = DOMAIN s \union {Len(s) + 1}
         /\ Len(s) \in Nat /\ DOMAIN s = 1..Len(s) /\ Append(s, m)[Len(s) + 1] = m
         /\ \A i \in DOMAIN s : Append(s, m)[i] = s[i]
         /\ Times(s, x) \in Nat
         /\ Times(Append(s, m), x) = Times(s, x) + IF m = x THEN 1 ELSE 0
<1>1. /\ Append(s, m) \in Seq(Message) /\ DOMAIN Append(s, m) = DOMAIN s \union {Len(s) + 1}
      /\ Len(s) \in Nat /\ DOMAIN s = 1..Len(s) /\ Append(s, m)[Len(s) + 1] = m
      /\ \A i \in DOMAIN s : Append(s, m)[i] = s[i]
  BY AppendProperties, LenProperties
<1>2. PICK at : at = {i \in DOMAIN s : s[i] = x}
  OBVIOUS
<1>3. IsFiniteSet(at) /\ Cardinality(at) \in Nat
  <2>1. IsFiniteSet(1..Len(s))
    BY <1>1, FS_Interval
  <2>2. at \subseteq 1..Len(s)
    BY <1>1, <1>2
  <2> QED BY <2>1, <2>2, FS_Subset, FS_CardinalityType
<1>4. {i \in DOMAIN Append(s, m) : Append(s, m)[i] = x} = IF m = x THEN at \union {Len(s) + 1} ELSE at
  BY <1>1, <1>2
<1>5. Len(s) + 1 \notin at
  BY <1>1, <1>2
<1>6. Cardinality(at \union {Len(s) + 1}) = Cardinality(at) + 1
  BY <1>3, <1>5, FS_AddElement
<1>7. Times(s, x) = Cardinality(at)
  BY <1>2, Zenon DEF Times
<1>8. Times(Append(s, m), x) = Cardinality(IF m = x THEN at \union {Len(s) + 1} ELSE at)
  BY <1>4, Zenon DEF Times
<1>9. Times(s, x) \in Nat /\ Times(Append(s, m), x) = Times(s, x) + (IF m = x THEN 1 ELSE 0)
  BY <1>3, <1>6, <1>7, <1>8
<1> QED BY <1>1, <1>9

LEMMA TimesNone ==
  ASSUME NEW s \in Seq(Message), NEW x, \A i \in DOMAIN s : s[i] # x
  PROVE  Times(s, x) = 0
<1>1. {i \in DOMAIN s : s[i] = x} = {}
  OBVIOUS
<1> QED BY <1>1, FS_EmptySet DEF Times

-----------------------------------------------------------------------------
\* What a conversation says of a generic run in it: `asks` requests, and its outcome once, last.
Outcome(row) == IF row.status \in TerminalRun /\ row.reason # "APPROVAL_REJECTED" THEN 1 ELSE 0
Mention(r, what) == [about |-> r, what |-> what]
Told(s, r, row) ==
  /\ Times(s, Mention(r, "waiting")) = row.asks
  /\ Times(s, Mention(r, "outcome")) = Outcome(row)
  /\ \A i, j \in DOMAIN s : i < j /\ s[i] = Mention(r, "outcome") => s[j].about # r

LEMMA OutcomesAreTold ==
  OutcomesTold <=>
    \A r \in AllRuns, c \in Chats :
      /\ c # ChatOf(r) => \A i \in DOMAIN chat[c] : chat[c][i].about # r
      /\ ~agentRun[r].legacy /\ c = ChatOf(r) => Told(chat[c], r, agentRun[r])
  BY DEF OutcomesTold, About, Told, Mention, Times, Outcome

\* One more message about the run.
LEMMA ToldMore ==
  ASSUME NEW s \in Seq(Message), NEW r \in Nat, NEW row, NEW after, NEW what \in {"queued", "prepared", "waiting", "outcome"},
         Told(s, r, row), Outcome(row) = 0, row.asks \in Nat,
         after.asks = row.asks + IF what = "waiting" THEN 1 ELSE 0,
         Outcome(after) = IF what = "outcome" THEN 1 ELSE 0
  PROVE  Told(Append(s, Mention(r, what)), r, after)
<1> DEFINE m == Mention(r, what)
<1>1. m \in Message /\ m.about = r
  BY DEF Message, Mention
<1>2. /\ m = Mention(r, "waiting") <=> what = "waiting"
      /\ m = Mention(r, "outcome") <=> what = "outcome"
  BY DEF Mention
<1>3. \A i \in DOMAIN s : s[i] # Mention(r, "outcome")
  <2>1. Times(s, Mention(r, "outcome")) = 0 /\ IsFiniteSet(DOMAIN s)
    BY FS_Interval, LenProperties DEF Told
  <2>2. PICK at : at = {i \in DOMAIN s : s[i] = Mention(r, "outcome")}
    OBVIOUS
  <2>3. Cardinality(at) = 0
    BY <2>1, <2>2, Zenon DEF Times
  <2>4. IsFiniteSet(at)
    BY <2>1, <2>2, FS_Subset
  <2>5. at = {}
    BY <2>3, <2>4, FS_EmptySet
  <2> QED BY <2>2, <2>5
<1> HIDE DEF m
<1>4. /\ Append(s, m) \in Seq(Message) /\ DOMAIN Append(s, m) = DOMAIN s \union {Len(s) + 1}
      /\ Len(s) \in Nat /\ DOMAIN s = 1..Len(s) /\ Append(s, m)[Len(s) + 1] = m
      /\ \A i \in DOMAIN s : Append(s, m)[i] = s[i]
  BY <1>1, TimesAppend
<1>5. Times(Append(s, m), Mention(r, "waiting")) = after.asks /\ Times(Append(s, m), Mention(r, "outcome")) = Outcome(after)
  <2>1. Times(Append(s, m), Mention(r, "waiting")) = Times(s, Mention(r, "waiting")) + IF m = Mention(r, "waiting") THEN 1 ELSE 0
    BY <1>1, TimesAppend
  <2>2. Times(Append(s, m), Mention(r, "outcome")) = Times(s, Mention(r, "outcome")) + IF m = Mention(r, "outcome") THEN 1 ELSE 0
    BY <1>1, TimesAppend
  <2> QED BY <1>2, <2>1, <2>2 DEF Told
<1>6. \A i, j \in DOMAIN Append(s, m) : i < j /\ Append(s, m)[i] = Mention(r, "outcome") => Append(s, m)[j].about # r
  BY <1>3, <1>4
<1>7. Told(Append(s, m), r, after)
  BY <1>5, <1>6 DEF Told
<1> QED BY <1>7 DEF m

\* A message about another run.
LEMMA ToldOther ==
  ASSUME NEW s \in Seq(Message), NEW r \in Nat, NEW row, NEW m \in Message, m.about # r, Told(s, r, row)
  PROVE  Told(Append(s, m), r, row)
<1>1. \A what : m # Mention(r, what)
  BY DEF Mention
<1>2. /\ Append(s, m) \in Seq(Message) /\ DOMAIN Append(s, m) = DOMAIN s \union {Len(s) + 1}
      /\ Len(s) \in Nat /\ DOMAIN s = 1..Len(s) /\ Append(s, m)[Len(s) + 1] = m
      /\ \A i \in DOMAIN s : Append(s, m)[i] = s[i]
  BY TimesAppend
<1>3. \A what : Times(s, Mention(r, what)) \in Nat /\ Times(Append(s, m), Mention(r, what)) = Times(s, Mention(r, what))
  <2>1. ASSUME NEW what PROVE Times(s, Mention(r, what)) \in Nat /\ Times(Append(s, m), Mention(r, what)) = Times(s, Mention(r, what))
    <3>1. Times(Append(s, m), Mention(r, what)) = Times(s, Mention(r, what)) + (IF m = Mention(r, what) THEN 1 ELSE 0)
      BY TimesAppend
    <3>2. Times(s, Mention(r, what)) \in Nat
      BY TimesAppend
    <3> QED BY <1>1, <3>1, <3>2
  <2> QED BY <2>1
<1>4. \A i, j \in DOMAIN Append(s, m) : i < j /\ Append(s, m)[i] = Mention(r, "outcome") => Append(s, m)[j].about # r
  BY <1>1, <1>2 DEF Told
<1> QED BY <1>3, <1>4 DEF Told

-----------------------------------------------------------------------------
LEMMA TalkFacts ==
  ASSUME TalkInductive
  PROVE  /\ TalkTypeOK /\ OneActiveRun /\ LegacyAgrees /\ ReleasedByPerson /\ RunsFit /\ MessagesFit
         /\ Len(agentRun) \in Nat /\ Len(thread) \in Nat
         /\ agentRun \in Seq(RunRow) /\ thread \in Seq(Chats \union {None}) /\ chat \in [Chats -> Seq(Message)]
         /\ AllRuns = 1..Len(agentRun) /\ AllThreads = 1..Len(thread)
         /\ \A r \in AllRuns : r \in Nat /\ agentRun[r] \in RunRow /\ agentRun[r].thread \in AllThreads /\ ChatOf(r) \in Chats \union {None}
         /\ \A t \in AllThreads : t \in Nat /\ thread[t] \in Chats \union {None}
         /\ \A r \in AllRuns, c \in Chats :
              /\ c # ChatOf(r) => \A i \in DOMAIN chat[c] : chat[c][i].about # r
              /\ ~agentRun[r].legacy /\ c = ChatOf(r) => Told(chat[c], r, agentRun[r])
<1>1. /\ TalkTypeOK /\ OneActiveRun /\ LegacyAgrees /\ ReleasedByPerson /\ OutcomesTold /\ RunsFit /\ MessagesFit
      /\ agentRun \in Seq(RunRow) /\ thread \in Seq(Chats \union {None}) /\ chat \in [Chats -> Seq(Message)]
  BY DEF TalkInductive, ConversationsSound, TalkTypeOK
<1>2. /\ AllRuns = 1..Len(agentRun) /\ AllThreads = 1..Len(thread) /\ Len(agentRun) \in Nat /\ Len(thread) \in Nat
      /\ \A t \in AllThreads : t \in Nat /\ thread[t] \in Chats \union {None}
      /\ \A r \in AllRuns : r \in Nat /\ agentRun[r] \in RunRow
  BY <1>1, ElementOfSeq, LenProperties DEF AllRuns, AllThreads
<1>3. \A r \in AllRuns : agentRun[r].thread \in AllThreads /\ ChatOf(r) \in Chats \union {None}
  BY <1>1, <1>2 DEF RunsFit, RunFits, ChatOf
<1> QED BY <1>1, <1>2, <1>3, OutcomesAreTold

LEMMA MessageRow ==
  ASSUME NEW r \in Nat, NEW what \in {"queued", "prepared", "waiting", "outcome"}
  PROVE  /\ Mention(r, what) \in Message /\ Mention(r, what).about = r
         /\ Mention(r, what) = [about |-> r, what |-> what]
  BY DEF Message, Mention

\* The two records of a legacy run.
Agrees(row, q) ==
  /\ row.approval = CASE q = "AWAITING_APPROVAL" -> "PENDING" [] q = "READY" -> "APPROVED" [] OTHER -> "REJECTED"
  /\ \/ row.status = "WAITING_FOR_APPROVAL" /\ q = "AWAITING_APPROVAL"
     \/ row.status = "QUEUED" /\ row.reason = "APPROVAL_GRANTED" /\ q = "READY"
     \/ row.status = "CANCELLED" /\ (row.reason = "APPROVAL_REJECTED" => q = "REJECTED")

\* One run changes, and perhaps its conversation is told.
LEMMA RowStep ==
  ASSUME TalkInductive, NEW r \in AllRuns, NEW row \in RunRow,
         agentRun' = [agentRun EXCEPT ![r] = row], UNCHANGED <<open, thread, recent>>,
         row.thread = agentRun[r].thread, row.legacy = agentRun[r].legacy, row.legacy => ~row.late,
         row.status \in ActiveRun => agentRun[r].status \in ActiveRun,
         row.status = "WAITING_FOR_APPROVAL" => row.approval = "PENDING",
         row.reason = "APPROVAL_GRANTED" => row.approval = "APPROVED",
         DOMAIN qa' = DOMAIN qa, \A s \in DOMAIN qa \ {r} : qa'[s] = qa[s],
         r \in DOMAIN qa =>
           /\ qa'[r] \in {"AWAITING_APPROVAL", "READY", "REJECTED"}
           /\ Agrees(row, qa'[r]),
         owed' \subseteq owed,
         \/ /\ chat' = chat
            /\ ~row.legacy /\ ChatOf(r) \in Chats => row.asks = agentRun[r].asks /\ Outcome(row) = Outcome(agentRun[r])
         \/ \E what \in {"queued", "prepared", "waiting", "outcome"} :
              /\ ChatOf(r) \in Chats /\ Says(ChatOf(r), r, what)
              /\ ~row.legacy =>
                   /\ Outcome(agentRun[r]) = 0
                   /\ row.asks = agentRun[r].asks + IF what = "waiting" THEN 1 ELSE 0
                   /\ Outcome(row) = IF what = "outcome" THEN 1 ELSE 0
  PROVE  TalkInductive'
<1>1. /\ agentRun' \in Seq(RunRow) /\ Len(agentRun') = Len(agentRun)
      /\ agentRun'[r] = row /\ \A s \in AllRuns \ {r} : agentRun'[s] = agentRun[s]
      /\ AllRuns' = AllRuns /\ AllThreads' = AllThreads
  <2>1. agentRun \in Seq(RunRow) /\ r \in 1..Len(agentRun)
    BY TalkFacts
  <2>2. /\ agentRun' \in Seq(RunRow) /\ Len(agentRun') = Len(agentRun)
        /\ \A s \in 1..Len(agentRun) : agentRun'[s] = IF s = r THEN row ELSE agentRun[s]
    BY <2>1, ExceptSeq
  <2> QED BY <2>2 DEF AllRuns, AllThreads
<1>2. \A s \in AllRuns : /\ agentRun'[s].thread = agentRun[s].thread /\ agentRun'[s].legacy = agentRun[s].legacy
                         /\ ChatOf(s)' = ChatOf(s)
  BY <1>1 DEF ChatOf
<1>3. chat' \in [Chats -> Seq(Message)] /\ MessagesFit'
  <2>1. CASE chat' = chat
    BY <1>1, <2>1, TalkFacts DEF MessagesFit
  <2>2. ASSUME NEW what \in {"queued", "prepared", "waiting", "outcome"}, ChatOf(r) \in Chats, Says(ChatOf(r), r, what)
        PROVE  chat' \in [Chats -> Seq(Message)] /\ MessagesFit'
    <3>1. PICK m \in Message : m = [about |-> r, what |-> what] /\ m.about = r
      BY TalkFacts, MessageRow
    <3>2. PICK c \in Chats : c = ChatOf(r)
      BY <2>2
    <3>3. chat[c] \in Seq(Message) /\ chat' = [chat EXCEPT ![c] = Append(@, m)]
      BY <2>2, <3>1, <3>2, TalkFacts DEF Says
    <3>4. /\ Append(chat[c], m) \in Seq(Message) /\ DOMAIN Append(chat[c], m) = DOMAIN chat[c] \union {Len(chat[c]) + 1}
          /\ Append(chat[c], m)[Len(chat[c]) + 1] = m
          /\ \A i \in DOMAIN chat[c] : Append(chat[c], m)[i] = chat[c][i]
      BY <3>3, TimesAppend
    <3>5. chat' \in [Chats -> Seq(Message)]
      BY <3>3, <3>4, TalkFacts
    <3>6. MessagesFit'
      BY <1>1, <3>1, <3>3, <3>4, TalkFacts DEF MessagesFit
    <3> QED BY <3>5, <3>6
  <2> QED BY <2>1, <2>2
<1>4. TalkTypeOK'
  <2>1. DOMAIN qa' = {s \in AllRuns : agentRun'[s].legacy}
    BY <1>2, TalkFacts DEF TalkTypeOK
  <2>2. \A s \in DOMAIN qa' : qa'[s] \in {"AWAITING_APPROVAL", "READY", "REJECTED"}
    BY TalkFacts DEF TalkTypeOK
  <2> QED BY <1>1, <1>3, <2>1, <2>2, TalkFacts DEF TalkTypeOK
<1>5. OneActiveRun'
  <2>1. \A s \in AllRuns : agentRun'[s].status \in ActiveRun => agentRun[s].status \in ActiveRun
    BY <1>1
  <2> QED BY <1>1, <1>2, <2>1, TalkFacts DEF OneActiveRun
<1>6. LegacyAgrees'
  <2>1. r \in AllRuns /\ \A s \in DOMAIN qa : s \in AllRuns
    BY TalkFacts DEF TalkTypeOK
  <2>2. ASSUME NEW s \in DOMAIN qa PROVE Agrees(agentRun'[s], qa'[s])
    <3>1. Agrees(agentRun[s], qa[s])
      BY TalkFacts DEF LegacyAgrees, Agrees
    <3>2. CASE s = r
      BY <1>1, <3>2
    <3>3. CASE s # r
      <4>1. agentRun'[s] = agentRun[s] /\ qa'[s] = qa[s]
        BY <1>1, <2>1, <3>3
      <4> QED BY <3>1, <4>1
    <3> QED BY <3>2, <3>3
  <2>3. \A s \in DOMAIN qa' : Agrees(agentRun'[s], qa'[s])
    BY <2>2
  <2> QED BY <2>3 DEF LegacyAgrees, Agrees
<1>7. ReleasedByPerson' /\ RunsFit'
  <2>1. ASSUME NEW s \in AllRuns
        PROVE  /\ agentRun'[s].status = "WAITING_FOR_APPROVAL" => agentRun'[s].approval = "PENDING"
               /\ agentRun'[s].reason = "APPROVAL_GRANTED" => agentRun'[s].approval = "APPROVED"
               /\ RunFits(s)'
    <3>1. RunFits(s) /\ ReleasedByPerson
      BY TalkFacts DEF RunsFit
    <3> QED BY <1>1, <1>2, <3>1 DEF ReleasedByPerson, RunFits
  <2> QED BY <1>1, <2>1 DEF ReleasedByPerson, RunsFit
<1>8. OutcomesTold'
  <2>1. ASSUME NEW s \in AllRuns, NEW c \in Chats
        PROVE  /\ c # ChatOf(s)' => \A i \in DOMAIN chat'[c] : chat'[c][i].about # s
               /\ ~agentRun'[s].legacy /\ c = ChatOf(s)' => Told(chat'[c], s, agentRun'[s])
    <3>0. PICK k : k = ChatOf(s) /\ k = ChatOf(s)'
      BY <1>2
    <3>1. /\ c # k => \A i \in DOMAIN chat[c] : chat[c][i].about # s
          /\ ~agentRun[s].legacy /\ c = k => Told(chat[c], s, agentRun[s])
          /\ chat[c] \in Seq(Message) /\ s \in Nat /\ agentRun[s] \in RunRow
      BY <3>0, TalkFacts
    <3>2. CASE chat' = chat /\ s # r
      BY <1>1, <1>2, <3>0, <3>1, <3>2
    <3>3. CASE chat' = chat /\ s = r
      <4>1. ~row.legacy /\ c = k => row.asks = agentRun[r].asks /\ Outcome(row) = Outcome(agentRun[r])
        <5>1. CASE ~row.legacy /\ ChatOf(r) \in Chats => row.asks = agentRun[r].asks /\ Outcome(row) = Outcome(agentRun[r])
          BY <3>0, <3>3, <5>1
        <5>2. ASSUME NEW what \in {"queued", "prepared", "waiting", "outcome"}, ChatOf(r) \in Chats, Says(ChatOf(r), r, what)
              PROVE  FALSE
          <6>1. PICK d \in Chats : d = ChatOf(r)
            BY <5>2
          <6>2. PICK m \in Message : m = [about |-> r, what |-> what]
            BY TalkFacts DEF Message
          <6>3. chat[d] = Append(chat[d], m) /\ chat[d] \in Seq(Message)
            BY <3>3, <5>2, <6>1, <6>2, TalkFacts DEF Says
          <6> QED BY <6>3, AppendProperties
        <5> QED BY <5>1, <5>2
      <4>2. ~row.legacy /\ c = k => Told(chat[c], r, row)
        BY <1>2, <3>1, <3>3, <4>1 DEF Told
      <4> QED BY <1>1, <1>2, <3>0, <3>1, <3>3, <4>2
    <3>4. ASSUME NEW what \in {"queued", "prepared", "waiting", "outcome"}, ChatOf(r) \in Chats, Says(ChatOf(r), r, what),
                 ~row.legacy =>
                   /\ Outcome(agentRun[r]) = 0
                   /\ row.asks = agentRun[r].asks + IF what = "waiting" THEN 1 ELSE 0
                   /\ Outcome(row) = IF what = "outcome" THEN 1 ELSE 0
          PROVE  /\ c # ChatOf(s)' => \A i \in DOMAIN chat'[c] : chat'[c][i].about # s
                 /\ ~agentRun'[s].legacy /\ c = ChatOf(s)' => Told(chat'[c], s, agentRun'[s])
      <4>1. PICK d \in Chats : d = ChatOf(r)
        BY <3>4
      <4>2. PICK m \in Message : m = Mention(r, what) /\ m.about = r
        BY TalkFacts, MessageRow
      <4>3. chat' = [chat EXCEPT ![d] = Append(@, m)]
        BY <3>4, <4>1, <4>2 DEF Says, Mention
      <4>4. CASE c # d
        <5>1. chat'[c] = chat[c] /\ (s = r => k = d)
          BY <3>0, <4>1, <4>3, <4>4, TalkFacts
        <5> QED BY <1>1, <1>2, <3>0, <3>1, <4>4, <5>1
      <4>5. CASE c = d
        <5>1. chat'[c] = Append(chat[c], m)
          BY <4>3, <4>5, TalkFacts
        <5>2. CASE s = r
          <6>1. k = c
            BY <3>0, <4>1, <4>5, <5>2
          <6>2. ~row.legacy => Told(Append(chat[c], m), r, row)
            <7>1. agentRun[r].asks \in Nat
              BY TalkBounds, <3>1, <5>2 DEF RunRow
            <7>2. ~row.legacy => Told(chat[c], r, agentRun[r]) /\ r \in Nat
              BY <1>2, <3>1, <5>2, <6>1
            <7> QED BY <3>1, <3>4, <4>2, <7>1, <7>2, ToldMore
          <6> QED BY <1>1, <1>2, <3>0, <5>1, <5>2, <6>1, <6>2
        <5>3. CASE s # r
          <6>1. agentRun'[s] = agentRun[s] /\ m.about # s
            BY <1>1, <4>2, <5>3
          <6>2. c # k => \A i \in DOMAIN chat'[c] : chat'[c][i].about # s
            BY <3>1, <5>1, <6>1, TimesAppend
          <6>3. ~agentRun[s].legacy /\ c = k => Told(Append(chat[c], m), s, agentRun[s])
            BY <3>1, <6>1, ToldOther
          <6> QED BY <3>0, <5>1, <6>1, <6>2, <6>3
        <5> QED BY <5>2, <5>3
      <4> QED BY <4>4, <4>5
    <3> QED BY <3>2, <3>3, <3>4
  <2>2. \A s \in AllRuns, c \in Chats :
          /\ c # ChatOf(s)' => \A i \in DOMAIN chat'[c] : chat'[c][i].about # s
          /\ ~agentRun'[s].legacy /\ c = ChatOf(s)' => Told(chat'[c], s, agentRun'[s])
    BY <2>1
  <2> QED BY <1>1, <2>2 DEF OutcomesTold, About, Told, Mention, Times, Outcome
<1> QED BY <1>3, <1>4, <1>5, <1>6, <1>7, <1>8 DEF TalkInductive, ConversationsSound

-----------------------------------------------------------------------------
\* The places of the threads by updated_at, after one of them was used or added.
LEMMA TouchedFits ==
  ASSUME TalkInductive, NEW t, Touched(t),
         \/ t \in AllThreads /\ thread' = thread
         \/ t = NewThread /\ Len(thread') = Len(thread) + 1
  PROVE  recent' \in [AllThreads' -> AllThreads'] /\ \A u, w \in AllThreads' : recent'[u] = recent'[w] => u = w
<1>1. PICK n \in Nat : n = Len(thread) /\ AllThreads = 1..n
  BY TalkFacts
<1>2. PICK k \in Nat : k = Len(thread') /\ AllThreads' = 1..k
  BY <1>1 DEF AllThreads
<1>3. PICK at : at = IF t \in AllThreads THEN recent[t] ELSE k
  OBVIOUS
<1>4. recent' = [u \in 1..k |-> IF u = t THEN k ELSE IF recent[u] > at THEN recent[u] - 1 ELSE recent[u]]
  BY <1>2, <1>3 DEF Touched
<1>5. recent \in [1..n -> 1..n] /\ \A u, w \in 1..n : recent[u] = recent[w] => u = w
  BY <1>1, TalkFacts DEF TalkTypeOK
<1>6. CASE t \in AllThreads /\ thread' = thread
  <2>1. k = n /\ t \in 1..n /\ at = recent[t] /\ at \in 1..n
    BY <1>1, <1>2, <1>3, <1>5, <1>6
  <2>2. \A u \in 1..n : recent'[u] = IF u = t THEN n ELSE IF recent[u] > at THEN recent[u] - 1 ELSE recent[u]
    BY <1>4, <2>1
  <2>3. \A u \in 1..n : recent[u] \in 1..n /\ (u # t => recent[u] # at)
    BY <1>5, <2>1
  <2>4. \A u \in 1..n : recent'[u] \in 1..n /\ (u # t => recent'[u] # n)
    BY <2>1, <2>2, <2>3
  <2>5. recent' \in [1..n -> 1..n]
    BY <1>4, <2>1, <2>4
  <2>6. ASSUME NEW u \in 1..n, NEW w \in 1..n, recent'[u] = recent'[w] PROVE u = w
    <3>1. CASE u = t \/ w = t
      BY <2>1, <2>2, <2>4, <2>6, <3>1
    <3>2. CASE u # t /\ w # t
      <4>1. recent[u] \in 1..n /\ recent[w] \in 1..n /\ recent[u] # at /\ recent[w] # at
        BY <2>3, <3>2
      <4>2. recent[u] = recent[w]
        BY <2>1, <2>2, <2>6, <3>2, <4>1
      <4> QED BY <1>5, <4>2
    <3> QED BY <3>1, <3>2
  <2> QED BY <1>2, <2>1, <2>5, <2>6
<1>7. CASE t = NewThread /\ Len(thread') = Len(thread) + 1
  <2>1. k = n + 1 /\ t = k /\ at = k
    BY <1>1, <1>2, <1>3, <1>7 DEF NewThread
  <2>2. \A u \in 1..k : recent'[u] = IF u = k THEN k ELSE recent[u]
    BY <1>4, <1>5, <2>1
  <2>3. \A u \in 1..n : recent[u] \in 1..n
    BY <1>5
  <2>4. recent' \in [1..k -> 1..k]
    BY <1>4, <2>1, <2>2, <2>3
  <2>5. \A u, w \in 1..k : recent'[u] = recent'[w] => u = w
    BY <1>5, <2>1, <2>2, <2>3
  <2> QED BY <1>2, <2>4, <2>5
<1> QED BY <1>6, <1>7

\* A run added, to a thread that is free or new.
LEMMA PlaceStep ==
  ASSUME TalkInductive, NEW t, NEW c \in Chats \union {None}, NEW row \in RunRow, NEW n, n = Len(agentRun) + 1,
         agentRun' = Append(agentRun, row),
         \/ t \in AllThreads /\ ~Busy(t) /\ thread[t] = c /\ thread' = thread
         \/ t = NewThread /\ thread' = Append(thread, c),
         (recent' = recent /\ thread' = thread) \/ Touched(t),
         row.thread = t, row.status \in ActiveRun, row.asks = 0, ~row.late, row.reason # "APPROVAL_GRANTED",
         row.status = "WAITING_FOR_APPROVAL" => row.approval = "PENDING",
         open' \in SUBSET Chats,
         ~row.legacy => qa' = qa /\ owed' = owed,
         row.legacy =>
           /\ c # None /\ row.status = "WAITING_FOR_APPROVAL" /\ row.approval = "PENDING"
           /\ qa' = [r \in DOMAIN qa \union {n} |-> IF r \in DOMAIN qa THEN qa[r] ELSE "AWAITING_APPROVAL"]
           /\ owed' = owed \union {n},
         chat' = chat \/ (c # None /\ ~row.legacy /\ Says(c, n, "queued"))
  PROVE  TalkInductive'
<1>1. /\ agentRun' \in Seq(RunRow) /\ Len(agentRun') = n /\ agentRun'[n] = row
      /\ \A r \in AllRuns : agentRun'[r] = agentRun[r]
      /\ AllRuns' = AllRuns \union {n} /\ n \in Nat /\ n \notin AllRuns
  <2>1. agentRun \in Seq(RunRow) /\ AllRuns = 1..Len(agentRun) /\ Len(agentRun) \in Nat
    BY TalkFacts
  <2>2. /\ agentRun' \in Seq(RunRow) /\ Len(agentRun') = n /\ agentRun'[n] = row
        /\ \A r \in AllRuns : agentRun'[r] = agentRun[r]
    BY <2>1, AppendProperties
  <2> QED BY <2>1, <2>2 DEF AllRuns
<1>2. /\ thread' \in Seq(Chats \union {None}) /\ AllThreads \subseteq AllThreads' /\ t \in AllThreads' /\ thread'[t] = c
      /\ \A u \in AllThreads : thread'[u] = thread[u]
      /\ \A r \in AllRuns : agentRun[r].status \in ActiveRun => agentRun[r].thread # t
      /\ \/ t \in AllThreads /\ thread' = thread
         \/ t = NewThread /\ Len(thread') = Len(thread) + 1
  <2>1. CASE t \in AllThreads /\ ~Busy(t) /\ thread[t] = c /\ thread' = thread
    BY <2>1, TalkFacts DEF Busy, AllThreads
  <2>2. CASE t = NewThread /\ thread' = Append(thread, c)
    <3>1. /\ thread' \in Seq(Chats \union {None}) /\ Len(thread') = Len(thread) + 1 /\ thread'[t] = c
          /\ \A u \in AllThreads : thread'[u] = thread[u]
      BY <2>2, TalkFacts, AppendProperties DEF NewThread
    <3>2. AllThreads \subseteq AllThreads' /\ t \in AllThreads' /\ t \notin AllThreads
      BY <2>2, <3>1, TalkFacts DEF AllThreads, NewThread
    <3> QED BY <2>2, <3>1, <3>2, TalkFacts
  <2> QED BY <2>1, <2>2
<1>3. \A r \in AllRuns : ChatOf(r)' = ChatOf(r)
  BY <1>1, <1>2, TalkFacts DEF ChatOf
<1>4. ChatOf(n)' = c
  BY <1>1, <1>2 DEF ChatOf
<1>5. recent' \in [AllThreads' -> AllThreads'] /\ \A u, w \in AllThreads' : recent'[u] = recent'[w] => u = w
  <2>1. CASE recent' = recent /\ thread' = thread
    BY <2>1, TalkFacts DEF TalkTypeOK, AllThreads
  <2>2. CASE Touched(t)
    BY <1>2, <2>2, TouchedFits
  <2> QED BY <2>1, <2>2
<1>6. /\ chat' \in [Chats -> Seq(Message)] /\ MessagesFit'
      /\ \A d \in Chats :
           \/ chat'[d] = chat[d]
           \/ /\ d = c /\ ~row.legacy /\ Mention(n, "queued") \in Message /\ Mention(n, "queued").about = n
              /\ chat'[d] = Append(chat[d], Mention(n, "queued"))
  <2>1. CASE chat' = chat
    BY <1>1, <2>1, TalkFacts DEF MessagesFit
  <2>2. CASE c # None /\ ~row.legacy /\ Says(c, n, "queued")
    <3>1. PICK m \in Message : m = Mention(n, "queued") /\ m.about = n /\ m = [about |-> n, what |-> "queued"]
      BY <1>1, MessageRow
    <3>2. chat[c] \in Seq(Message) /\ chat' = [chat EXCEPT ![c] = Append(@, m)] /\ c \in Chats
      BY <2>2, <3>1, TalkFacts DEF Says
    <3>3. /\ Append(chat[c], m) \in Seq(Message) /\ DOMAIN Append(chat[c], m) = DOMAIN chat[c] \union {Len(chat[c]) + 1}
          /\ Append(chat[c], m)[Len(chat[c]) + 1] = m
          /\ \A i \in DOMAIN chat[c] : Append(chat[c], m)[i] = chat[c][i]
      BY <3>2, TimesAppend
    <3>4. chat' \in [Chats -> Seq(Message)]
      BY <3>2, <3>3, TalkFacts
    <3>5. MessagesFit'
      BY <1>1, <3>1, <3>2, <3>3, TalkFacts DEF MessagesFit
    <3> QED BY <2>2, <3>1, <3>2, <3>4, <3>5, TalkFacts
  <2> QED BY <2>1, <2>2
<1>7. DOMAIN qa \subseteq AllRuns
  BY TalkFacts DEF TalkTypeOK
<1>8. /\ DOMAIN qa' = IF row.legacy THEN DOMAIN qa \union {n} ELSE DOMAIN qa
      /\ \A r \in DOMAIN qa : qa'[r] = qa[r]
      /\ row.legacy => qa'[n] = "AWAITING_APPROVAL"
  BY <1>1, <1>7
<1>9. TalkTypeOK'
  <2>1. DOMAIN qa' = {r \in AllRuns' : agentRun'[r].legacy}
    BY <1>1, <1>8, TalkFacts DEF TalkTypeOK
  <2>2. \A r \in DOMAIN qa' : qa'[r] \in {"AWAITING_APPROVAL", "READY", "REJECTED"}
    BY <1>8, TalkFacts DEF TalkTypeOK
  <2>3. owed' \subseteq DOMAIN qa'
    BY <1>8, TalkFacts DEF TalkTypeOK
  <2> QED BY <1>1, <1>2, <1>5, <1>6, <2>1, <2>2, <2>3 DEF TalkTypeOK
<1>10. OneActiveRun'
  <2>1. ASSUME NEW r \in AllRuns', NEW s \in AllRuns', agentRun'[r].thread = agentRun'[s].thread,
               agentRun'[r].status \in ActiveRun, agentRun'[s].status \in ActiveRun
        PROVE  r = s
    <3>1. CASE r \in AllRuns /\ s \in AllRuns
      BY <1>1, <2>1, <3>1, TalkFacts DEF OneActiveRun
    <3>2. CASE r = n \/ s = n
      BY <1>1, <1>2, <2>1, <3>2
    <3> QED BY <1>1, <3>1, <3>2
  <2> QED BY <2>1 DEF OneActiveRun
<1>11. LegacyAgrees'
  <2>1. ASSUME NEW r \in DOMAIN qa, r \in DOMAIN qa' PROVE agentRun'[r] = agentRun[r] /\ qa'[r] = qa[r]
    BY <1>1, <1>7, <1>8
  <2>2. \A r \in DOMAIN qa : Agrees(agentRun[r], qa[r])
    BY TalkFacts DEF LegacyAgrees, Agrees
  <2>3. ASSUME NEW r \in DOMAIN qa', NEW w, w = agentRun'[r], NEW q, q = qa'[r] PROVE Agrees(w, q)
    <3>1. CASE r \in DOMAIN qa
      BY <2>1, <2>2, <2>3, <3>1
    <3>2. CASE r \notin DOMAIN qa
      <4>1. row.legacy /\ r = n /\ w = row /\ q = "AWAITING_APPROVAL"
        BY <1>1, <1>8, <2>3, <3>2
      <4> QED BY <4>1 DEF Agrees
    <3> QED BY <3>1, <3>2
  <2>4. \A r \in DOMAIN qa' : Agrees(agentRun'[r], qa'[r])
    BY <2>3
  <2> QED BY <2>4 DEF LegacyAgrees, Agrees
<1>12. ReleasedByPerson'
  BY <1>1, TalkFacts DEF ReleasedByPerson
<1>13. RunsFit'
  <2>1. ASSUME NEW r \in AllRuns' PROVE RunFits(r)'
    <3>1. CASE r \in AllRuns
      BY <1>1, <1>2, <1>3, <3>1, TalkFacts DEF RunsFit, RunFits
    <3>2. CASE r = n
      BY <1>1, <1>2, <1>4, <3>2 DEF RunFits
    <3> QED BY <1>1, <3>1, <3>2
  <2> QED BY <2>1 DEF RunsFit
<1>14. OutcomesTold'
  <2>1. ASSUME NEW s \in AllRuns', NEW d \in Chats
        PROVE  /\ d # ChatOf(s)' => \A i \in DOMAIN chat'[d] : chat'[d][i].about # s
               /\ ~agentRun'[s].legacy /\ d = ChatOf(s)' => Told(chat'[d], s, agentRun'[s])
    <3>1. chat[d] \in Seq(Message) /\ \A i \in DOMAIN chat[d] : chat[d][i].about \in AllRuns
      BY TalkFacts DEF MessagesFit
    <3>2. CASE s \in AllRuns
      <4>0. PICK k : k = ChatOf(s) /\ k = ChatOf(s)'
        BY <1>3, <3>2
      <4>1. /\ d # k => \A i \in DOMAIN chat[d] : chat[d][i].about # s
            /\ ~agentRun[s].legacy /\ d = k => Told(chat[d], s, agentRun[s])
            /\ agentRun'[s] = agentRun[s] /\ s \in Nat /\ s # n
        BY <1>1, <3>2, <4>0, TalkFacts
      <4>2. CASE chat'[d] = chat[d]
        BY <4>0, <4>1, <4>2
      <4>3. ASSUME NEW m \in Message, m.about = n, chat'[d] = Append(chat[d], m)
            PROVE  /\ d # ChatOf(s)' => \A i \in DOMAIN chat'[d] : chat'[d][i].about # s
                   /\ ~agentRun'[s].legacy /\ d = ChatOf(s)' => Told(chat'[d], s, agentRun'[s])
        <5>1. d # k => \A i \in DOMAIN chat'[d] : chat'[d][i].about # s
          BY <3>1, <4>1, <4>3, TimesAppend
        <5>2. ~agentRun[s].legacy /\ d = k => Told(Append(chat[d], m), s, agentRun[s])
          BY <3>1, <4>1, <4>3, ToldOther
        <5> QED BY <4>0, <4>1, <4>3, <5>1, <5>2
      <4> QED BY <1>6, <4>2, <4>3
    <3>3. CASE s = n
      <4>1. \A i \in DOMAIN chat[d] : chat[d][i].about # n
        BY <1>1, <3>1
      <4>2. Told(chat[d], n, row)
        <5>1. \A what : Times(chat[d], Mention(n, what)) = 0
          BY <3>1, <4>1, TimesNone DEF Mention
        <5>2. Outcome(row) = 0
          BY DEF Outcome, ActiveRun, TerminalRun
        <5> QED BY <4>1, <5>1, <5>2 DEF Told, Mention
      <4>3. CASE chat'[d] = chat[d]
        BY <1>1, <1>4, <3>3, <4>1, <4>2, <4>3
      <4>4. CASE d = c /\ ~row.legacy /\ chat'[d] = Append(chat[d], Mention(n, "queued"))
        <5>1. Outcome(row) = 0
          BY DEF Outcome, ActiveRun, TerminalRun
        <5>2. Told(Append(chat[d], Mention(n, "queued")), n, row)
          <6>1. row.asks \in Nat /\ row.asks = row.asks + (IF "queued" = "waiting" THEN 1 ELSE 0)
            OBVIOUS
          <6>2. Outcome(row) = IF "queued" = "outcome" THEN 1 ELSE 0
            BY <5>1
          <6> QED BY <1>1, <3>1, <4>2, <5>1, <6>1, <6>2, ToldMore
        <5> QED BY <1>1, <1>4, <3>3, <4>4, <5>2
      <4> QED BY <1>6, <4>3, <4>4
    <3> QED BY <1>1, <3>2, <3>3
  <2> QED BY <2>1 DEF OutcomesTold, About, Told, Mention, Times, Outcome
<1> QED BY <1>6, <1>9, <1>10, <1>11, <1>12, <1>13, <1>14 DEF TalkInductive, ConversationsSound

-----------------------------------------------------------------------------
LEMMA InsertedRun ==
  ASSUME NEW t \in Nat
  PROVE  /\ insertRun(t, FALSE) \in RunRow /\ insertRun(t, FALSE).thread = t /\ ~insertRun(t, FALSE).legacy
         /\ insertRun(t, FALSE).status = "QUEUED" /\ insertRun(t, FALSE).asks = 0 /\ ~insertRun(t, FALSE).late
         /\ insertRun(t, FALSE).reason = None
         /\ recordLegacyQaRun(t) \in RunRow /\ recordLegacyQaRun(t).thread = t /\ recordLegacyQaRun(t).legacy
         /\ recordLegacyQaRun(t).status = "WAITING_FOR_APPROVAL" /\ recordLegacyQaRun(t).asks = 0
         /\ ~recordLegacyQaRun(t).late /\ recordLegacyQaRun(t).approval = "PENDING"
         /\ recordLegacyQaRun(t).reason = "APPROVAL_REQUIRED"
<1>1. PICK q : q = insertRun(t, TRUE)
  OBVIOUS
<1>2. /\ q \in RunRow /\ q.thread = t /\ q.legacy /\ q.asks = 0 /\ ~q.late
      /\ insertRun(t, FALSE) \in RunRow /\ insertRun(t, FALSE).thread = t /\ ~insertRun(t, FALSE).legacy
      /\ insertRun(t, FALSE).status = "QUEUED" /\ insertRun(t, FALSE).asks = 0 /\ ~insertRun(t, FALSE).late
      /\ insertRun(t, FALSE).reason = None
  BY <1>1, TalkBounds DEF insertRun, RunRow, RunStatus
<1>3. PICK w : w = [q EXCEPT !.status = "WAITING_FOR_APPROVAL", !.reason = "APPROVAL_REQUIRED", !.approval = "PENDING"]
  OBVIOUS
<1>4. /\ w \in RunRow /\ w.thread = t /\ w.legacy /\ w.status = "WAITING_FOR_APPROVAL" /\ w.asks = 0 /\ ~w.late
      /\ w.approval = "PENDING" /\ w.reason = "APPROVAL_REQUIRED"
  BY ONLY <1>2, <1>3 DEF RunRow, RunStatus
<1>5. recordLegacyQaRun(t) = w
  BY <1>1, <1>3 DEF recordLegacyQaRun
<1> QED BY <1>2, <1>4, <1>5

\* A thread that a conversation offers is free and its own, or new.
LEMMA OfferedThreads ==
  ASSUME TalkInductive, NEW c \in Chats, NEW t \in conversationThread(c) \union threadForConversation(c)
  PROVE  \/ t \in AllThreads /\ ~Busy(t) /\ thread[t] = c
         \/ t = NewThread
  BY DEF conversationThread, threadForConversation, ThreadsOf, Latest

LEMMA PlacedThread ==
  ASSUME TalkInductive, NEW t, NEW c, NEW row, Place(t, c, row),
         \/ t \in AllThreads /\ ~Busy(t) /\ thread[t] = c
         \/ t = NewThread
  PROVE  /\ \/ t \in AllThreads /\ ~Busy(t) /\ thread[t] = c /\ thread' = thread
            \/ t = NewThread /\ thread' = Append(thread, c)
         /\ Touched(t) /\ agentRun' = Append(agentRun, row) /\ t \in Nat
<1>1. NewThread \notin AllThreads /\ NewThread \in Nat /\ \A u \in AllThreads : u \in Nat
  BY TalkFacts DEF NewThread
<1> QED BY <1>1 DEF Place, insertThread

LEMMA PlaceSteps ==
  ASSUME TalkInductive,
         \/ createRun
         \/ \E c \in Chats : createRunIn(c) \/ createGenericQaRun(c) \/ createQaRun(c)
         \/ \E t \in AllThreads : createRunOf(t)
  PROVE  TalkInductive'
<1>0. PICK n : n = Len(agentRun) + 1
  OBVIOUS
<1>1. open \in SUBSET Chats
  BY TalkFacts DEF TalkTypeOK
<1>a. "QUEUED" \in ActiveRun /\ "WAITING_FOR_APPROVAL" \in ActiveRun /\ None # "APPROVAL_GRANTED"
  BY TalkNames DEF ActiveRun
<1>2. ASSUME NEW c \in Chats \union {None}, NEW t, NEW row, row = insertRun(t, FALSE), Place(t, c, row),
             \/ t \in AllThreads /\ ~Busy(t) /\ thread[t] = c
             \/ t = NewThread,
             UNCHANGED <<open, qa, owed>>, chat' = chat \/ (c # None /\ Says(c, n, "queued"))
      PROVE  TalkInductive'
  <2>1. /\ \/ t \in AllThreads /\ ~Busy(t) /\ thread[t] = c /\ thread' = thread
           \/ t = NewThread /\ thread' = Append(thread, c)
        /\ Touched(t) /\ agentRun' = Append(agentRun, row) /\ t \in Nat
    BY <1>2, PlacedThread
  <2>2. /\ row \in RunRow /\ row.thread = t /\ ~row.legacy /\ row.status = "QUEUED" /\ row.asks = 0 /\ ~row.late
        /\ row.reason = None
    BY <1>2, <2>1, InsertedRun
  <2> QED BY <1>0, <1>1, <1>2, <1>a, <2>1, <2>2, PlaceStep
<1>3. CASE createRun
  BY <1>2, <1>3 DEF createRun
<1>4. ASSUME NEW c \in Chats, createRunIn(c) PROVE TalkInductive'
  BY <1>2, <1>4, OfferedThreads DEF createRunIn
<1>5. ASSUME NEW c \in Chats, createGenericQaRun(c) PROVE TalkInductive'
  <2>1. PICK t \in conversationThread(c) : Place(t, c, insertRun(t, FALSE))
    BY <1>5 DEF createGenericQaRun
  <2>2. Says(c, n, "queued") /\ UNCHANGED <<open, qa, owed>>
    BY <1>0, <1>5 DEF createGenericQaRun
  <2>3. \/ t \in AllThreads /\ ~Busy(t) /\ thread[t] = c
        \/ t = NewThread
    BY OfferedThreads
  <2> QED BY <1>2, <2>1, <2>2, <2>3, TalkNames
<1>6. ASSUME NEW c \in Chats, createQaRun(c) PROVE TalkInductive'
  <2>1. PICK t \in threadForConversation(c) : Place(t, c, recordLegacyQaRun(t))
    BY <1>6 DEF createQaRun
  <2>2. PICK row : row = recordLegacyQaRun(t)
    OBVIOUS
  <2>3. \/ t \in AllThreads /\ ~Busy(t) /\ thread[t] = c
        \/ t = NewThread
    BY OfferedThreads
  <2>4. /\ \/ t \in AllThreads /\ ~Busy(t) /\ thread[t] = c /\ thread' = thread
           \/ t = NewThread /\ thread' = Append(thread, c)
        /\ Touched(t) /\ agentRun' = Append(agentRun, row) /\ t \in Nat
    BY <2>1, <2>2, <2>3, PlacedThread
  <2>5. /\ row \in RunRow /\ row.thread = t /\ row.legacy /\ row.status = "WAITING_FOR_APPROVAL" /\ row.asks = 0
        /\ ~row.late /\ row.approval = "PENDING" /\ row.reason = "APPROVAL_REQUIRED"
    BY <2>2, <2>4, InsertedRun
  <2>6. /\ qa' = [r \in DOMAIN qa \union {n} |-> IF r \in DOMAIN qa THEN qa[r] ELSE "AWAITING_APPROVAL"]
        /\ owed' = owed \union {n} /\ open' = open /\ chat' = chat
    BY <1>0, <1>6 DEF createQaRun
  <2>7. c \in Chats \union {None} /\ c # None
    BY TalkNames
  <2> QED BY <1>0, <1>1, <1>a, <2>4, <2>5, <2>6, <2>7, PlaceStep
<1>7. ASSUME NEW t \in AllThreads, createRunOf(t) PROVE TalkInductive'
  <2>1. PICK row : row = insertRun(t, FALSE)
    OBVIOUS
  <2>2. PICK c \in Chats \union {None} : c = thread[t] /\ t \in Nat
    BY TalkFacts
  <2>3. /\ row \in RunRow /\ row.thread = t /\ ~row.legacy /\ row.status = "QUEUED" /\ row.asks = 0 /\ ~row.late
        /\ row.reason = None
    BY <2>1, <2>2, InsertedRun
  <2>4. ~Busy(t) /\ agentRun' = Append(agentRun, row) /\ UNCHANGED <<open, chat, thread, recent, qa, owed>>
    BY <1>7, <2>1 DEF createRunOf
  <2> QED BY <1>0, <1>1, <1>a, <2>2, <2>3, <2>4, PlaceStep
<1> QED BY <1>3, <1>4, <1>5, <1>6, <1>7

-----------------------------------------------------------------------------
\* What is given in every step of one run.
LEMMA RowFacts ==
  ASSUME TalkInductive, NEW r \in AllRuns
  PROVE  /\ agentRun[r] \in RunRow /\ (agentRun[r].legacy <=> r \in DOMAIN qa) /\ r \in Nat
         /\ agentRun[r].legacy => ~agentRun[r].late /\ ChatOf(r) \in Chats
         /\ agentRun[r].legacy =>
              agentRun[r].status \in {"WAITING_FOR_APPROVAL", "QUEUED", "CANCELLED"} /\ Agrees(agentRun[r], qa[r])
         /\ agentRun[r].legacy => qa[r] \in {"AWAITING_APPROVAL", "READY", "REJECTED"}
         /\ agentRun[r].status = "WAITING_FOR_APPROVAL" => agentRun[r].approval = "PENDING"
         /\ agentRun[r].reason = "APPROVAL_GRANTED" => agentRun[r].approval = "APPROVED"
         /\ ChatOf(r) \in Chats \union {None}
<1>1. agentRun[r] \in RunRow /\ (agentRun[r].legacy <=> r \in DOMAIN qa) /\ r \in Nat
  BY TalkFacts DEF TalkTypeOK
<1>2. agentRun[r].legacy => Agrees(agentRun[r], qa[r]) /\ qa[r] \in {"AWAITING_APPROVAL", "READY", "REJECTED"}
  BY <1>1, TalkFacts DEF LegacyAgrees, Agrees, TalkTypeOK
<1>3. agentRun[r].legacy => ~agentRun[r].late /\ ChatOf(r) \in Chats
  BY TalkFacts DEF RunsFit, RunFits
<1>4. agentRun[r].legacy => agentRun[r].status \in {"WAITING_FOR_APPROVAL", "QUEUED", "CANCELLED"}
  BY <1>2 DEF Agrees
<1> QED BY <1>1, <1>2, <1>3, <1>4, TalkFacts DEF ReleasedByPerson

\* RowStep for steps that leave the QA records alone; what is told of generic runs only.
LEMMA GenericRowStep ==
  ASSUME TalkInductive, NEW r \in AllRuns, NEW row \in RunRow,
         agentRun' = [agentRun EXCEPT ![r] = row], UNCHANGED <<open, thread, recent, qa, owed>>,
         row.thread = agentRun[r].thread, row.legacy = agentRun[r].legacy, row.legacy => ~row.late,
         row.status \in ActiveRun => agentRun[r].status \in ActiveRun,
         row.status = "WAITING_FOR_APPROVAL" => row.approval = "PENDING",
         row.reason = "APPROVAL_GRANTED" => row.approval = "APPROVED",
         row.legacy => Agrees(row, qa[r]),
         \/ /\ chat' = chat
            /\ ~row.legacy => row.asks = agentRun[r].asks /\ Outcome(row) = Outcome(agentRun[r])
         \/ \E what \in {"waiting", "outcome"} :
              /\ syncConversation(r, what)
              /\ ~row.legacy =>
                   /\ Outcome(agentRun[r]) = 0
                   /\ row.asks = agentRun[r].asks + IF what = "waiting" THEN 1 ELSE 0
                   /\ Outcome(row) = IF what = "outcome" THEN 1 ELSE 0
  PROVE  TalkInductive'
<1>1. agentRun[r].legacy <=> r \in DOMAIN qa
  BY RowFacts
<1>2. agentRun[r].legacy => qa[r] \in {"AWAITING_APPROVAL", "READY", "REJECTED"}
  BY RowFacts
<1>3. \/ /\ chat' = chat
         /\ ~row.legacy /\ ChatOf(r) \in Chats => row.asks = agentRun[r].asks /\ Outcome(row) = Outcome(agentRun[r])
      \/ \E what \in {"queued", "prepared", "waiting", "outcome"} :
           /\ ChatOf(r) \in Chats /\ Says(ChatOf(r), r, what)
           /\ ~row.legacy =>
                /\ Outcome(agentRun[r]) = 0
                /\ row.asks = agentRun[r].asks + IF what = "waiting" THEN 1 ELSE 0
                /\ Outcome(row) = IF what = "outcome" THEN 1 ELSE 0
  <2>1. ASSUME NEW what \in {"waiting", "outcome"}, syncConversation(r, what)
        PROVE  \/ chat' = chat /\ (row.legacy \/ ChatOf(r) \notin Chats)
               \/ ChatOf(r) \in Chats /\ Says(ChatOf(r), r, what)
    BY <2>1, RowFacts, TalkNames DEF syncConversation
  <2> QED BY <2>1
<1>4. DOMAIN qa' = DOMAIN qa /\ (\A s \in DOMAIN qa \ {r} : qa'[s] = qa[s]) /\ owed' \subseteq owed /\ qa' = qa
  OBVIOUS
<1>5. r \in DOMAIN qa => qa'[r] \in {"AWAITING_APPROVAL", "READY", "REJECTED"} /\ Agrees(row, qa'[r])
  BY <1>1, <1>2, <1>4
<1> QED BY <1>3, <1>4, <1>5, RowStep

LEMMA ReportSteps ==
  ASSUME TalkInductive, NEW r \in owed, Posts(r) \/ Stops(r)
  PROVE  TalkInductive'
<1>1. r \in DOMAIN qa /\ r \in AllRuns
  BY TalkFacts DEF TalkTypeOK
<1>2. PICK row \in RunRow : row = agentRun[r] /\ row.legacy /\ ChatOf(r) \in Chats
  BY <1>1, RowFacts
<1>3. agentRun \in Seq(RunRow) /\ agentRun' = [agentRun EXCEPT ![r] = row]
  <2>1. agentRun' = agentRun /\ agentRun \in Seq(RunRow)
    BY TalkFacts DEF Posts, Stops
  <2>2. agentRun \in [1..Len(agentRun) -> RunRow]
    BY <2>1, LenProperties
  <2> QED BY <1>2, <2>1, <2>2
<1>4. owed' \subseteq owed /\ UNCHANGED <<open, thread, recent, qa>>
  BY DEF Posts, Stops
<1>5. \/ chat' = chat
      \/ Says(ChatOf(r), r, "prepared")
  BY DEF Posts, Stops
<1>6. /\ row.legacy => ~row.late
      /\ row.status = "WAITING_FOR_APPROVAL" => row.approval = "PENDING"
      /\ row.reason = "APPROVAL_GRANTED" => row.approval = "APPROVED"
      /\ qa[r] \in {"AWAITING_APPROVAL", "READY", "REJECTED"} /\ Agrees(row, qa[r])
  BY <1>1, <1>2, RowFacts
<1> QED BY <1>1, <1>2, <1>3, <1>4, <1>5, <1>6, RowStep

\* A row with another status, reason and approval.
Moved(row, to, reason, approval) == [row EXCEPT !.status = to, !.reason = reason, !.approval = approval]
LEMMA MovedRow ==
  ASSUME NEW row \in RunRow, NEW to \in RunStatus, NEW reason, NEW approval,
         reason \in {None, "APPROVAL_REQUIRED", "APPROVAL_GRANTED", "APPROVAL_REJECTED",
                     "APPROVAL_EXPIRED", "FAILURE", "CANCELLATION"},
         approval \in {None, "PENDING", "EXPIRED"} \union Decided
  PROVE  /\ Moved(row, to, reason, approval) \in RunRow
         /\ Moved(row, to, reason, approval).status = to
         /\ Moved(row, to, reason, approval).reason = reason
         /\ Moved(row, to, reason, approval).approval = approval
         /\ Moved(row, to, reason, approval).thread = row.thread
         /\ Moved(row, to, reason, approval).legacy = row.legacy
         /\ Moved(row, to, reason, approval).late = row.late
         /\ Moved(row, to, reason, approval).asks = row.asks
<1> DEFINE w == Moved(row, to, reason, approval)
<1>1. w = [row EXCEPT !.status = to, !.reason = reason, !.approval = approval]
  BY DEF Moved
<1> HIDE DEF w
<1>2. /\ w \in RunRow /\ w.status = to /\ w.reason = reason /\ w.approval = approval
      /\ w.thread = row.thread /\ w.legacy = row.legacy /\ w.late = row.late /\ w.asks = row.asks
  BY <1>1 DEF RunRow
<1> QED BY <1>2 DEF w

LEMMA TransitionRow ==
  ASSUME TalkInductive, NEW r \in AllRuns, NEW to, NEW reason, NEW approval, transitionRun(r, to, reason, approval)
  PROVE  agentRun' = [agentRun EXCEPT ![r] = Moved(agentRun[r], to, reason, approval)]
  BY TalkFacts DEF transitionRun, Moved

\* Where each of the transitions of a run may begin.
LEMMA Moves ==
  /\ \A to : CanTransitionRun("QUEUED", to) => to \in {"RUNNING", "CANCELLED"}
  /\ \A from : CanTransitionRun(from, "CANCELLED") => from \in ActiveRun
  /\ \A from : CanTransitionRun(from, "FAILED") => from \in {"RUNNING", "WAITING_FOR_APPROVAL"}
  BY DEF CanTransitionRun, RunTransitions, ActiveRun

LEMMA StartSteps ==
  ASSUME TalkInductive, NEW r \in AllRuns, RunStarts(r) \/ cancelRun(r)
  PROVE  TalkInductive'
<1>1. PICK x \in RunRow : x = agentRun[r]
  BY RowFacts
<1>2. UNCHANGED <<open, thread, recent, qa, owed>>
  BY DEF RunStarts, cancelRun
<1>a. x.approval \in {None, "PENDING", "EXPIRED"} \union Decided
  BY DEF RunRow
<1>3. CASE RunStarts(r)
  <2>1. PICK row : row = Moved(x, "RUNNING", None, x.approval)
    OBVIOUS
  <2>2. /\ row \in RunRow /\ row.status = "RUNNING" /\ row.reason = None /\ row.approval = x.approval
        /\ row.thread = x.thread /\ row.legacy = x.legacy /\ row.late = x.late /\ row.asks = x.asks
    BY <1>a, <2>1, MovedRow DEF RunStatus
  <2>3. agentRun' = [agentRun EXCEPT ![r] = row] /\ chat' = chat /\ ~x.legacy /\ x.status = "QUEUED"
    BY <1>1, <1>3, <2>1, TransitionRow DEF RunStarts
  <2>4. Outcome(row) = Outcome(x) /\ x.status \in ActiveRun
    BY <2>2, <2>3 DEF Outcome, TerminalRun, ActiveRun
  <2> QED BY <1>1, <1>2, <2>2, <2>3, <2>4, GenericRowStep, TalkNames
<1>4. CASE cancelRun(r)
  <2>1. PICK row : row = Moved(x, "CANCELLED", "CANCELLATION", x.approval)
    OBVIOUS
  <2>2. /\ row \in RunRow /\ row.status = "CANCELLED" /\ row.reason = "CANCELLATION" /\ row.approval = x.approval
        /\ row.thread = x.thread /\ row.legacy = x.legacy /\ row.late = x.late /\ row.asks = x.asks
    BY <1>a, <2>1, MovedRow DEF RunStatus
  <2>3. agentRun' = [agentRun EXCEPT ![r] = row] /\ syncConversation(r, "outcome") /\ x.status \in ActiveRun
    BY <1>1, <1>4, <2>1, TransitionRow, Moves DEF cancelRun
  <2>4. Outcome(row) = 1 /\ Outcome(x) = 0
    BY <2>2, <2>3 DEF Outcome, TerminalRun, ActiveRun
  <2>5. row.legacy => Agrees(row, qa[r]) /\ ~row.late
    BY <1>1, <2>2, RowFacts DEF Agrees
  <2>6. row.asks = x.asks + IF "outcome" = "waiting" THEN 1 ELSE 0
    BY <2>2, TalkBounds DEF RunRow
  <2> QED BY <1>1, <1>2, <2>2, <2>3, <2>4, <2>5, <2>6, GenericRowStep
<1> QED BY <1>3, <1>4

LEMMA PauseSteps ==
  ASSUME TalkInductive, NEW r \in AllRuns, pauseForApproval(r)
  PROVE  TalkInductive'
<1>1. PICK x \in RunRow : x = agentRun[r]
  BY RowFacts
<1>a. PICK n : n = x.asks + 1
  OBVIOUS
<1>2. PICK row : row = [x EXCEPT !.status = "WAITING_FOR_APPROVAL", !.asks = n,
                !.reason = "APPROVAL_REQUIRED", !.approval = "PENDING", !.late = FALSE]
  OBVIOUS
<1>3. x.asks \in Nat /\ x.asks < MaxAsks /\ x.status = "RUNNING" /\ MaxAsks \in Nat
  BY <1>1, TalkBounds DEF pauseForApproval, RunRow
<1>b. n \in 0..MaxAsks
  BY <1>3, <1>a
<1>4. /\ row \in RunRow /\ row.status = "WAITING_FOR_APPROVAL" /\ row.reason = "APPROVAL_REQUIRED" /\ row.approval = "PENDING"
      /\ row.thread = x.thread /\ row.legacy = x.legacy /\ ~row.late /\ row.asks = n
  BY ONLY x \in RunRow, <1>2, <1>b DEF RunRow, RunStatus
<1>5. agentRun' = [agentRun EXCEPT ![r] = row] /\ syncConversation(r, "waiting") /\ UNCHANGED <<open, thread, recent, qa, owed>>
  BY <1>1, <1>2, <1>a DEF pauseForApproval
<1>6. ~x.legacy
  BY <1>1, <1>3, RowFacts
<1>7. Outcome(row) = 0 /\ Outcome(x) = 0 /\ x.status \in ActiveRun
  BY <1>3, <1>4 DEF Outcome, TerminalRun, ActiveRun
<1>8. row.asks = x.asks + IF "waiting" = "waiting" THEN 1 ELSE 0
  BY <1>4, <1>a
<1> QED BY <1>1, <1>4, <1>5, <1>6, <1>7, <1>8, GenericRowStep

LEMMA DueSteps ==
  ASSUME TalkInductive, NEW r \in AllRuns, FallsDue(r)
  PROVE  TalkInductive'
<1>1. PICK x \in RunRow : x = agentRun[r]
  BY RowFacts
<1>2. PICK row : row = [x EXCEPT !.late = TRUE]
  OBVIOUS
<1>3. /\ row \in RunRow /\ row.status = x.status /\ row.reason = x.reason /\ row.approval = x.approval
      /\ row.thread = x.thread /\ row.legacy = x.legacy /\ row.asks = x.asks
  BY ONLY x \in RunRow, <1>2 DEF RunRow
<1>4. agentRun' = [agentRun EXCEPT ![r] = row] /\ ~x.legacy /\ UNCHANGED <<open, chat, thread, recent, qa, owed>>
  BY <1>1, <1>2, TalkFacts DEF FallsDue
<1>5. Outcome(row) = Outcome(x)
  BY <1>3 DEF Outcome
<1> QED BY <1>1, <1>3, <1>4, <1>5, RowFacts, GenericRowStep

LEMMA ExpirySteps ==
  ASSUME TalkInductive, NEW r \in AllRuns, expireDue(r)
  PROVE  TalkInductive'
<1>1. PICK x \in RunRow : x = agentRun[r] /\ x.late /\ ~x.legacy /\ x.approval = "PENDING"
  BY RowFacts DEF expireDue
<1>2. UNCHANGED <<open, thread, recent, qa, owed>>
  BY DEF expireDue
<1>3. CASE x.status = "WAITING_FOR_APPROVAL"
  <2>1. PICK row : row = Moved(x, "CANCELLED", "APPROVAL_EXPIRED", "EXPIRED")
    OBVIOUS
  <2>2. /\ row \in RunRow /\ row.status = "CANCELLED" /\ row.reason = "APPROVAL_EXPIRED" /\ row.approval = "EXPIRED"
        /\ row.thread = x.thread /\ row.legacy = x.legacy /\ row.asks = x.asks
    BY <2>1, MovedRow DEF RunStatus
  <2>3. agentRun' = [agentRun EXCEPT ![r] = row] /\ syncConversation(r, "outcome")
    BY <1>1, <1>3, <2>1, TransitionRow DEF expireDue
  <2>4. Outcome(row) = 1 /\ Outcome(x) = 0
    BY <1>3, <2>2 DEF Outcome, TerminalRun
  <2>5. row.asks = x.asks + IF "outcome" = "waiting" THEN 1 ELSE 0
    BY <2>2, TalkBounds DEF RunRow
  <2>6. row.status \notin ActiveRun
    BY <2>2 DEF ActiveRun
  <2> QED BY <1>1, <1>2, <2>2, <2>3, <2>4, <2>5, <2>6, GenericRowStep
<1>4. CASE x.status # "WAITING_FOR_APPROVAL"
  <2>1. PICK row : row = [x EXCEPT !.approval = "EXPIRED"]
    OBVIOUS
  <2>2. /\ row \in RunRow /\ row.status = x.status /\ row.reason = x.reason /\ row.approval = "EXPIRED"
        /\ row.thread = x.thread /\ row.legacy = x.legacy /\ row.asks = x.asks
    BY ONLY x \in RunRow, <2>1 DEF RunRow
  <2>3. agentRun' = [agentRun EXCEPT ![r] = row] /\ chat' = chat
    BY <1>1, <1>4, <2>1, TalkFacts DEF expireDue
  <2>4. Outcome(row) = Outcome(x) /\ row.reason # "APPROVAL_GRANTED"
    BY <1>1, <2>2, RowFacts DEF Outcome
  <2> QED BY <1>1, <1>2, <1>4, <2>2, <2>3, <2>4, GenericRowStep
<1> QED BY <1>3, <1>4

LEMMA EventSteps ==
  ASSUME TalkInductive, NEW r \in AllRuns, NEW type \in {"run.completed", "run.failed", "run.cancelled"},
         recordRuntimeEvent(r, type)
  PROVE  TalkInductive'
<1>1. PICK x \in RunRow : x = agentRun[r] /\ ~x.legacy
  BY RowFacts DEF recordRuntimeEvent
<1>a. PICK to : to = EventTarget(type)
  OBVIOUS
<1>2. to = EventTarget(type) /\ to \in {"COMPLETED", "FAILED", "CANCELLED"}
  <2>1. \/ type = "run.completed" /\ to = "COMPLETED"
        \/ type = "run.failed" /\ to = "FAILED"
        \/ type = "run.cancelled" /\ to = "CANCELLED"
    BY <1>a DEF EventTarget
  <2> QED BY <1>a, <2>1
<1>b. PICK reason : reason = CASE type = "run.completed" -> None [] type = "run.failed" -> "FAILURE"
                                  [] OTHER -> "CANCELLATION"
  OBVIOUS
<1>3. reason \in {None, "FAILURE", "CANCELLATION"}
  <2>1. \/ type = "run.completed" /\ reason = None
        \/ type = "run.failed" /\ reason = "FAILURE"
        \/ type = "run.cancelled" /\ reason = "CANCELLATION"
    BY <1>b
  <2> QED BY <2>1
<1>4. PICK row : row = Moved(x, to, reason, x.approval)
  OBVIOUS
<1>5. /\ row \in RunRow /\ row.status = to /\ row.reason = reason /\ row.approval = x.approval
      /\ row.thread = x.thread /\ row.legacy = x.legacy /\ row.asks = x.asks
  <2>1. x.approval \in {None, "PENDING", "EXPIRED"} \union Decided /\ to \in RunStatus
    BY <1>2 DEF RunRow, RunStatus
  <2> QED BY <1>3, <1>4, <2>1, MovedRow
<1>6. /\ agentRun' = [agentRun EXCEPT ![r] = row] /\ syncConversation(r, "outcome")
      /\ UNCHANGED <<open, thread, recent, qa, owed>> /\ x.status \notin TerminalRun
  BY <1>1, <1>2, <1>b, <1>4, TransitionRow DEF recordRuntimeEvent, Accepts
<1>7. /\ Outcome(row) = 1 /\ Outcome(x) = 0 /\ row.status \notin ActiveRun /\ row.status # "WAITING_FOR_APPROVAL"
      /\ row.reason # "APPROVAL_GRANTED"
  BY <1>2, <1>3, <1>5, <1>6, TalkNames DEF Outcome, TerminalRun, ActiveRun
<1>8. row.asks = x.asks + IF "outcome" = "waiting" THEN 1 ELSE 0
  BY <1>5, TalkBounds DEF RunRow
<1> QED BY <1>1, <1>5, <1>6, <1>7, <1>8, GenericRowStep

LEMMA DecisionSteps ==
  ASSUME TalkInductive, NEW r \in AllRuns, NEW decision \in Decided, decideApproval(r, decision)
  PROVE  TalkInductive'
<1>1. PICK x \in RunRow : x = agentRun[r] /\ ~x.late /\ x.approval = "PENDING"
  BY RowFacts DEF decideApproval
<1>2. PICK row : row = IF x.status # "WAITING_FOR_APPROVAL" THEN [x EXCEPT !.approval = decision]
                       ELSE IF decision = "APPROVED" THEN Moved(x, "QUEUED", "APPROVAL_GRANTED", decision)
                       ELSE Moved(x, "CANCELLED", "APPROVAL_REJECTED", decision)
  OBVIOUS
<1>3. agentRun' = [agentRun EXCEPT ![r] = row] /\ UNCHANGED <<open, chat, thread, recent, owed>>
  BY <1>1, <1>2, TransitionRow, TalkFacts DEF decideApproval, onApprovalDecided
<1>4. PICK q : q = IF decision = "APPROVED" THEN "READY" ELSE "REJECTED"
  OBVIOUS
<1>5. /\ DOMAIN qa' = DOMAIN qa /\ \A s \in DOMAIN qa \ {r} : qa'[s] = qa[s]
      /\ r \in DOMAIN qa => qa'[r] = q
  BY <1>1, <1>4, RowFacts DEF decideApproval
<1>6. x.legacy => qa[r] = "AWAITING_APPROVAL" /\ Agrees(x, qa[r])
  <2>1. x.legacy => Agrees(x, qa[r]) /\ qa[r] \in {"AWAITING_APPROVAL", "READY", "REJECTED"}
    BY <1>1, RowFacts
  <2> QED BY <1>1, <2>1 DEF Agrees
<1>7. CASE x.status # "WAITING_FOR_APPROVAL"
  <2>1. /\ row \in RunRow /\ row.status = x.status /\ row.reason = x.reason /\ row.approval = decision
        /\ row.thread = x.thread /\ row.legacy = x.legacy /\ row.asks = x.asks /\ ~row.late
    <3>1. row = [x EXCEPT !.approval = decision]
      BY <1>2, <1>7
    <3> QED BY ONLY x \in RunRow, <1>1, <3>1, decision \in Decided DEF RunRow
  <2>2. Outcome(row) = Outcome(x) /\ row.reason # "APPROVAL_GRANTED"
    BY <1>1, <2>1, RowFacts DEF Outcome
  <2>3. x.legacy => Agrees(row, q) /\ q \in {"AWAITING_APPROVAL", "READY", "REJECTED"}
    <3>1. x.legacy => x.status = "CANCELLED" /\ x.reason # "APPROVAL_REJECTED"
      BY <1>6, <1>7 DEF Agrees
    <3> QED BY <1>4, <2>1, <3>1 DEF Agrees, Decided
  <2> QED BY <1>1, <1>3, <1>5, <1>7, <2>1, <2>2, <2>3, RowFacts, RowStep
<1>8. CASE x.status = "WAITING_FOR_APPROVAL"
  <2>1. /\ row \in RunRow /\ row.approval = decision
        /\ row.status = IF decision = "APPROVED" THEN "QUEUED" ELSE "CANCELLED"
        /\ row.reason = IF decision = "APPROVED" THEN "APPROVAL_GRANTED" ELSE "APPROVAL_REJECTED"
        /\ row.thread = x.thread /\ row.legacy = x.legacy /\ row.asks = x.asks /\ ~row.late
    <3>1. CASE decision = "APPROVED"
      <4>1. row = Moved(x, "QUEUED", "APPROVAL_GRANTED", decision)
        BY <1>2, <1>8, <3>1
      <4> QED BY <1>1, <3>1, <4>1, MovedRow DEF RunStatus
    <3>2. CASE decision # "APPROVED"
      <4>1. row = Moved(x, "CANCELLED", "APPROVAL_REJECTED", decision)
        BY <1>2, <1>8, <3>2
      <4> QED BY <1>1, <3>2, <4>1, MovedRow DEF RunStatus
    <3> QED BY <3>1, <3>2
  <2>2. Outcome(row) = 0 /\ Outcome(x) = 0 /\ x.status \in ActiveRun
    BY <1>8, <2>1 DEF Outcome, TerminalRun, ActiveRun
  <2>3. Agrees(row, q) /\ q \in {"AWAITING_APPROVAL", "READY", "REJECTED"}
    BY <1>4, <2>1 DEF Agrees, Decided
  <2>4. row.status # "WAITING_FOR_APPROVAL" /\ (row.reason = "APPROVAL_GRANTED" => row.approval = "APPROVED")
    BY <2>1
  <2> QED BY <1>1, <1>3, <1>5, <2>1, <2>2, <2>3, <2>4, RowStep
<1> QED BY <1>7, <1>8

LEMMA TalkFrame ==
  ASSUME TalkInductive, UNCHANGED <<chat, thread, recent, agentRun, qa, owed>>, open' \subseteq Chats
  PROVE  TalkInductive'
<1>1. AllRuns' = AllRuns /\ AllThreads' = AllThreads /\ \A r : ChatOf(r)' = ChatOf(r)
  BY DEF AllRuns, AllThreads, ChatOf
<1>2. TalkTypeOK'
  BY <1>1, TalkFacts DEF TalkTypeOK
<1>3. OneActiveRun' /\ ReleasedByPerson'
  BY <1>1, TalkFacts DEF OneActiveRun, ReleasedByPerson
<1>4. LegacyAgrees'
  <2>1. \A r \in DOMAIN qa : Agrees(agentRun[r], qa[r])
    BY TalkFacts DEF LegacyAgrees, Agrees
  <2>2. \A r \in DOMAIN qa' : Agrees(agentRun'[r], qa'[r])
    BY <2>1
  <2> QED BY <2>2 DEF LegacyAgrees, Agrees
<1>5. RunsFit' /\ MessagesFit'
  BY <1>1, TalkFacts DEF RunsFit, RunFits, MessagesFit
<1>6. OutcomesTold'
  <2>1. \A r \in AllRuns', c \in Chats :
          /\ c # ChatOf(r)' => \A i \in DOMAIN chat'[c] : chat'[c][i].about # r
          /\ ~agentRun'[r].legacy /\ c = ChatOf(r)' => Told(chat'[c], r, agentRun'[r])
    BY <1>1, TalkFacts
  <2> QED BY <2>1 DEF OutcomesTold, About, Told, Mention, Times, Outcome
<1> QED BY <1>2, <1>3, <1>4, <1>5, <1>6 DEF TalkInductive, ConversationsSound

LEMMA OpenSteps ==
  ASSUME TalkInductive, NEW c \in Chats, createConversation(c)
  PROVE  TalkInductive'
<1>1. UNCHANGED <<chat, thread, recent, agentRun, qa, owed>> /\ open' \subseteq Chats
  BY TalkFacts DEF createConversation, TalkTypeOK
<1> QED BY <1>1, TalkFrame

LEMMA TalkInductiveStep == TalkInductive /\ [TalkNext]_talkVars => TalkInductive'
<1> SUFFICES ASSUME TalkInductive, [TalkNext]_talkVars PROVE TalkInductive'
  OBVIOUS
<1>1. CASE TalkNext
  BY <1>1, PlaceSteps, OpenSteps, ReportSteps, StartSteps, PauseSteps, DueSteps, ExpirySteps, EventSteps, DecisionSteps
     DEF TalkNext
<1>2. CASE UNCHANGED talkVars
  <2>1. UNCHANGED <<chat, thread, recent, agentRun, qa, owed>> /\ open' \subseteq Chats
    BY <1>2, TalkFacts DEF talkVars, TalkTypeOK
  <2> QED BY <2>1, TalkFrame
<1> QED BY <1>1, <1>2

\* Conversations: a thread has at most one active run, the records of a legacy
\* QA run agree, what is released was released by a person, and a conversation
\* hears of its own runs only, each request and each outcome once.
THEOREM ConversationsSoundHolds == TalkSpec => []ConversationsSound
<1>1. TalkSpec => []TalkInductive
  BY TalkInductiveInit, TalkInductiveStep, PTL DEF TalkSpec
<1>2. TalkInductive => ConversationsSound
  BY DEF TalkInductive
<1> QED BY <1>1, <1>2, PTL

-----------------------------------------------------------------------------
(***************************************************************************)
(* The platform: the steps of the others leave both alone.                  *)
(***************************************************************************)
\* All sessions, of passwords, links and Google, whatever else the platform does.
THEOREM SessionsSoundHold == PlatformSpec => []SessionsSound
<1>1. PlatformInit => AccountsInit /\ SignInInit
  BY DEF PlatformInit
<1>2. [PlatformNext]_platformVars => [AccountsNext]_accountVars /\ [SignInNext]_signInVars
  BY DEF PlatformNext, platformVars, LeaseMoves, AccountMoves, TalkMoves, SecretMoves, TransactionMoves,
     MigrationMoves, SandboxMoves, PageMoves, DeskMoves, SignInMoves, WebMoves
<1>3. AccountsSpec => []AccountsSound
  BY AccountsSoundHolds
<1>4. SignInSpec => []SignInSound
  BY SignInSoundHolds
<1>5. AccountsSound /\ SignInSound => SessionsSound
  BY DEF SessionsSound
<1> QED BY <1>1, <1>2, <1>3, <1>4, <1>5, PTL DEF PlatformSpec, AccountsSpec, SignInSpec
=============================================================================
