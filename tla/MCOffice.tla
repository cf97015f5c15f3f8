----------------------------- MODULE MCOffice ------------------------------
(***************************************************************************)
(* A small instance of Office: an administrator, two customers, three      *)
(* calls at a time over two connections.                                   *)
(***************************************************************************)
EXTENDS OfficeInvariant

CONSTANTS
  c1, c2, c3,                             \* calls
  adm, ann, bob,                          \* founders
  admMail, annMail, annName, bobMail,     \* their names
  ZoeMail, zoeMail, Nick, nick,           \* names as typed, and in lower case
  p1, p2, p3, s1, s2,                     \* passwords and answers
  n1, n2, n3, n4                          \* account numbers

MCNames == {admMail, annMail, annName, bobMail, ZoeMail, zoeMail, Nick, nick}
MCUsernames == {annName, Nick, nick}
MCLower == [n \in MCNames |-> CASE n = ZoeMail -> zoeMail [] n = Nick -> nick [] OTHER -> n]

Row(email, username, password, secret, role) ==
  [f \in Fields |->
     CASE f = "email" -> email [] f = "username" -> username [] f = "password" -> password
       [] f = "answer" -> secret [] f = "avatar" -> None [] f = "role" -> role]

\* bob has given no security answer.
MCFoundersRow ==
  [u \in Founders |->
     CASE u = adm -> Row(admMail, None, p1, None, "ADMIN")
       [] u = ann -> Row(annMail, annName, p1, s1, "CUSTOMER")
       [] u = bob -> Row(bobMail, None, p1, None, "CUSTOMER")]

MCFirstAccounts == {[number |-> n1, owner |-> ann]}

Ask(op, by) ==
  [op |-> op, by |-> by, name |-> None, username |-> None, secret |-> None,
   password |-> None, numbers |-> <<>>]
SignUp(name) ==
  [Ask("signup", None) EXCEPT !.name = name, !.password = p2, !.numbers = <<Generated>>]
Customer(by, name, username, numbers) ==
  [Ask("customer", by) EXCEPT !.name = name, !.username = username, !.password = p3,
                              !.secret = s2, !.numbers = numbers]
NewAccount(by) == [Ask("account", by) EXCEPT !.numbers = <<Generated>>]
Profile(by, username) == [Ask("profile", by) EXCEPT !.username = username]
Security(by, secret) == [Ask("security", by) EXCEPT !.secret = secret]
Password(by, secret, new) ==
  [Ask("password", by) EXCEPT !.secret = secret, !.password = new]
Reset(name, secret, new) ==
  [Ask("reset", None) EXCEPT !.name = name, !.secret = secret, !.password = new]
Login(name, secret) == [Ask("login", None) EXCEPT !.name = name, !.secret = secret]

Three(a, b, c) == [x \in Calls |-> CASE x = c1 -> a [] x = c2 -> b [] x = c3 -> c]

\* Names and numbers asked for twice, the limit of two accounts, secrets that change
\* while they are used, transactions that need a second connection, and refusals.
MCScenarios ==
  {Three(SignUp(ZoeMail), Customer(adm, ZoeMail, Nick, <<Generated>>), Login(ZoeMail, p3)),
   Three(SignUp(zoeMail), Customer(adm, zoeMail, None, <<n3>>), Customer(adm, ZoeMail, nick, <<n4>>)),
   Three(Customer(adm, zoeMail, Nick, <<n3, Generated>>), Profile(ann, Nick), Profile(bob, nick)),
   Three(Customer(adm, zoeMail, None, <<n2, n3>>), NewAccount(ann), NewAccount(bob)),
   Three(NewAccount(ann), NewAccount(ann), NewAccount(ann)),
   Three(Password(ann, p1, p2), Password(ann, p1, p3), Login(annName, p2)),
   Three(Password(ann, p1, p2), Reset(annMail, s1, p3), Security(ann, s2)),
   Three(Security(bob, s2), Reset(bobMail, s2, p2), Reset(annName, s2, p2)),
   Three(Profile(ann, Nick), Ask("avatar", ann), Security(ann, s2)),
   Three(Profile(ann, None), Profile(bob, annName), Login(annName, p1)),
   Three(Ask("blocked", ann), Ask("blocked", bob), Ask("avatar", adm)),
   Three(Ask("abroad", ann), Ask("abroad", bob), Ask("abroad", ann)),
   Three(Password(bob, p1, p1), NewAccount(adm), Customer(ann, zoeMail, None, <<n2>>))}
=============================================================================
