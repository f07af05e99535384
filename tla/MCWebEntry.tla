----------------------------- MODULE MCWebEntry -----------------------------
\* Two tabs, two users (ann with two-factor authentication), and a set of visits,
\* each with its own bounds: the pages and the deeds a visit is about.
EXTENDS WebEntry

Settings(terms, turnstile, methods) == [terms |-> terms, turnstile |-> turnstile, verify |-> TRUE, methods |-> methods]
AllMethods == {"wechat", "github", "discord", "oidc", "linuxdo", "telegram", "passkey"}

In(route, u) == [Closed EXCEPT !.route = route, !.guarded = TRUE, !.shown = u]
Server(owner, links) == [owner |-> owner, links |-> links, link |-> links, used |-> {}, done |-> <<>>, surprise |-> FALSE]

Visit(st, t1, t2, u, owner, links, may, acts, faults) ==
  [status |-> st, tab |-> <<t1, t2>>, stored |-> u, cookie |-> [NoSession EXCEPT !.user = u],
   srv |-> Server(owner, links), may |-> may, acts |-> acts, faults |-> faults]

MCVisits == {
  \* The password form and the second factor.
  Visit(Settings(TRUE, FALSE, {"passkey"}), In("login", NoUser), Closed, NoUser, NoUser, 0,
        {"agree", "login", "twofa", "back", "self", "logout"}, 7, 1),
  \* The other forms of the login page, with terms and Turnstile.
  Visit(Settings(TRUE, TRUE, AllMethods), In("login", NoUser), Closed, NoUser, NoUser, 0,
        {"agree", "turnstile", "email", "wechat", "telegram", "passkey", "login"}, 5, 1),
  \* Third-party logins in two tabs.
  Visit(Settings(FALSE, FALSE, AllMethods), In("login", NoUser), Closed, NoUser, "bob", 0,
        {"github", "discord", "oidc", "linuxdo"}, 2, 1),
  \* Binding, signing out and signing in again.
  Visit(Settings(FALSE, FALSE, {"github"}), In("console", "bob"), Closed, "bob", NoUser, 0,
        {"bind", "logout", "github", "self"}, 4, 0),
  Visit(Settings(FALSE, FALSE, {"oidc"}), In("console", "bob"), Closed, "bob", NoUser, 0, {"bind", "logout"}, 2, 1),
  \* The form of the registration page.
  Visit(Settings(TRUE, TRUE, AllMethods), In("register", NoUser), Closed, NoUser, "ann", 0,
        {"agree", "turnstile", "email", "register", "sendCode", "link"}, 6, 1),
  \* The other ways to sign in on the registration page.
  Visit(Settings(TRUE, FALSE, AllMethods), In("register", NoUser), Closed, NoUser, NoUser, 0,
        {"wechat", "telegram", "github", "discord", "oidc", "linuxdo"}, 2, 0),
  \* Two resets, their links opened in two tabs.
  Visit(Settings(FALSE, TRUE, {}), In("reset", NoUser), Closed, NoUser, NoUser, 1,
        {"resetMail", "reset", "turnstile", "link"}, 5, 1),
  \* Two tabs of one user.
  Visit(Settings(FALSE, FALSE, {}), In("console", "ann"), In("console", "ann"), "ann", NoUser, 0,
        {"self", "logout", "login", "open", "link"}, 4, 0),
  \* The account page.
  Visit(Settings(FALSE, FALSE, {}), In("console", "bob"), Closed, "bob", NoUser, 0, {"account"}, 0, 0),
  \* A new server.
  Visit(Settings(FALSE, FALSE, {}), Closed, Closed, NoUser, NoUser, 0, {}, 0, 0)}

Admin(n) == [name |-> n, password |-> "good", confirm |-> "good"]
MCAdmins == {Admin("ann"), Admin("bob"), Admin("long")}
MCStarts == {[wizards |-> {}, posts |-> 0, moves |-> 0, faults |-> 0],
             [wizards |-> {1}, posts |-> 2, moves |-> 3, faults |-> 1],
             [wizards |-> {1, 2}, posts |-> 2, moves |-> 1, faults |-> 0]}

Account(isRoot, tf) ==
  [email |-> 0, wechat |-> 0, token |-> 0, password |-> 1, deleted |-> FALSE, root |-> isRoot, pk |-> FALSE, begun |-> FALSE,
   tf |-> tf, secret |-> IF tf THEN 2 ELSE 0, codes |-> IF tf THEN 2 ELSE 0, mailed |-> {}]
Tour(may, acts, faults, ts, u) == [may |-> may, acts |-> acts, faults |-> faults, turnstile |-> ts, user |-> u]

MCTours == {
  Tour({}, 0, 0, FALSE, Account(FALSE, FALSE)),
  \* The e-mail dialog.
  Tour({"email"}, 6, 1, TRUE, Account(FALSE, FALSE)),
  \* Changes of the row, overlapping.
  Tour({"email", "token"}, 4, 1, FALSE, [Account(FALSE, FALSE) EXCEPT !.email = 2, !.mailed = {1}]),
  Tour({"token", "password"}, 4, 1, FALSE, Account(FALSE, FALSE)),
  Tour({"wechat"}, 4, 1, FALSE, Account(FALSE, FALSE)),
  \* The passkey.
  Tour({"passkey"}, 4, 1, FALSE, Account(FALSE, FALSE)),
  \* Two-factor authentication set up, and one that is on.
  Tour({"twofa"}, 7, 1, FALSE, Account(FALSE, FALSE)),
  Tour({"twofa"}, 7, 1, FALSE, Account(FALSE, TRUE)),
  \* The account deleted, or not.
  Tour({"delete", "password"}, 4, 1, FALSE, Account(FALSE, FALSE)),
  Tour({"delete"}, 3, 0, FALSE, Account(TRUE, FALSE))}
=============================================================================
