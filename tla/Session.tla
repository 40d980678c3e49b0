------------------------------ MODULE Session ------------------------------
(***************************************************************************)
(* Who is logged in and on which page: the login, signup and profile pages *)
(* (app/auth, app/settings), the route guard (proxy.ts), logout, the token *)
(* in localStorage and its copy in a session cookie.                       *)
(* A call's handler runs to its end also after its page is gone (the token *)
(* is stored, the router moves); a full page load forgets it.              *)
(***************************************************************************)
EXTENDS Naturals, Sequences, SequencesExt

CONSTANTS
    None,         \* no profile, no message
    MaxAuthCalls  \* bound on the calls in flight

ASSUME SessionAssumption ==
    /\ None \notin {"success", "error"}
    /\ MaxAuthCalls \in Nat \ {0}

Pages == {"login", "signup", "home", "profile"}

VARIABLES
    page,      \* the page shown
    storage,   \* localStorage holds the token
    cookie,    \* the session cookie holds the token
    auth,      \* calls in flight: [kind, here (its page is still shown), got]
    form,      \* the login or signup form: required fields filled, loading
    prof,      \* state of the profile page
    hasKey     \* the server holds the user's KIS keys

sessionVars == <<page, storage, cookie, auth, form, prof, hasKey>>

\* loading, profile (None or hasKisApiKey), both key fields filled, saving,
\* message
NewProfile == [loading |-> TRUE, has |-> None, typed |-> FALSE, saving |-> FALSE, msg |-> None]

NewForm == [filled |-> FALSE, busy |-> FALSE]

-----------------------------------------------------------------------------
(* Navigation.                                                             *)

\* proxy: the auth pages are open, every other page needs the cookie.
Proxy(path, ck) == IF path \in {"login", "signup"} \/ ck THEN path ELSE "login"

\* The mount effect of the other pages: back to login without a stored token.
Land(path, ck, st) ==
    LET p == Proxy(path, ck)
    IN  IF p \in {"home", "profile"} /\ ~st THEN "login" ELSE p

\* The router moves to path with the calls q in flight: the page left forgets
\* its state, the profile page asks for the profile when it is entered.
Goto(path, ck, st, q) ==
    LET p    == Land(path, ck, st)
        away == [i \in DOMAIN q |-> [q[i] EXCEPT !.here = FALSE]]
    IN  /\ page' = p
        /\ IF p = page THEN auth' = q /\ UNCHANGED <<form, prof>>
           ELSE /\ form' = NewForm
                /\ prof' = NewProfile
                /\ auth' = IF p = "profile"
                           THEN Append(away, [kind |-> "profile", here |-> TRUE, got |-> None])
                           ELSE away

\* The profile page is drawn once its loading has ended.
ProfileShown == page = "profile" /\ ~prof.loading

\* Links and buttons of the pages.
Links == [login |-> {"signup"}, signup |-> {"login"}, home |-> {"profile"}, profile |-> {"home"}]

FollowLink(path) ==
    /\ path \in Links[page]
    /\ page = "profile" => ProfileShown
    /\ Len(auth) < MaxAuthCalls
    /\ Goto(path, cookie, storage, auth)
    /\ UNCHANGED <<storage, cookie, hasKey>>

\* The address bar, or a reload: a full load, the calls in flight are forgotten.
LoadPage(path) ==
    LET p == Land(path, cookie, storage)
    IN  /\ page' = p
        /\ form' = NewForm /\ prof' = NewProfile
        /\ auth' = IF p = "profile" THEN <<[kind |-> "profile", here |-> TRUE, got |-> None]>>
                   ELSE <<>>
        /\ UNCHANGED <<storage, cookie, hasKey>>

\* The browser is closed and opened at the dashboard: the session cookie is
\* gone, localStorage is kept.
Restart ==
    /\ cookie' = FALSE
    /\ page' = Land("home", FALSE, storage)
    /\ form' = NewForm /\ prof' = NewProfile /\ auth' = <<>>
    /\ UNCHANGED <<storage, hasKey>>

-----------------------------------------------------------------------------
(* Login, signup and logout.                                               *)

AuthCall(kind) == Append(auth, [kind |-> kind, here |-> TRUE, got |-> None])

\* The two forms can be submitted once their required fields are filled, while
\* the button is enabled.
LoginForm == page = "login" /\ form.filled /\ ~form.busy
SignupForm == page = "signup" /\ form.filled /\ ~form.busy

FillForm ==
    /\ page \in {"login", "signup"} /\ ~form.filled
    /\ form' = [form EXCEPT !.filled = TRUE]
    /\ UNCHANGED <<page, storage, cookie, auth, prof, hasKey>>

\* handleSubmit of a form up to its await.
Submit(kind) ==
    /\ Len(auth) < MaxAuthCalls
    /\ form' = [form EXCEPT !.busy = TRUE]
    /\ auth' = AuthCall(kind)
    /\ UNCHANGED <<page, storage, cookie, prof, hasKey>>

SubmitLogin == LoginForm /\ Submit("login")
SubmitSignup == SignupForm /\ Submit("signup")

AnswerOf(i, kind) == i \in DOMAIN auth /\ auth[i].kind = kind
Rest(i) == RemoveAt(auth, i)

\* An alert, and the button is enabled again if its page is still there.
Failed(i) ==
    /\ auth' = Rest(i)
    /\ form' = IF auth[i].here THEN [form EXCEPT !.busy = FALSE] ELSE form
    /\ UNCHANGED <<page, storage, cookie, prof, hasKey>>

LoginFailed(i) == AnswerOf(i, "login") /\ Failed(i)
SignupFailed(i) == AnswerOf(i, "signup") /\ Failed(i)

\* Login succeeded: the token is stored, the cookie written, the router goes
\* to the dashboard.
LoggedIn(i) ==
    /\ AnswerOf(i, "login")
    /\ storage' = TRUE /\ cookie' = TRUE
    /\ Goto("home", TRUE, TRUE, Rest(i))
    /\ UNCHANGED hasKey

\* Signup succeeded: on to the login page.  The keys given are optional.
SignedUp(i) ==
    /\ AnswerOf(i, "signup")
    /\ Goto("login", cookie, storage, Rest(i))
    /\ UNCHANGED <<storage, cookie, hasKey>>

\* handleLogout: the menu of the dashboard; the token is present there.
HandleLogout ==
    /\ page = "home"
    /\ Len(auth) < MaxAuthCalls
    /\ auth' = AuthCall("logout")
    /\ UNCHANGED <<page, storage, cookie, form, prof, hasKey>>

LogoutKeepsCookie(i) ==        \* mutant: the cookie is not cleared
    /\ AnswerOf(i, "logout")
    /\ storage' = FALSE
    /\ Goto("login", cookie, FALSE, Rest(i))
    /\ UNCHANGED <<cookie, hasKey>>

\* Its end, whatever the server answers.
LoggedOut(i) ==
    /\ AnswerOf(i, "logout")
    /\ storage' = FALSE /\ cookie' = FALSE
    /\ Goto("login", FALSE, FALSE, Rest(i))
    /\ UNCHANGED hasKey

-----------------------------------------------------------------------------
(* The profile page.                                                       *)

\* The server reads the profile.
ReadProfile(i) ==
    /\ AnswerOf(i, "profile") /\ auth[i].got = None
    /\ auth' = [auth EXCEPT ![i].got = hasKey]
    /\ UNCHANGED <<page, storage, cookie, form, prof, hasKey>>

\* fetchProfile: the profile, or an error that only ends the loading.
ProfileAnswer(i) ==
    /\ AnswerOf(i, "profile") /\ auth[i].got # None
    /\ auth' = Rest(i)
    /\ \/ /\ auth[i].here
          /\ \E has \in {prof.has, auth[i].got} :
                prof' = [prof EXCEPT !.loading = FALSE, !.has = has]
       \/ ~auth[i].here /\ UNCHANGED prof
    /\ UNCHANGED <<page, storage, cookie, form, hasKey>>

\* fetchProfile answered 401: to the login page.
ProfileRefused(i) ==
    /\ AnswerOf(i, "profile") /\ auth[i].got = None
    /\ Goto("login", cookie, storage, Rest(i))
    /\ UNCHANGED <<storage, cookie, hasKey>>

FormWhileLoading ==            \* mutant: the form does not wait for the profile
    /\ page = "profile" /\ ~prof.typed
    /\ prof' = [prof EXCEPT !.typed = TRUE]
    /\ UNCHANGED <<page, storage, cookie, auth, form, hasKey>>

\* The account is shown, or dashes without a profile.
AccountShown == prof.has # None

\* What the page says of the keys: registered, or (also without a profile) not.
KeysShown == prof.has = TRUE

\* Both fields are filled.
TypeKeys ==
    /\ ProfileShown /\ ~prof.typed
    /\ prof' = [prof EXCEPT !.typed = TRUE]
    /\ UNCHANGED <<page, storage, cookie, auth, form, hasKey>>

\* The message under the fields.
MessageShown == prof.msg

\* The form can be submitted.
ProfileForm == page = "profile" /\ prof.typed /\ ~prof.saving

\* handleSaveKisKeys up to its await.
HandleSaveKisKeys ==
    /\ ProfileForm
    /\ Len(auth) < MaxAuthCalls
    /\ prof' = [prof EXCEPT !.saving = TRUE, !.msg = None]
    /\ auth' = AuthCall("save")
    /\ UNCHANGED <<page, storage, cookie, form, hasKey>>

\* Its end: on success the server has the keys, the fields are cleared and the
\* profile, if it is there, says so; the answer may be lost after the server
\* stored the keys.
SaveAnswer(i) ==
    /\ AnswerOf(i, "save")
    /\ auth' = Rest(i)
    /\ \E ok \in BOOLEAN, stored \in BOOLEAN :
          /\ ok => stored
          /\ hasKey' = (hasKey \/ stored)
          /\ prof' = IF ~auth[i].here THEN prof
                     ELSE IF ok
                     THEN [prof EXCEPT !.saving = FALSE, !.msg = "success", !.typed = FALSE,
                                       !.has = IF @ = None THEN None ELSE TRUE]
                     ELSE [prof EXCEPT !.saving = FALSE, !.msg = "error"]
    /\ UNCHANGED <<page, storage, cookie, form>>

-----------------------------------------------------------------------------
SessionInit ==
    /\ page = "login"
    /\ storage = FALSE /\ cookie = FALSE
    /\ auth = <<>> /\ form = NewForm
    /\ prof = NewProfile
    /\ hasKey \in BOOLEAN

\* Steps that leave the page where it is.
StayStep ==
    \/ FillForm
    \/ SubmitLogin
    \/ SubmitSignup
    \/ \E i \in DOMAIN auth : LoginFailed(i)
    \/ \E i \in DOMAIN auth : SignupFailed(i)
    \/ HandleLogout
    \/ \E i \in DOMAIN auth : ReadProfile(i)
    \/ \E i \in DOMAIN auth : ProfileAnswer(i)
    \/ TypeKeys
    \/ HandleSaveKisKeys
    \/ \E i \in DOMAIN auth : SaveAnswer(i)

\* Steps of the router.
RouteStep ==
    \/ \E path \in Pages : FollowLink(path)
    \/ \E i \in DOMAIN auth : LoggedIn(i)
    \/ \E i \in DOMAIN auth : SignedUp(i)
    \/ \E i \in DOMAIN auth : LoggedOut(i)
    \/ \E i \in DOMAIN auth : ProfileRefused(i)

\* Full page loads.
LoadStep ==
    \/ \E path \in Pages : LoadPage(path)
    \/ Restart

-----------------------------------------------------------------------------
(* Properties.                                                             *)

\* The two copies of the token stay in step where it matters: a browser that
\* passes the route guard also has the stored token, so that no page is let in
\* by the cookie to be sent away by its mount effect.
GuardAgreesWithPages == cookie => storage

\* A profile page that reports the keys saved, and shows a profile, shows them
\* as registered: the answer of the profile request never overwrites it.
SavedIsShown ==
    page = "profile" /\ MessageShown = "success" /\ AccountShown => KeysShown

=============================================================================
