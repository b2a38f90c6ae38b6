---------------------------- MODULE MobileSession ----------------------------
(***************************************************************************)
(* The session of the app for phones (smartorganizr-mobile): the tokens on *)
(* the device (api/auth.ts), the requests that carry them (fetchWithAuth,  *)
(* api/ApiClient.ts), the start page with its login (app/index.tsx) and    *)
(* the logout (app/redirect/settings.tsx).                                 *)
(*                                                                         *)
(* A token belongs to the login it came from. Keycloak answers a login and *)
(* a refresh with both tokens. Reads and writes of AsyncStorage are atomic *)
(* and a step reaches from one answer of the network to the next request.  *)
(***************************************************************************)
EXTENDS Integers

CONSTANTS
    Call,           \* requests of the pages that may be under way at once
    NoToken,
    MaxLogins,      \* bound: logins
    MaxIssued       \* bound: access tokens

Boot == "boot"      \* the one call of the start page

SessionBounds ==
    /\ MaxLogins \in Nat \ {0} /\ MaxIssued \in Nat \ {0}
    /\ Boot \notin Call

NoLogin == 0
Login == 1..MaxLogins
Token == [login : Login, nr : 1..MaxIssued]

VARIABLES
    online,         \* getNetworkStateAsync().isConnected
    access, fresh,  \* ACCESS_TOKEN, and is ACCESS_TOKEN_EXPIRES_AT ahead?
    refresh,        \* REFRESH_TOKEN: the login it belongs to, or NoLogin
    config,         \* is PUBLIC_CONFIG_KEY stored?
    loginUrl,       \* is LOGIN_URL stored?
    cached,         \* is NOTES_CACHE_KEY stored?
    screen,         \* "start": the start page checks, "login": it waits, "inside"
    prompt,         \* Keycloak's page is open, or about to be
    call,           \* call[c]: an ensureValidAccessToken and the request around it
    logins, issued, \* how many there were
    alone,          \* history: since the app started, no network and no login begun
    dropped         \* history: was a session given up that Keycloak had not refused?

vars == <<online, access, fresh, refresh, config, loginUrl, cached, screen, prompt, call,
          logins, issued, alone, dropped>>
tokens == <<access, fresh, refresh, issued>>
page == <<screen, prompt, logins, alone>>
rest == <<config, loginUrl, cached>>

NoCall == [pc |-> "idle", tries |-> 0, refresh |-> NoLogin, token |-> NoToken,
           first |-> NoToken]

TypeOK ==
    /\ {online, fresh, config, loginUrl, cached, prompt, alone, dropped} \subseteq BOOLEAN
    /\ access \in Token \union {NoToken}
    /\ refresh \in Login \union {NoLogin}
    /\ screen \in {"start", "login", "inside"}
    /\ call \in [Call \union {Boot} ->
          [pc : {"idle", "check", "config", "refresh", "got", "sent"}, tries : 0..2,
           refresh : Login \union {NoLogin}, token : Token \union {NoToken},
           first : Token \union {NoToken}]]
    /\ logins \in 0..MaxLogins /\ issued \in 0..MaxIssued

\* The app is opened for the first time, or with the data of an earlier login.
Init ==
    /\ online \in BOOLEAN
    /\ \/ access = NoToken /\ refresh = NoLogin /\ fresh = FALSE
          /\ config = FALSE /\ loginUrl = FALSE /\ cached = FALSE
          /\ logins = 0 /\ issued = 0
       \/ access = [login |-> 1, nr |-> 1] /\ refresh = 1 /\ fresh \in BOOLEAN
          /\ config = TRUE /\ loginUrl = TRUE /\ cached \in BOOLEAN
          /\ logins = 1 /\ issued = 1
    /\ screen = IF loginUrl THEN "start" ELSE "login"
    /\ prompt = FALSE
    /\ call = [c \in Call \union {Boot} |->
                 IF c = Boot /\ loginUrl THEN [NoCall EXCEPT !.pc = "check"] ELSE NoCall]
    /\ alone = ~ online
    /\ dropped = FALSE

-----------------------------------------------------------------------------
(* ensureValidAccessToken, by a page's request or by the start page.       *)

\* With a fresh token nothing is asked; without a refresh token or a network
\* there is none to be had.
Check(c) ==
    /\ call[c].pc = "check"
    /\ call' = [call EXCEPT
          ![c].pc = IF fresh \/ refresh = NoLogin \/ ~ online THEN "got" ELSE "config",
          ![c].token = IF fresh THEN access ELSE NoToken,
          ![c].refresh = refresh]
    /\ UNCHANGED <<online, tokens, page, rest, dropped>>

\* getConfig: the network's, else the stored one, else none.
GetConfig(c) ==
    /\ call[c].pc = "config"
    /\ \E ok \in BOOLEAN :
          /\ ok => online
          /\ config' = (config \/ ok)
          /\ call' = [call EXCEPT ![c].pc = IF config' THEN "refresh" ELSE "got"]
    /\ UNCHANGED <<online, tokens, page, loginUrl, cached, dropped>>

clearTokens == access' = NoToken /\ fresh' = FALSE /\ refresh' = NoLogin

\* Both tokens are stored at once.
storeTokenResponse(login) ==
    /\ issued < MaxIssued
    /\ issued' = issued + 1
    /\ access' = [login |-> login, nr |-> issued']
    /\ fresh' = TRUE
    /\ refresh' = login

RefreshAnswered(c) ==
    /\ call[c].pc = "refresh" /\ online
    /\ storeTokenResponse(call[c].refresh)
    /\ call' = [call EXCEPT ![c].pc = "got", ![c].token = access']
    /\ UNCHANGED <<online, page, rest, dropped>>

\* Any other answer clears what is stored, whoever stored it: Keycloak
\* refuses, or it is only unavailable.
RefreshRefused(c) ==
    /\ call[c].pc = "refresh" /\ online
    /\ clearTokens
    /\ \E unavailable \in BOOLEAN :
          dropped' = (dropped \/ (refresh # NoLogin
                                    /\ (unavailable \/ refresh # call[c].refresh)))
    /\ call' = [call EXCEPT ![c].pc = "got"]
    /\ UNCHANGED <<online, issued, page, rest>>

\* A fetch throws: the start page falls back to the login, a page's request
\* fails.
Throws(c) ==
    /\ call[c].pc \in {"config", "refresh", "sent"}
    /\ call[c].pc = "config" => online
    /\ call' = [call EXCEPT ![c] = NoCall]
    /\ screen' = IF c = Boot THEN "login" ELSE screen
    /\ UNCHANGED <<online, tokens, prompt, logins, alone, rest, dropped>>

-----------------------------------------------------------------------------
(* fetchWithAuth.                                                          *)

Request(c) ==
    /\ screen = "inside" /\ call[c].pc = "idle"
    /\ call' = [call EXCEPT ![c].pc = "check", ![c].tries = 1]
    /\ UNCHANGED <<online, tokens, page, rest, dropped>>

\* The second round sends only what is not the token of the first.
Send(c) ==
    /\ call[c].pc = "got"
    /\ call' = IF call[c].tries = 1 \/ call[c].token \notin {NoToken, call[c].first}
               THEN [call EXCEPT ![c].pc = "sent"]
               ELSE [call EXCEPT ![c] = NoCall]
    /\ UNCHANGED <<online, tokens, page, rest, dropped>>

\* The server knows the token, or does not. A list that arrives is stored.
Response(c) ==
    /\ call[c].pc = "sent"
    /\ \/ /\ call[c].tries = 1
          /\ call' = [call EXCEPT ![c].pc = "check", ![c].tries = 2,
                                  ![c].first = call[c].token]
          /\ UNCHANGED cached
       \/ /\ call' = [call EXCEPT ![c] = NoCall]
          /\ cached' \in {cached, TRUE}
    /\ UNCHANGED <<online, tokens, page, config, loginUrl, dropped>>

-----------------------------------------------------------------------------
(* The start page.                                                         *)

\* The end of bootstrap: offline any data of an earlier session will do.
hasOfflineSessionData == access # NoToken \/ refresh # NoLogin \/ cached

Bootstrapped ==
    /\ call[Boot].pc = "got"
    /\ screen' = IF call[Boot].token # NoToken \/ (~ online /\ hasOfflineSessionData)
                 THEN "inside" ELSE "login"
    /\ call' = [call EXCEPT ![Boot] = NoCall]
    /\ UNCHANGED <<online, tokens, prompt, logins, alone, rest, dropped>>

\* handleSubmit: the server is asked for its Keycloak, or the stored answer
\* used, and the address is stored.
Submit ==
    /\ screen = "login" /\ ~ prompt
    /\ online \/ config
    /\ config' = TRUE /\ loginUrl' = TRUE /\ prompt' = TRUE /\ alone' = FALSE
    /\ UNCHANGED <<online, tokens, screen, call, logins, cached, dropped>>

\* The member signs in and exchangeCode stores the tokens.
SignIn ==
    /\ prompt /\ online /\ logins < MaxLogins
    /\ logins' = logins + 1
    /\ storeTokenResponse(logins')
    /\ prompt' = FALSE /\ screen' = "inside"
    /\ UNCHANGED <<online, alone, rest, call, dropped>>

\* The member closes Keycloak's page, or the exchange fails.
SignInFails ==
    /\ prompt
    /\ prompt' = FALSE
    /\ UNCHANGED <<online, tokens, screen, logins, alone, rest, call, dropped>>

\* handleLogout forgets everything; requests under way go on.
Logout ==
    /\ screen = "inside"
    /\ clearTokens
    /\ config' = FALSE /\ loginUrl' = FALSE /\ cached' = FALSE
    /\ screen' = "login"
    /\ UNCHANGED <<online, issued, prompt, logins, alone, call, dropped>>

-----------------------------------------------------------------------------
(* The device: the app is closed and opened, the network comes and goes,   *)
(* an access token runs out.                                               *)

Restart ==
    /\ call' = [c \in Call \union {Boot} |->
                  IF c = Boot /\ loginUrl THEN [NoCall EXCEPT !.pc = "check"] ELSE NoCall]
    /\ screen' = IF loginUrl THEN "start" ELSE "login"
    /\ prompt' = FALSE
    /\ alone' = ~ online
    /\ UNCHANGED <<online, tokens, logins, rest, dropped>>

Network ==
    /\ online' = ~ online
    /\ alone' = FALSE
    /\ UNCHANGED <<tokens, screen, prompt, logins, rest, call, dropped>>

Expire ==
    /\ fresh
    /\ fresh' = FALSE
    /\ UNCHANGED <<online, access, refresh, issued, page, rest, call, dropped>>

Next ==
    \/ \E c \in Call \union {Boot} :
          Check(c) \/ GetConfig(c) \/ RefreshAnswered(c) \/ RefreshRefused(c) \/ Throws(c)
    \/ \E c \in Call : Request(c) \/ Send(c) \/ Response(c)
    \/ Bootstrapped \/ Submit \/ SignIn \/ SignInFails \/ Logout
    \/ Restart \/ Network \/ Expire

Spec == Init /\ [][Next]_vars

-----------------------------------------------------------------------------
(* The two tokens on the device belong to one login, also when a refresh   *)
(* of one login is answered after the member has signed in again           *)
(* (api/auth.ts, storeTokenResponse and clearTokens).                      *)
OnePair == access # NoToken => refresh = access.login

(* Who starts the app without a network and has anything of an earlier     *)
(* session on the device is let in (app/index.tsx, bootstrap).             *)
OfflineStartOpens ==
    screen = "login" /\ loginUrl /\ alone => ~ hasOfflineSessionData

(* Why: the start page has one call, which ends where the page ends, and   *)
(* sends nothing; a call that refreshes has a login to refresh. Without a  *)
(* network since the start nothing is refreshed, and until the member is   *)
(* let in no page asks for anything.                                       *)
StartsOnce ==
    /\ call[Boot].pc # "idle" => screen = "start"
    /\ call[Boot].pc # "sent"
    /\ prompt => screen = "login"

Refreshes == \A c \in Call \union {Boot} :
    call[c].pc \in {"config", "refresh"} => call[c].refresh # NoLogin

NothingAsked ==
    alone => /\ ~ online
             /\ \A c \in Call \union {Boot} : call[c].pc \notin {"config", "refresh"}
             /\ loginUrl /\ screen # "inside" => \A c \in Call : call[c].pc = "idle"

SessionInv == TypeOK /\ OnePair /\ OfflineStartOpens /\ StartsOnce /\ Refreshes /\ NothingAsked

(* "Einmal anmelden, danach bleibt deine Session per Offline-Token aktiv": *)
(* a session ends by a refusal or a logout (app/index.tsx:191).            *)
SessionKept == ~ dropped
=============================================================================
