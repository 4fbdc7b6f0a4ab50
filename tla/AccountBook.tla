---------------------------- MODULE AccountBook ----------------------------
(***************************************************************************)
(* What a LifeStuff user is promised about the network's record of one     *)
(* account, without packets, calls or messages: the credentials that open  *)
(* the account, how a change of credentials alters them, and that an       *)
(* account that has been created never ends up without any.                *)
(***************************************************************************)
CONSTANTS Keywords, Pins, Passwords

Cred == [keyword : Keywords, pin : Pins, password : Passwords]

VARIABLE valid  \* the credentials that open the account

SameMid(c, d) == c.keyword = d.keyword /\ c.pin = d.pin

TypeOK == valid \subseteq Cred

Init == valid = {}

(* A session is stored under c.  The keyword and the pin name it, so c     *)
(* displaces the credential with another password for the same pair.       *)
Store(c) == valid' = {d \in valid : ~ SameMid(c, d)} \cup {c}

(* The session of c is withdrawn, which is allowed only while another      *)
(* credential still opens the account.                                     *)
Withdraw(c) ==
  /\ c \in valid
  /\ valid # {c}
  /\ valid' = valid \ {c}

Next == \E c \in Cred : Store(c) \/ Withdraw(c)

Spec == Init /\ [][Next]_valid

(* Once the account exists some credential opens it, in every later state. *)
NeverLockedOut == [][valid # {} => valid' # {}]_valid

(* The keyword and the pin determine the password that opens the account.  *)
OnePassword == \A c, d \in valid : SameMid(c, d) => c = d
=============================================================================
