---------------------------- MODULE TLSValidator ----------------------------
(***************************************************************************)
(* What internal/security finds wrong with the TLS endpoint of a BMC.  The *)
(* errors and warnings are told apart by their texts, shortened here.      *)
(***************************************************************************)
EXTENDS Naturals, Sequences

CONSTANT Unreachable    \* no certificate: the dial fails or brings none

(* NewTLSValidator                                                         *)
AllowSelfSigned == FALSE

(* What the checks tell apart of a certificate and its chain.              *)
Certificate ==
  [validity   : {"not yet", "long", "30 days", "7 days", "expired"},
   selfSigned : BOOLEAN,
   usages     : SUBSET {"digital signature", "key exchange", "server auth"},
   cas        : {<<leaf>> : leaf \in BOOLEAN}    \* is each one of the chain a CA
                  \cup {<<leaf, ca>> : leaf, ca \in BOOLEAN},
   names      : SUBSET {"DNS", "IP"},            \* the kinds of names it has
   matches    : BOOLEAN]                         \* is the host among them

Texts(conditions) == {text \in DOMAIN conditions : conditions[text]}

validateCertificateErrors(cert) ==
  Texts([notYetValid |-> cert.validity = "not yet",
         expired     |-> cert.validity = "expired",
         selfSigned  |-> cert.selfSigned /\ ~AllowSelfSigned])

validateCertificateWarnings(cert) ==
  Texts([selfSigned  |-> cert.selfSigned /\ AllowSelfSigned,
         noSignature |-> "digital signature" \notin cert.usages,
         noExchange  |-> "key exchange" \notin cert.usages,
         noServer    |-> "server auth" \notin cert.usages])

validateCertificateChainErrors(cert) == Texts([leafIsCA |-> cert.cas[1]])

validateCertificateChainWarnings(cert) ==
  Texts([leafOnly |-> Len(cert.cas) = 1 /\ ~cert.selfSigned,
         notCA    |-> \E i \in 2..Len(cert.cas) : ~cert.cas[i]])

validateExpiry(cert) ==
  Texts([month |-> cert.validity \in {"30 days", "7 days"},
         week  |-> cert.validity = "7 days"])

validateHostnameErrors(cert) == Texts([wrongName |-> ~cert.matches])

validateHostnameWarnings(cert) ==
  Texts([names |-> ~cert.matches /\ "DNS" \in cert.names,
         ips   |-> ~cert.matches /\ "IP" \in cert.names])

(* Addresses are told apart by their scheme; answer is what a dial finds.  *)
Dialled(address, answer) == address = "https" /\ answer # Unreachable

ValidateTLSEndpointErrors(address, answer) ==
  IF Dialled(address, answer)
  THEN validateCertificateErrors(answer)
         \cup validateCertificateChainErrors(answer)
         \cup validateHostnameErrors(answer)
  ELSE {CASE address = "unparsable" -> "invalidURL"
          [] address = "http" -> "notHTTPS"
          [] OTHER -> "noConnection"}

ValidateTLSEndpointWarnings(address, answer) ==
  IF Dialled(address, answer)
  THEN validateCertificateWarnings(answer)
         \cup validateCertificateChainWarnings(answer)
         \cup validateExpiry(answer)
         \cup validateHostnameWarnings(answer)
  ELSE {}

IsSelfSigned(address, answer) == Dialled(address, answer) /\ answer.selfSigned
=============================================================================
