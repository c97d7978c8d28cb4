----------------------------- MODULE Certificates -----------------------------
(***************************************************************************)
(* Certificates, requests for them and lists of revoked ones: how they are *)
(* made and read (src/crypto/sm2/x509.go).  A DER encoding is the sequence *)
(* of the values in it, each with the kind it was encoded as; a signature  *)
(* tells the key, what was signed, and whether RSA padded it as PSS.       *)
(***************************************************************************)
EXTENDS Integers, Sequences, FiniteSets, SequencesExt

CONSTANTS Templates, Foreign,    \* what is given of certificates to be made; extensions of others
          Keys,                  \* that sign
          Requests               \* to be made

OK == "no"
Has(s, x) == \E i \in DOMAIN s : s[i] = x
Marshal(kind, v) == <<[kind |-> kind, val |-> v]>>
\* The first value has to be of the kind; whether more may follow is up to the caller.
Unmarshals(kind, der) == der # <<>> /\ der[1].kind = kind
OnlyOne(kind, der) == Unmarshals(kind, der) /\ Len(der) = 1

-----------------------------------------------------------------------------
\* Algorithms.
digestSizes == [MD4 |-> 16, MD5 |-> 16, SHA1 |-> 20, SHA224 |-> 28, SHA256 |-> 32, SHA384 |-> 48, SHA512 |-> 64,
                SHA512_224 |-> 28, SHA512_256 |-> 32, SHA3_224 |-> 28, SHA3_256 |-> 32, SHA3_384 |-> 48,
                SHA3_512 |-> 64, MD5SHA1 |-> 36, RIPEMD160 |-> 20, SM3 |-> 32]
Available(h) == h \in DOMAIN digestSizes \ {"MD4", "MD5SHA1"}

Pkcs1 == <<1, 2, 840, 113549, 1, 1>>
Ansi == <<1, 2, 840, 10045>>
Chinese == <<1, 2, 156, 10197, 1>>
Nist == <<2, 16, 840, 1, 101, 3, 4>>
RsaPSS == Pkcs1 \o <<10>>
signatureAlgorithmDetails == <<
  <<"MD2WithRSA", Pkcs1 \o <<2>>, "RSA", "none">>, <<"MD5WithRSA", Pkcs1 \o <<4>>, "RSA", "MD5">>,
  <<"SHA1WithRSA", Pkcs1 \o <<5>>, "RSA", "SHA1">>, <<"SHA1WithRSA", <<1, 3, 14, 3, 2, 29>>, "RSA", "SHA1">>,
  <<"SHA256WithRSA", Pkcs1 \o <<11>>, "RSA", "SHA256">>, <<"SHA384WithRSA", Pkcs1 \o <<12>>, "RSA", "SHA384">>,
  <<"SHA512WithRSA", Pkcs1 \o <<13>>, "RSA", "SHA512">>,
  <<"SHA256WithRSAPSS", RsaPSS, "RSA", "SHA256">>, <<"SHA384WithRSAPSS", RsaPSS, "RSA", "SHA384">>,
  <<"SHA512WithRSAPSS", RsaPSS, "RSA", "SHA512">>,
  <<"DSAWithSHA1", <<1, 2, 840, 10040, 4, 3>>, "DSA", "SHA1">>, <<"DSAWithSHA256", Nist \o <<3, 2>>, "DSA", "SHA256">>,
  <<"ECDSAWithSHA1", Ansi \o <<4, 1>>, "ECDSA", "SHA1">>, <<"ECDSAWithSHA256", Ansi \o <<4, 3, 2>>, "ECDSA", "SHA256">>,
  <<"ECDSAWithSHA384", Ansi \o <<4, 3, 3>>, "ECDSA", "SHA384">>,
  <<"ECDSAWithSHA512", Ansi \o <<4, 3, 4>>, "ECDSA", "SHA512">>,
  <<"SM2WithSM3", Chinese \o <<501>>, "ECDSA", "SM3">>, <<"SM2WithSHA1", Chinese \o <<502>>, "ECDSA", "SHA1">>,
  <<"SM2WithSHA256", Chinese \o <<503>>, "ECDSA", "SHA256">> >>
isRSAPSS(algo) == algo \in {"SHA256WithRSAPSS", "SHA384WithRSAPSS", "SHA512WithRSAPSS"}
SM2Algorithms == {"SM2WithSM3", "SM2WithSHA1", "SM2WithSHA256"}

Null == Marshal("null", 0)
Mgf1 == Pkcs1 \o <<8>>
HashOID(h) == CASE h = "SHA256" -> Nist \o <<2, 1>> [] h = "SHA384" -> Nist \o <<2, 2>> [] h = "SHA512" -> Nist \o <<2, 3>>
rsaPSSParameters(h) ==
  LET ai == [oid |-> HashOID(h), params |-> Null]
  IN Marshal("pss", [hash |-> ai, mgf |-> [oid |-> Mgf1, params |-> Marshal("algorithm", ai)],
                     saltLength |-> digestSizes[h], trailer |-> 1])
\* PSS is told by its parameters, if they are those of one of the three hashes.
getSignatureAlgorithmFromAI(ai) ==
  LET rows == SelectSeq(signatureAlgorithmDetails, LAMBDA d : d[2] = ai.oid)
      p == ai.params[1].val
      known == {h \in {"SHA256", "SHA384", "SHA512"} : p.hash.oid = HashOID(h) /\ p.saltLength = digestSizes[h]}
  IN IF ai.oid # RsaPSS THEN IF rows = <<>> THEN "unknown" ELSE rows[1][1]
     ELSE IF /\ Unmarshals("pss", ai.params) /\ Unmarshals("algorithm", p.mgf.params)
             /\ p.hash.params = Null /\ p.mgf.oid = Mgf1
             /\ p.mgf.params[1].val = [oid |-> p.hash.oid, params |-> Null]
             /\ p.trailer = 1 /\ known # {}
     THEN CASE known = {"SHA256"} -> "SHA256WithRSAPSS" [] known = {"SHA384"} -> "SHA384WithRSAPSS"
            [] OTHER -> "SHA512WithRSAPSS"
     ELSE "unknown"

-----------------------------------------------------------------------------
\* Public keys.  An SM2 key is read back as one of ECDSA on the SM2 curve.
oidPublicKey == [RSA |-> Pkcs1 \o <<1>>, DSA |-> <<1, 2, 840, 10040, 4, 1>>, ECDSA |-> Ansi \o <<2, 1>>]
getPublicKeyAlgorithmFromOID(oid) ==
  IF \E a \in DOMAIN oidPublicKey : oidPublicKey[a] = oid THEN CHOOSE a \in DOMAIN oidPublicKey : oidPublicKey[a] = oid
  ELSE "unknown"
oidNamedCurve == [P224 |-> <<1, 3, 132, 0, 33>>, P256 |-> Ansi \o <<3, 1, 7>>, P384 |-> <<1, 3, 132, 0, 34>>,
                  P521 |-> <<1, 3, 132, 0, 35>>, P256SM2 |-> Chinese \o <<301>>]
namedCurveFromOID(oid) ==
  IF \E c \in DOMAIN oidNamedCurve : oidNamedCurve[c] = oid THEN CHOOSE c \in DOMAIN oidNamedCurve : oidNamedCurve[c] = oid
  ELSE "nil"

marshalPublicKey(pub) ==
  IF pub.type = "rsa" THEN [err |-> OK, info |-> [oid |-> oidPublicKey.RSA, params |-> Null,
                                                  key |-> Marshal("rsa", [n |-> pub.n, e |-> pub.e])]]
  ELSE IF pub.type \in {"ecdsa", "sm2"} /\ pub.curve \in DOMAIN oidNamedCurve
  THEN [err |-> OK, info |-> [oid |-> oidPublicKey.ECDSA, params |-> Marshal("oid", oidNamedCurve[pub.curve]),
                              key |-> Marshal("point", [curve |-> pub.curve, xy |-> pub.n])]]
  ELSE [err |-> "unsupported"]

Key(type, curve, n, e) == [type |-> type, curve |-> curve, n |-> n, e |-> e]
parsePublicKey(algo, info) ==
  LET Got(k) == [err |-> OK, key |-> k]
      Bad == [err |-> "key"]
      v == info.key[1].val
      curve == namedCurveFromOID(info.params[1].val)
  IN CASE algo = "RSA" ->
            IF info.params = Null /\ OnlyOne("rsa", info.key) /\ v.n > 0 /\ v.e > 0
            THEN Got(Key("rsa", "none", v.n, v.e)) ELSE Bad
       [] algo = "DSA" ->
            IF /\ OnlyOne("integer", info.key) /\ OnlyOne("dsa", info.params) /\ v > 0
               /\ \A i \in 1 .. 3 : info.params[1].val[i] > 0
            THEN Got(Key("dsa", "none", v, info.params[1].val)) ELSE Bad
       [] algo = "ECDSA" ->
            IF OnlyOne("oid", info.params) /\ curve # "nil" /\ OnlyOne("point", info.key) /\ v.curve = curve
            THEN Got(Key("ecdsa", curve, v.xy, 0)) ELSE Bad
       [] OTHER -> Got(Key("nil", "none", 0, 0))
MarshalPKIXPublicKey(pub) == Marshal("publicKey", marshalPublicKey(pub).info)
ParsePKIXPublicKey(der) ==
  IF ~OnlyOne("publicKey", der) \/ getPublicKeyAlgorithmFromOID(der[1].val.oid) = "unknown" THEN [err |-> "key"]
  ELSE parsePublicKey(getPublicKeyAlgorithmFromOID(der[1].val.oid), der[1].val)

-----------------------------------------------------------------------------
\* Signatures.  What a key is given to sign is a digest or, with "raw", the whole.
Digest(h, data) == <<h, data>>
Sign(key, digest, pss) == [key |-> <<key.n, key.e>>, digest |-> digest, pss |-> pss /\ key.type = "rsa"]

\* The default of the key, or the algorithm that is asked for if it is one of the key's.
signingParamsForPublicKey(pub, requested) ==
  LET Pick(algo) == SelectSeq(signatureAlgorithmDetails, LAMBDA d : d[1] = algo)
      default == CASE pub.type = "rsa" -> "SHA256WithRSA"
                   [] pub.type = "ecdsa" /\ pub.curve \in {"P224", "P256"} -> "ECDSAWithSHA256"
                   [] pub.type = "ecdsa" /\ pub.curve = "P384" -> "ECDSAWithSHA384"
                   [] pub.type = "ecdsa" /\ pub.curve = "P521" -> "ECDSAWithSHA512"
                   [] pub.type = "sm2" /\ pub.curve = "P256SM2" -> "SM2WithSM3"
                   [] OTHER -> "none"
      d == Pick(IF requested = "none" THEN default ELSE requested)
      null == IF pub.type = "rsa" THEN Null ELSE <<>>
  IN IF default = "none" \/ d = <<>> THEN [err |-> "algorithm"]
     ELSE IF d[1][3] # Pick(default)[1][3] \/ d[1][4] = "none" THEN [err |-> "algorithm"]
     ELSE [err |-> OK, hash |-> d[1][4],
           ai |-> [oid |-> d[1][2], params |-> IF requested # "none" /\ isRSAPSS(requested) THEN rsaPSSParameters(d[1][4]) ELSE null]]

checkSignature(algo, signed, signature, pub) ==
  LET rows == SelectSeq(signatureAlgorithmDetails, LAMBDA d : d[1] = algo)
      hash == rows[1][4]
  IN IF algo \in {"MD2WithRSA", "MD5WithRSA"} THEN "insecure"
     ELSE IF rows = <<>> THEN "unsupported"
     ELSE IF ~Available(hash) \/ pub.type \notin {"rsa", "dsa", "ecdsa"} THEN "unsupported"
     ELSE IF /\ signature.key = <<pub.n, pub.e>>
             /\ signature.digest = Digest(IF pub.type = "ecdsa" /\ pub.curve = "P256SM2" THEN "raw" ELSE hash, signed)
             /\ pub.type = "rsa" => (signature.pss <=> isRSAPSS(algo))
     THEN OK ELSE "signature"

-----------------------------------------------------------------------------
\* Extensions.
Bit(n, i) == (n \div 2 ^ i) % 2
reverseBitsInAByte(b) ==
  LET b1 == b \div 16 + 16 * (b % 16)
      Swap(n, w) == FoldLeft(LAMBDA s, i : s + Bit(n, i) * 2 ^ (IF (i \div w) % 2 = 0 THEN i + w ELSE i - w), 0,
                             [i \in 1 .. 8 |-> i - 1])
  IN Swap(Swap(b1, 2), 1)
asn1BitLength(bits) ==
  LET set == {n \in 1 .. 8 * Len(bits) : Bit(bits[(n - 1) \div 8 + 1], 7 - ((n - 1) % 8)) = 1}
  IN IF set = {} THEN 0 ELSE CHOOSE n \in set : \A m \in set : m <= n
\* Bit i of a bit string.
BitAt(bs, i) == IF i < bs.len THEN Bit(bs.bytes[i \div 8 + 1], 7 - (i % 8)) ELSE 0

Pkix == <<1, 3, 6, 1, 5, 5, 7>>
extKeyUsageOIDs == <<
  <<0, <<2, 5, 29, 37, 0>>>>, <<1, Pkix \o <<3, 1>>>>, <<2, Pkix \o <<3, 2>>>>, <<3, Pkix \o <<3, 3>>>>, <<4, Pkix \o <<3, 4>>>>,
  <<5, Pkix \o <<3, 5>>>>, <<6, Pkix \o <<3, 6>>>>, <<7, Pkix \o <<3, 7>>>>, <<8, Pkix \o <<3, 8>>>>, <<9, Pkix \o <<3, 9>>>>,
  <<10, <<1, 3, 6, 1, 4, 1, 311, 10, 3, 3>>>>, <<11, <<2, 16, 840, 1, 113730, 4, 1>>>> >>
extKeyUsageFromOID(oid) == SelectSeq(extKeyUsageOIDs, LAMBDA p : p[2] = oid)
oidFromExtKeyUsage(eku) == SelectSeq(extKeyUsageOIDs, LAMBDA p : p[1] = eku)

Ext(n) == <<2, 5, 29, n>>
AuthorityInfo == Pkix \o <<1, 1>>
Ocsp == Pkix \o <<48, 1>>
Issuers == Pkix \o <<48, 2>>
oidInExtensions(oid, extensions) == \E i \in DOMAIN extensions : extensions[i].id = oid
Each(s, Op(_)) == [i \in DOMAIN s |-> Op(s[i])] \o <<>>

\* An address is four bytes where it can be.
To4(ip) == IF ip.len = 16 /\ ip.mapped THEN [ip EXCEPT !.len = 4, !.mapped = FALSE] ELSE ip
marshalSANs(t) ==
  Marshal("sequence", Each(t.DNSNames, LAMBDA n : <<2, n>>) \o Each(t.EmailAddresses, LAMBDA n : <<1, n>>)
                        \o Each(t.IPAddresses, LAMBDA n : <<7, To4(n)>>))
NamesGiven(t) == t.DNSNames # <<>> \/ t.EmailAddresses # <<>> \/ t.IPAddresses # <<>>

KeyUsageBits(usage) ==
  LET a == <<reverseBitsInAByte(usage % 256), reverseBitsInAByte((usage \div 256) % 256)>>
      bits == IF a[2] # 0 THEN a ELSE <<a[1]>>
  IN [bytes |-> bits, len |-> asn1BitLength(bits)]
\* No length is -1, and so is zero unless it is meant.
PathLen(t) == IF t.MaxPathLen = 0 /\ ~t.MaxPathLenZero THEN -1 ELSE t.MaxPathLen

\* In this order; an extra extension replaces the one of its kind.
buildExtensions(t) ==
  LET Own(given, id, critical, der) ==
        IF given /\ ~oidInExtensions(id, t.ExtraExtensions) THEN <<[id |-> id, critical |-> critical, value |-> der]>>
        ELSE <<>>
      Access(method, names) == Each(names, LAMBDA n : [method |-> method, tag |-> 6, name |-> n])
  IN Own(t.KeyUsage # 0, Ext(15), TRUE, Marshal("bits", KeyUsageBits(t.KeyUsage)))
     \o Own(t.ExtKeyUsage # <<>> \/ t.UnknownExtKeyUsage # <<>>, Ext(37), FALSE,
            Marshal("oids", Each(t.ExtKeyUsage, LAMBDA u : oidFromExtKeyUsage(u)[1][2]) \o t.UnknownExtKeyUsage))
     \o Own(t.BasicConstraintsValid, Ext(19), TRUE, Marshal("basic", [ca |-> t.IsCA, max |-> PathLen(t)]))
     \o Own(t.SubjectKeyID # <<>>, Ext(14), FALSE, Marshal("bytes", t.SubjectKeyID))
     \o Own(t.AuthorityKeyID # <<>>, Ext(35), FALSE, Marshal("authKeyID", t.AuthorityKeyID))
     \o Own(t.OCSPServer # <<>> \/ t.IssuingCertificateURL # <<>>, AuthorityInfo, FALSE,
            Marshal("access", Access(Ocsp, t.OCSPServer) \o Access(Issuers, t.IssuingCertificateURL)))
     \o Own(NamesGiven(t), Ext(17), FALSE, marshalSANs(t))
     \o Own(t.PolicyIdentifiers # <<>>, Ext(32), FALSE, Marshal("policies", t.PolicyIdentifiers))
     \o Own(t.PermittedDNSDomains # <<>>, Ext(30), t.PermittedDNSDomainsCritical,
            Marshal("constraints", [permitted |-> t.PermittedDNSDomains, excluded |-> <<>>]))
     \o Own(t.CRLDistributionPoints # <<>>, Ext(31), FALSE,
            Marshal("points", Each(t.CRLDistributionPoints, LAMBDA n : <<<<6, n>>>>)))
     \o t.ExtraExtensions

\* Names, mail addresses and addresses; others are skipped.
parseSANExtension(der) ==
  LET Of(tag) == Each(SelectSeq(der[1].val, LAMBDA v : v[1] = tag), LAMBDA v : v[2])
  IN IF ~OnlyOne("sequence", der) THEN [err |-> "san"]
     ELSE IF \E i \in DOMAIN Of(7) : Of(7)[i].len \notin {4, 16} THEN [err |-> "ip"]
     ELSE [err |-> OK, dns |-> Of(2), email |-> Of(1), ip |-> Of(7)]
WithSAN(out, san) ==
  IF san.err # OK THEN [out EXCEPT !.err = san.err]
  ELSE [out EXCEPT !.DNSNames = san.dns, !.EmailAddresses = san.email, !.IPAddresses = san.ip]

KnownExtension == [n \in {15, 19, 17, 30, 31, 35, 37, 14, 32} |->
  CASE n = 15 -> "bits" [] n = 19 -> "basic" [] n = 17 -> "sequence" [] n = 30 -> "constraints" [] n = 31 -> "points"
    [] n = 35 -> "authKeyID" [] n = 37 -> "oids" [] n = 14 -> "bytes" [] n = 32 -> "policies"]
Number(id) == IF Len(id) = 4 /\ SubSeq(id, 1, 3) = <<2, 5, 29>> THEN id[4] ELSE 0
\* One known extension is read into the certificate; lists grow, the rest is replaced.
ReadKnown(out, n, e) ==
  LET v == e.value[1].val
      named == SelectSeq(v.permitted, LAMBDA d : d # "")
      points == SelectSeq(v, LAMBDA p : p # <<>>)
  IN CASE n = 15 -> [out EXCEPT !.KeyUsage = FoldLeft(LAMBDA s, i : s + BitAt(v, i - 1) * 2 ^ (i - 1), 0, [i \in 1 .. 9 |-> i])]
       [] n = 19 -> [out EXCEPT !.BasicConstraintsValid = TRUE, !.IsCA = v.ca, !.MaxPathLen = v.max, !.MaxPathLenZero = v.max = 0]
       [] n = 30 -> IF e.critical /\ (v.excluded # <<>> \/ named # v.permitted) THEN [out EXCEPT !.err = "unhandledCritical"]
                    ELSE [out EXCEPT !.PermittedDNSDomains = @ \o named]
       [] n = 31 -> [out EXCEPT !.CRLDistributionPoints =
                       @ \o Each(SelectSeq(points, LAMBDA p : p[1][1] = 6), LAMBDA p : p[1][2])]
       [] n = 35 -> [out EXCEPT !.AuthorityKeyID = v]
       [] n = 37 -> [out EXCEPT
                       !.ExtKeyUsage = @ \o Each(SelectSeq(v, LAMBDA u : extKeyUsageFromOID(u) # <<>>),
                                                 LAMBDA u : extKeyUsageFromOID(u)[1][1]),
                       !.UnknownExtKeyUsage = @ \o SelectSeq(v, LAMBDA u : extKeyUsageFromOID(u) = <<>>)]
       [] n = 14 -> [out EXCEPT !.SubjectKeyID = v]
       [] n = 32 -> [out EXCEPT !.PolicyIdentifiers = v]
\* A critical one that nobody read is recorded.
ReadExtension(out, e) ==
  LET n == Number(e.id)
      located(method) == Each(SelectSeq(e.value[1].val, LAMBDA a : a.tag = 6 /\ a.method = method), LAMBDA a : a.name)
      san == parseSANExtension(e.value)
      Unhandled(o) == IF e.critical THEN [o EXCEPT !.UnhandledCriticalExtensions = Append(@, e.id)] ELSE o
  IN IF out.err # OK THEN out
     ELSE IF n = 17 THEN IF san.err = OK /\ san.dns \o san.email \o san.ip = <<>> THEN Unhandled(WithSAN(out, san))
                         ELSE WithSAN(out, san)
     ELSE IF n \in DOMAIN KnownExtension
     THEN IF OnlyOne(KnownExtension[n], e.value) THEN ReadKnown(out, n, e) ELSE [out EXCEPT !.err = "extension"]
     ELSE IF e.id = AuthorityInfo
     THEN IF OnlyOne("access", e.value)
          THEN [out EXCEPT !.OCSPServer = @ \o located(Ocsp), !.IssuingCertificateURL = @ \o located(Issuers)]
          ELSE [out EXCEPT !.err = "extension"]
     ELSE Unhandled(out)

\* A certificate of which nothing was given.
Blank == [KeyUsage |-> 0, ExtKeyUsage |-> <<>>, UnknownExtKeyUsage |-> <<>>, BasicConstraintsValid |-> FALSE, IsCA |-> FALSE,
          MaxPathLen |-> 0, MaxPathLenZero |-> FALSE, SubjectKeyID |-> <<>>, AuthorityKeyID |-> <<>>, OCSPServer |-> <<>>,
          IssuingCertificateURL |-> <<>>, DNSNames |-> <<>>, EmailAddresses |-> <<>>, IPAddresses |-> <<>>,
          PermittedDNSDomainsCritical |-> FALSE, PermittedDNSDomains |-> <<>>, CRLDistributionPoints |-> <<>>,
          PolicyIdentifiers |-> <<>>, ExtraExtensions |-> <<>>, UnhandledCriticalExtensions |-> <<>>, err |-> OK]
ReadExtensions(extensions) == FoldLeft(ReadExtension, Blank, extensions)

-----------------------------------------------------------------------------
\* Certificates: [names, ext, SignatureAlgorithm], a name given raw or not.
subjectBytes(c) == IF c.RawSubject # "" THEN c.RawSubject ELSE c.Subject
\* What is signed with the SM2 algorithms is not hashed before.
ToSign(algo, hash, tbs) == Digest(IF algo \in SM2Algorithms THEN "raw" ELSE hash, tbs)

\* The template keeps the key id of its parent.
WithParent(template, parent) ==
  IF subjectBytes(parent) # subjectBytes(template) /\ parent.ext.SubjectKeyID # <<>>
  THEN [template EXCEPT !.ext.AuthorityKeyID = parent.ext.SubjectKeyID] ELSE template
CreateCertificate(template, parent, pub, priv) ==
  LET params == signingParamsForPublicKey(priv, template.SignatureAlgorithm)
      t == WithParent(template, parent)
      tbs == [SerialNumber |-> template.SerialNumber, ai |-> params.ai, Issuer |-> subjectBytes(parent),
              Subject |-> subjectBytes(template), PublicKey |-> marshalPublicKey(pub).info, Extensions |-> buildExtensions(t.ext)]
  IN IF priv.type = "public" \/ template.SerialNumber < 0 THEN [err |-> "arguments"]
     ELSE IF params.err # OK THEN [err |-> params.err]
     ELSE IF marshalPublicKey(pub).err # OK THEN [err |-> marshalPublicKey(pub).err]
     ELSE [err |-> OK,
           der |-> Marshal("certificate", [tbs |-> tbs, ai |-> params.ai,
                     signature |-> Sign(priv, ToSign(template.SignatureAlgorithm, params.hash, tbs),
                                        isRSAPSS(template.SignatureAlgorithm))])]

parseCertificate(in) ==
  LET algo == getPublicKeyAlgorithmFromOID(in.tbs.PublicKey.oid)
      key == parsePublicKey(algo, in.tbs.PublicKey)
      ext == ReadExtensions(in.tbs.Extensions)
  IN IF key.err # OK THEN [err |-> key.err]
     ELSE IF ext.err # OK THEN [err |-> ext.err]
     ELSE [err |-> OK, ext |-> ext, RawTBSCertificate |-> in.tbs, Signature |-> in.signature,
           SignatureAlgorithm |-> getSignatureAlgorithmFromAI(in.tbs.ai), PublicKey |-> key.key,
           SerialNumber |-> in.tbs.SerialNumber, RawSubject |-> in.tbs.Subject, RawIssuer |-> in.tbs.Issuer,
           Subject |-> in.tbs.Subject]
ParseCertificate(der) ==
  IF OnlyOne("certificate", der) THEN parseCertificate(der[1].val) ELSE [err |-> "certificate"]
ParseCertificates(der) ==
  IF \A i \in DOMAIN der : der[i].kind = "certificate" /\ parseCertificate(der[i].val).err = OK
  THEN [err |-> OK, certs |-> Each(der, LAMBDA d : parseCertificate(d.val))] ELSE [err |-> "certificate"]

\* A list of revoked certificates is signed by default, and always hashed.
CreateCRL(c, priv, revoked) ==
  LET params == signingParamsForPublicKey(priv, "none")
      tbs == [ai |-> params.ai, Issuer |-> c.Subject, Revoked |-> revoked,
              Extensions |-> IF c.ext.SubjectKeyID = <<>> THEN <<>>
                             ELSE <<[id |-> Ext(35), critical |-> FALSE, value |-> Marshal("authKeyID", c.ext.SubjectKeyID)]>>]
  IN IF priv.type = "public" THEN [err |-> "arguments"]
     ELSE IF params.err # OK THEN [err |-> params.err]
     ELSE [err |-> OK, der |-> Marshal("crl", [tbs |-> tbs, ai |-> params.ai,
                                               signature |-> Sign(priv, Digest(params.hash, tbs), FALSE)])]
\* Text around it is taken off where it says so.
ParseCRL(bytes) ==
  LET der == IF bytes.pem \in {"none", "X509 CRL"} THEN bytes.der ELSE <<>>
  IN IF OnlyOne("crl", der) THEN [err |-> OK, crl |-> der[1].val] ELSE [err |-> "crl"]
CheckCRLSignature(pub, crl) == checkSignature(getSignatureAlgorithmFromAI(crl.ai), crl.tbs, crl.signature, pub)

-----------------------------------------------------------------------------
\* Requests: an attribute has a type and lists of typed values, of which the first list is read.
ExtensionRequest == <<1, 2, 840, 113549, 1, 9, 14>>
RequestExtensions(t) ==
  (IF NamesGiven(t) /\ ~oidInExtensions(Ext(17), t.ExtraExtensions)
   THEN <<[id |-> Ext(17), critical |-> FALSE, value |-> marshalSANs(t)]>> ELSE <<>>) \o t.ExtraExtensions
\* What an attribute has of an extension takes priority.
SpecifiedExtensions(attributes) ==
  {a.id : a \in UNION {ToSet(FlattenSeq(b.Value)) : b \in {x \in ToSet(attributes) : x.type = ExtensionRequest}}}
\* They are added to the first attribute that can take them, which is the template's own.
WithExtensions(t) ==
  LET exts == RequestExtensions(t)
      atvs == Each(SelectSeq(exts, LAMBDA e : e.id \notin SpecifiedExtensions(t.Attributes)), LAMBDA e : [id |-> e.id, value |-> e.value])
      takes == {i \in DOMAIN t.Attributes : t.Attributes[i].type = ExtensionRequest /\ t.Attributes[i].Value # <<>>}
  IN IF exts = <<>> THEN t.Attributes
     ELSE IF takes = {} THEN Append(t.Attributes, [type |-> ExtensionRequest, Value |-> <<atvs>>])
     ELSE [t.Attributes EXCEPT ![CHOOSE i \in takes : \A j \in takes : i <= j].Value[1] = @ \o atvs]
\* What of the attributes is the template's is changed by a request.
AfterRequest(t) == [t EXCEPT !.Attributes = SubSeq(WithExtensions(t), 1, Len(t.Attributes))]

\* The padding of PSS is not asked for.
CreateCertificateRequest(t, priv) ==
  LET params == signingParamsForPublicKey(priv, t.SignatureAlgorithm)
      tbs == [Subject |-> subjectBytes(t), PublicKey |-> marshalPublicKey(priv).info, RawAttributes |-> WithExtensions(t)]
  IN IF priv.type = "public" THEN [err |-> "arguments"]
     ELSE IF params.err # OK THEN [err |-> params.err]
     ELSE [err |-> OK, der |-> Marshal("request", [tbs |-> tbs, ai |-> params.ai,
             signature |-> Sign(priv, ToSign(t.SignatureAlgorithm, params.hash, tbs), FALSE)])]

parseCSRExtensions(attributes) ==
  FlattenSeq(Each(SelectSeq(attributes, LAMBDA a : a.type = ExtensionRequest /\ a.Value # <<>>), LAMBDA a : a.Value[1]))
parseCertificateRequest(in) ==
  LET key == parsePublicKey(getPublicKeyAlgorithmFromOID(in.tbs.PublicKey.oid), in.tbs.PublicKey)
      exts == parseCSRExtensions(in.tbs.RawAttributes)
      named == FoldLeft(LAMBDA o, e : IF o.err = OK THEN WithSAN(o, parseSANExtension(e.value)) ELSE o,
                        Blank, SelectSeq(exts, LAMBDA e : e.id = Ext(17)))
  IN IF key.err # OK THEN [err |-> key.err]
     ELSE IF named.err # OK THEN [err |-> named.err]
     ELSE [err |-> OK, Attributes |-> in.tbs.RawAttributes, Extensions |-> exts, names |-> named, PublicKey |-> key.key,
           Subject |-> in.tbs.Subject, RawTBS |-> in.tbs, Signature |-> in.signature,
           SignatureAlgorithm |-> getSignatureAlgorithmFromAI(in.ai)]
ParseCertificateRequest(der) ==
  IF OnlyOne("request", der) THEN parseCertificateRequest(der[1].val) ELSE [err |-> "request"]

-----------------------------------------------------------------------------
\* What a template is read back as: without usages beyond the ninth bit, empty domains and
\* the mark of a critical constraint, and with the usages and addresses that are known.
Normal(t) ==
  LET known == SelectSeq(t.UnknownExtKeyUsage, LAMBDA u : extKeyUsageFromOID(u) # <<>>)
  IN [t EXCEPT !.KeyUsage = @ % 512,
               !.ExtKeyUsage = @ \o Each(known, LAMBDA u : extKeyUsageFromOID(u)[1][1]),
               !.UnknownExtKeyUsage = SelectSeq(@, LAMBDA u : extKeyUsageFromOID(u) = <<>>),
               !.IsCA = @ /\ t.BasicConstraintsValid,
               !.MaxPathLen = IF ~t.BasicConstraintsValid THEN 0 ELSE IF @ = 0 /\ ~t.MaxPathLenZero THEN -1 ELSE @,
               !.MaxPathLenZero = @ /\ t.BasicConstraintsValid /\ t.MaxPathLen = 0,
               !.IPAddresses = Each(@, LAMBDA ip : [len |-> IF ip.mapped THEN 4 ELSE ip.len, addr |-> ip.addr, mapped |-> FALSE]),
               !.PermittedDNSDomains = SelectSeq(@, LAMBDA d : d # ""),
               !.PermittedDNSDomainsCritical = FALSE, !.ExtraExtensions = <<>>]
Refused(t) ==
  \/ \E i \in DOMAIN t.IPAddresses : t.IPAddresses[i].len \notin {4, 16}
  \/ t.PermittedDNSDomainsCritical /\ \E i \in DOMAIN t.PermittedDNSDomains : t.PermittedDNSDomains[i] = ""

Given == {t @@ Blank : t \in Templates}
\* ExtensionsReadBack: the extensions of a certificate are read back as the template they
\* were made from, or refused, and made again the same; an extra one replaces its kind
\* (x509.go:1287-1501, 1547-1798).
ExtensionsReadBack ==
  /\ \A t \in Given :
       LET out == ReadExtensions(buildExtensions(t))
       IN IF Refused(t) THEN out.err # OK
          ELSE out = Normal(t) /\ ReadExtensions(buildExtensions(out)) = out
  /\ \A t \in Given, extra \in Foreign :
       LET made == buildExtensions([t EXCEPT !.ExtraExtensions = extra])
       IN \A i \in DOMAIN made : oidInExtensions(made[i].id, extra) => Has(extra, made[i])

\* CriticalKept: of a critical extension either all that it says is read, or it is recorded
\* for Verify to refuse, or the certificate is (x509.go:1287-1501).
CriticalKept ==
  \A extensions \in Foreign :
    LET out == ReadExtensions(extensions)
    IN out.err = OK =>
         \A i \in DOMAIN extensions :
           LET e == extensions[i] v == e.value[1].val
               last == \A j \in i + 1 .. Len(extensions) : extensions[j].id # e.id
           IN e.critical =>
                \/ Has(out.UnhandledCriticalExtensions, e.id)
                \/ e.id = Ext(15) /\ (last => \A n \in 0 .. 8 : BitAt(v, n) = Bit(out.KeyUsage, n))
                \/ e.id = Ext(30) /\ v.excluded = <<>> /\ ToSet(v.permitted) \subseteq ToSet(out.PermittedDNSDomains)
                \/ e.id = Ext(17) /\ (last => out.DNSNames \o out.EmailAddresses \o out.IPAddresses # <<>>)
                \/ e.id \in {Ext(n) : n \in DOMAIN KnownExtension \ {15, 17, 30}} \cup {AuthorityInfo}

\* SignedVerifies: what a key signed is read back with the key and the algorithm, and its
\* signature holds; but for MD5, for an SM2 key without one of the SM2 algorithms, also by
\* default, and another key with one, as only these algorithms leave the hashing to the
\* key; for requests with PSS, and lists of an SM2 key
\* (x509.go:966-1042, 1811-2081, 2218-2369).
Asked == {"none"} \cup {signatureAlgorithmDetails[i][1] : i \in DOMAIN signatureAlgorithmDetails}
Read(k) == IF k.type = "sm2" THEN [k EXCEPT !.type = "ecdsa"] ELSE k
SignedVerifies ==
  \A k \in Keys, algo \in Asked :
    LET t == [SignatureAlgorithm |-> algo, SerialNumber |-> 1, RawSubject |-> "", Subject |-> "me", ext |-> Blank,
              Attributes |-> <<>>, ExtraExtensions |-> <<>>, DNSNames |-> <<"a">>, EmailAddresses |-> <<>>, IPAddresses |-> <<>>]
        holds == ((k.type = "sm2") <=> (algo \in SM2Algorithms)) /\ algo # "MD5WithRSA"
    IN /\ ParsePKIXPublicKey(MarshalPKIXPublicKey(k)) = [err |-> OK, key |-> Read(k)]
       /\ \A made \in {CreateCertificate(t, t, k, k)}, asked \in {CreateCertificateRequest(t, k)} :
            /\ made.err = OK <=> asked.err = OK
            /\ made.err = OK =>
                 \A c \in {ParseCertificate(made.der)}, r \in {ParseCertificateRequest(asked.der)} :
                   /\ c.err = OK /\ c.PublicKey = Read(k) /\ (algo # "none" => c.SignatureAlgorithm = algo)
                   /\ (checkSignature(c.SignatureAlgorithm, c.RawTBSCertificate, c.Signature, c.PublicKey) = OK) <=> holds
                   /\ r.err = OK /\ r.PublicKey = Read(k) /\ r.names.DNSNames = <<"a">>
                   /\ (checkSignature(r.SignatureAlgorithm, r.RawTBS, r.Signature, r.PublicKey) = OK) <=> holds /\ ~isRSAPSS(algo)
       /\ \A crl \in {CreateCRL([ext |-> Blank, Subject |-> "me"], k, {7})} :
            (CheckCRLSignature(Read(k), ParseCRL([pem |-> "none", der |-> crl.der]).crl) = OK) <=> k.type # "sm2"

\* RequestsReadBack: a request has each of the extensions of its template once more than
\* its attributes say, unless only a later list says it, which is not read; made again it
\* is the same, even with other names, where an attribute of the template took the first
\* ones (x509.go:2179-2207, 2238-2310).
First(t) == ToSet(parseCSRExtensions(t.Attributes))
RequestsReadBack ==
  \A t \in Requests :
    LET exts == ToSet(parseCSRExtensions(WithExtensions(t)))
        again == AfterRequest(t)
        others == [again EXCEPT !.DNSNames = <<"other">>]
        Told(r) == {e.value : e \in {x \in ToSet(parseCSRExtensions(WithExtensions(r))) : x.id = Ext(17)}}
    IN /\ First(t) \subseteq exts
       /\ \A e \in ToSet(RequestExtensions(t)) :
            IF e.id \in SpecifiedExtensions(t.Attributes)
            THEN \A x \in exts \ First(t) : x.id # e.id
            ELSE [id |-> e.id, value |-> e.value] \in exts
       /\ WithExtensions(again) = WithExtensions(t)
       /\ NamesGiven(t) /\ ~oidInExtensions(Ext(17), t.ExtraExtensions) =>
            IF again = t /\ Ext(17) \notin SpecifiedExtensions(t.Attributes) THEN Told(others) = {marshalSANs(others)}
            ELSE Told(others) = Told(t)

\* ParentsKept: a template that is used for two parents keeps the key id of the first one
\* where the second has none (x509.go:1930-1932).
ParentsKept ==
  \A own \in {<<>>, <<3>>}, first, second \in {<<>>, <<1>>, <<2>>}, k \in Keys :
    LET Parent(id) == [RawSubject |-> "", Subject |-> "ca", ext |-> [Blank EXCEPT !.SubjectKeyID = id]]
        t == [SignatureAlgorithm |-> "none", SerialNumber |-> 1, RawSubject |-> "", Subject |-> "me",
              ext |-> [Blank EXCEPT !.AuthorityKeyID = own]]
        made == ParseCertificate(CreateCertificate(WithParent(t, Parent(first)), Parent(second), k, k).der)
    IN made.ext.AuthorityKeyID = (IF second # <<>> THEN second ELSE IF first # <<>> THEN first ELSE own)
=============================================================================
