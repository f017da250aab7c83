SPECIFICATION FairSpec
CONSTANTS
    Cert <- MCCert
    X509 <- MCX509
    Configs <- MCConfigs
    Logins <- MCLogins
    None = None

    
    
PROPERTIES
    VerifyReturns
