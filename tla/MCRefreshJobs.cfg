SPECIFICATION Spec
CONSTANTS
    w1 = w1
    s1 = s1
    Web <- OneWeb
    Scrapers <- OneScraper
    Refreshers <- FastOnly
    MaxVersion = 2
    MaxFaults = 2
INVARIANTS
    Inv
    EditsArrive
